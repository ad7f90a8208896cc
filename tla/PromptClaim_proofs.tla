--------------------------- MODULE PromptClaim_proofs ---------------------------
(***************************************************************************)
(* Proofs about PromptClaim, for any tabs, sockets and bounds: the types;   *)
(* who holds the claim (only a registered connection, once per grant,       *)
(* passed on only through a release); and what the tabs know of it: an      *)
(* up-to-date tab that believes it holds the claim does, and none offers a  *)
(* question that was answered.                                              *)
(***************************************************************************)
EXTENDS PromptClaim, TLAPS

USE PromptAssumption

-----------------------------------------------------------------------------
(* What the outgoing queues may hold.                                        *)

LEMMA PutType ==
  ASSUME TypeOK, NEW D \in SUBSET Conn, NEW messages \in [D -> Message(ToTab)],
         Put(messages)
  PROVE  /\ queue' \in [Conn -> Seq(Message(ToTab))]
         /\ \A c \in Conn : Len(queue'[c]) <= QueueSize
         /\ lossy' \subseteq Conn
<1>1. queue' = [c \in Conn |-> queue'[c]]
  BY DEF Put
<1>2. ASSUME NEW c \in Conn
      PROVE  queue'[c] \in Seq(Message(ToTab)) /\ Len(queue'[c]) <= QueueSize
  <2>1. queue[c] \in Seq(Message(ToTab)) /\ Len(queue[c]) <= QueueSize
    BY DEF TypeOK
  <2>2. CASE queue'[c] = queue[c]
    BY <2>1, <2>2
  <2>3. CASE /\ c \in D /\ Len(queue[c]) < QueueSize
             /\ queue'[c] = Append(queue[c], messages[c])
    <3>1. messages[c] \in Message(ToTab)
      BY <2>3
    <3>2. QED  BY <2>1, <2>3, <3>1
  <2>4. \/ queue'[c] = queue[c]
        \/ /\ c \in D /\ Len(queue[c]) < QueueSize
           /\ queue'[c] = Append(queue[c], messages[c])
    BY DEF Put, TypeOK
  <2>5. QED  BY <2>2, <2>3, <2>4
<1>3. lossy' \subseteq Conn
  BY DEF Put, TypeOK
<1>4. QED  BY <1>1, <1>2, <1>3

LEMMA BroadcastType ==
  ASSUME TypeOK, NEW D \in SUBSET Conn, NEW m \in Message(ToTab), Broadcast(D, m)
  PROVE  /\ queue' \in [Conn -> Seq(Message(ToTab))]
         /\ \A c \in Conn : Len(queue'[c]) <= QueueSize
         /\ lossy' \subseteq Conn
<1>1. [c \in D |-> m] \in [D -> Message(ToTab)]
  OBVIOUS
<1>2. QED  BY <1>1, PutType DEF Broadcast

LEMMA ReplayType ==
  ASSUME TypeOK, NEW c \in Conn, Replay(c)
  PROVE  /\ queue' \in [Conn -> Seq(Message(ToTab))]
         /\ \A d \in Conn : Len(queue'[d]) <= QueueSize
         /\ lossy' \subseteq Conn
<1> DEFINE room == QueueSize - Len(queue[c])
           buffered == IF phase = "over" THEN 0 ELSE asked
           events == [k \in 1..buffered |-> About("replay", k)]
           put == IF conn[c] # "open" THEN <<>>
                  ELSE IF buffered > room THEN SubSeq(events, 1, room) ELSE events
<1>1. /\ queue[c] \in Seq(Message(ToTab))
      /\ room \in 0..QueueSize /\ buffered \in 0..Questions
  BY DEF TypeOK
<1>2. events \in Seq(Message(ToTab)) /\ Len(events) = buffered
  <2>1. \A k \in 1..buffered : About("replay", k) \in Message(ToTab)
    BY <1>1 DEF About, Message, ToTab
  <2> HIDE DEF buffered
  <2>2. QED  BY <1>1, <2>1
<1>3. put \in Seq(Message(ToTab)) /\ Len(put) <= room
  <2> HIDE DEF events, buffered, room
  <2>1. CASE conn[c] # "open"
    BY <1>1, <2>1
  <2>2. CASE conn[c] = "open" /\ buffered > room
    <3>1. SubSeq(events, 1, room) \in Seq(Message(ToTab)) /\ Len(SubSeq(events, 1, room)) = room
      BY <1>1, <1>2, <2>2
    <3>2. QED  BY <2>2, <3>1, <1>1
  <2>3. CASE conn[c] = "open" /\ ~(buffered > room)
    BY <1>1, <1>2, <2>3
  <2>4. QED  BY <2>1, <2>2, <2>3
<1>4. queue' = [queue EXCEPT ![c] = @ \o put]
  BY DEF Replay
<1>5. queue[c] \o put \in Seq(Message(ToTab)) /\ Len(queue[c] \o put) <= QueueSize
  <2> HIDE DEF put
  <2>1. QED  BY <1>1, <1>3
<1>6. lossy' \subseteq Conn
  BY DEF Replay, TypeOK
<1>7. QED
  <2> HIDE DEF put
  <2>1. QED  BY <1>4, <1>5, <1>6 DEF TypeOK

-----------------------------------------------------------------------------
(* Type correctness.                                                        *)

LEMMA PlainType ==
  ASSUME NEW kind
  PROVE  /\ kind \in ToTab => Plain(kind) \in Message(ToTab)
         /\ kind \in ToServer => Plain(kind) \in Message(ToServer)
<1>1. 0 \in 0..Questions
  OBVIOUS
<1>2. QED  BY <1>1 DEF Plain, About, Message

LEMMA AboutType ==
  ASSUME NEW kind, NEW k \in 0..Questions
  PROVE  /\ kind \in ToTab => About(kind, k) \in Message(ToTab)
         /\ kind \in ToServer => About(kind, k) \in Message(ToServer)
BY DEF About, Message

\* The head of an inbox and what is left of it.
LEMMA ConsumeType ==
  ASSUME TypeOK, NEW c \in Conn, inbox[c] # <<>>, Consume(c)
  PROVE  /\ inbox' \in [Conn -> Seq(Message(ToServer))]
         /\ Head(inbox[c]) \in Message(ToServer)
<1>1. inbox[c] \in Seq(Message(ToServer))
  BY DEF TypeOK
<1>2. Tail(inbox[c]) \in Seq(Message(ToServer)) /\ Head(inbox[c]) \in Message(ToServer)
  BY <1>1
<1>3. QED  BY <1>2 DEF Consume, TypeOK

LEMMA SendType ==
  ASSUME TypeOK, NEW c \in Conn, NEW m \in Message(ToServer), Send(c, m)
  PROVE  inbox' \in [Conn -> Seq(Message(ToServer))]
<1>1. Append(inbox[c], m) \in Seq(Message(ToServer))
  BY DEF TypeOK
<1>2. QED  BY <1>1 DEF Send, TypeOK

LEMMA DeregisterType ==
  ASSUME TypeOK, NEW c \in Conn, Deregister(c)
  PROVE  /\ conn' \in [Conn -> {"fresh", "open", "cut", "gone"}]
         /\ subs' \subseteq Conn
         /\ queue' \in [Conn -> Seq(Message(ToTab))]
         /\ \A d \in Conn : Len(queue'[d]) <= QueueSize
         /\ inbox' \in [Conn -> Seq(Message(ToServer))]
         /\ reader' \in [Conn -> {"read", "access", "dispatch"}]
         /\ answer' \in [Conn -> 0..Questions]
         /\ claim' \in Conn \cup {NoConn}
         /\ lossy' \subseteq Conn
<1>1. <<>> \in Seq(Message(ToTab)) /\ <<>> \in Seq(Message(ToServer)) /\ Len(<<>>) = 0
  OBVIOUS
<1>2. QED  BY <1>1 DEF Deregister, ClaimAfter, Goto, TypeOK

LEMMA RegisteredType == Registered \in SUBSET Conn
BY DEF Registered

LEMMA TypeInit == Init => TypeOK
<1> SUFFICES ASSUME Init PROVE TypeOK
  OBVIOUS
<1>1. /\ \A S : <<>> \in Seq(S)
      /\ Len(<<>>) = 0
  OBVIOUS
<1>2. NoForm \in Form
  BY DEF NoForm, Form
<1>3. QED  BY <1>1, <1>2 DEF Init, TypeOK

USE DEF vars, instanceVars, serverVars, outVars, storeVars

LEMMA InstanceType ==
  ASSUME TypeOK, Start \/ Ask \/ Finish
  PROVE  TypeOK'
<1>1. subs \in SUBSET Conn
  BY DEF TypeOK
<1>2. CASE Start
  <2>1. Plain("running") \in Message(ToTab)
    BY PlainType DEF ToTab, TypeOK
  <2>2. QED  BY <1>1, <1>2, <2>1, BroadcastType DEF Start, TypeOK
<1>3. CASE Ask
  <2>1. asked + 1 \in 0..Questions
    BY <1>3 DEF Ask, TypeOK
  <2>2. About("ask", asked + 1) \in Message(ToTab)
    BY <2>1, AboutType DEF ToTab
  <2>3. QED  BY <1>1, <1>3, <2>1, <2>2, BroadcastType DEF Ask, TypeOK
<1>4. CASE Finish
  <2>1. Plain("over") \in Message(ToTab)
    BY PlainType DEF ToTab, TypeOK
  <2>2. QED  BY <1>1, <1>4, <2>1, BroadcastType DEF Finish, TypeOK
<1>5. QED  BY <1>2, <1>3, <1>4

LEMMA ReaderType ==
  ASSUME TypeOK, NEW c \in Conn, Reader(c)
  PROVE  TypeOK'
<1>1. CASE ReadClose(c)
  BY <1>1, DeregisterType DEF ReadClose, TypeOK
<1>2. CASE ReaderFails(c)
  BY <1>2, DeregisterType DEF ReaderFails, TypeOK
<1>3. CASE ReadSubscribe(c)
  BY <1>3, ConsumeType DEF ReadSubscribe, Reading, Goto, TypeOK
<1>4. CASE AccessGranted(c)
  <2>1. Replay(c)
    BY <1>4 DEF AccessGranted
  <2>2. QED  BY <1>4, <2>1, ReplayType DEF AccessGranted, Goto, TypeOK
<1>5. CASE AccessDenied(c)
  BY <1>5 DEF AccessDenied, Goto, TypeOK
<1>6. CASE GrantClaim(c)
  <2> DEFINE messages == [d \in Registered |-> Plain(IF IsMine(d, c) THEN "mine" ELSE "other")]
  <2>1. messages \in [Registered -> Message(ToTab)]
    BY PlainType DEF ToTab
  <2>2. Put(messages)
    BY <1>6 DEF GrantClaim
  <2> HIDE DEF messages
  <2>3. /\ queue' \in [Conn -> Seq(Message(ToTab))]
        /\ \A d \in Conn : Len(queue'[d]) <= QueueSize
        /\ lossy' \subseteq Conn
    BY <2>1, <2>2, PutType, RegisteredType
  <2>4. QED  BY SMTT(30), <1>6, <2>3, ConsumeType DEF GrantClaim, Reading, TypeOK
<1>7. CASE RefuseClaim(c)
  <2>1. Plain("other") \in Message(ToTab) /\ {c} \in SUBSET Conn
    BY PlainType DEF ToTab
  <2>2. Broadcast({c}, Plain("other"))
    BY <1>7 DEF RefuseClaim
  <2>3. QED  BY <1>7, <2>1, <2>2, BroadcastType, ConsumeType DEF RefuseClaim, Reading, TypeOK
<1>8. CASE AcceptAnswer(c)
  <2>1. Plain("answered") \in Message(ToTab)
    BY PlainType DEF ToTab
  <2>2. Head(inbox[c]).ask \in 0..Questions
    BY <1>8, ConsumeType DEF AcceptAnswer, Reading, Message
  <2>3. Append(accepted, Head(inbox[c]).ask) \in Seq(0..Questions)
    BY <2>2 DEF TypeOK
  <2>4. Broadcast(Registered, Plain("answered"))
    BY <1>8 DEF AcceptAnswer
  <2>5. QED
    BY <1>8, <2>1, <2>2, <2>3, <2>4, BroadcastType, RegisteredType, ConsumeType
    DEF AcceptAnswer, Reading, Goto, ClaimAfterAnswer, TypeOK
<1>9. CASE RefuseAnswer(c)
  BY <1>9, ConsumeType DEF RefuseAnswer, Reading, TypeOK
<1>10. CASE DispatchAnswer(c)
  <2>1. Append(sent, answer[c]) \in Seq(0..Questions)
    BY DEF TypeOK
  <2>2. QED  BY <1>10, <2>1 DEF DispatchAnswer, Goto, TypeOK
<1>11. CASE DropAnswer(c)
  BY <1>11 DEF DropAnswer, Goto, TypeOK
<1>12. QED
  BY <1>1, <1>2, <1>3, <1>4, <1>5, <1>6, <1>7, <1>8, <1>9, <1>10, <1>11 DEF Reader

LEMMA CutType ==
  ASSUME TypeOK, NEW c \in Conn, Cut(c)
  PROVE  TypeOK'
<1>1. PICK n \in 0..Len(inbox[c]) :
        inbox' = [inbox EXCEPT ![c] = Append(SubSeq(@, 1, n), Plain("close"))]
  BY DEF Cut
<1>2. Plain("close") \in Message(ToServer)
  BY PlainType DEF ToServer
<1>3. inbox[c] \in Seq(Message(ToServer))
  BY DEF TypeOK
<1>4. SubSeq(inbox[c], 1, n) \in Seq(Message(ToServer))
  BY <1>3
<1>5. Append(SubSeq(inbox[c], 1, n), Plain("close")) \in Seq(Message(ToServer))
  BY <1>2, <1>4
<1>6. <<>> \in Seq(Message(ToTab)) /\ Len(<<>>) = 0
  OBVIOUS
<1>7. QED  BY SMTT(30), <1>1, <1>5, <1>6 DEF Cut, TypeOK

LEMMA PageType ==
  ASSUME TypeOK, NEW t \in Tab, Page(t)
  PROVE  TypeOK'
<1>1. CASE SeeClose(t)
  BY <1>1 DEF SeeClose, TypeOK
<1>2. CASE Receive(t)
  <2> DEFINE c == sock[t]
             m == Head(queue[c])
  <2>1. c \in Conn /\ queue[c] \in Seq(Message(ToTab)) /\ queue[c] # <<>> /\ Len(queue[c]) <= QueueSize
    BY <1>2 DEF Receive, TypeOK
  <2>2. /\ m \in Message(ToTab)
        /\ Tail(queue[c]) \in Seq(Message(ToTab))
        /\ Len(Tail(queue[c])) <= QueueSize
    BY <2>1
  <2>3. PromptAfter(m, prompt[t]) \in {"none", "pending", "mine", "other", "answered"}
    BY DEF PromptAfter, TypeOK
  <2>4. /\ queue' = [queue EXCEPT ![c] = Tail(@)]
        /\ status' = IF m.kind \in {"running", "over"} THEN Store(status, t, m.kind) ELSE status
        /\ shown' = IF m.kind \in {"ask", "replay"} THEN Store(shown, t, m.ask) ELSE shown
        /\ prompt' = Store(prompt, t, PromptAfter(m, prompt[t]))
        /\ fresh' = IF Sets(m, prompt[t]) THEN fresh \cup {t} ELSE fresh
    BY <1>2 DEF Receive
  <2>5. m.ask \in 0..Questions
    BY <2>2 DEF Message
  <2> HIDE DEF c, m
  <2>6. queue' \in [Conn -> Seq(Message(ToTab))] /\ \A d \in Conn : Len(queue'[d]) <= QueueSize
    BY <2>1, <2>2, <2>4 DEF TypeOK
  <2>7. /\ status' \in [Tab -> {"unknown", "running", "over"}]
        /\ shown' \in [Tab -> 0..Questions]
        /\ fresh' \subseteq Tab
    BY <2>4, <2>5 DEF Store, TypeOK
  <2>8. prompt' \in [Tab -> {"none", "pending", "mine", "other", "answered"}]
    BY <2>3, <2>4 DEF Store, TypeOK
  <2>9. QED  BY <1>2, <2>6, <2>7, <2>8 DEF Receive, TypeOK
<1>3. CASE Click(t)
  <2>1. sock[t] \in Conn /\ Plain("claim") \in Message(ToServer)
    BY <1>3, PlainType DEF Click, TypeOK, ToServer
  <2>2. [sock |-> sock[t], ask |-> shown[t]] \in Form
    BY <2>1 DEF Form, TypeOK
  <2>3. clicks + 1 \in 0..Clicks
    BY <1>3 DEF Click, TypeOK
  <2>4. QED  BY <1>3, <2>1, <2>2, <2>3, SendType DEF Click, TypeOK
<1>4. CASE Fetched(t)
  <2>1. NoForm \in Form
    BY DEF NoForm, Form
  <2>2. form[t].ask \in 0..Questions /\ form[t].sock \in Conn \cup {NoConn}
    BY DEF Form, TypeOK
  <2>3. About("submit", form[t].ask) \in Message(ToServer)
    BY <2>2, AboutType DEF ToServer
  <2>4. CASE form[t].sock \in Conn
    BY <1>4, <2>1, <2>3, <2>4, SendType DEF Fetched, TypeOK
  <2>5. CASE form[t].sock = NoConn
    BY <1>4, <2>1, <2>5 DEF Fetched, Send, TypeOK
  <2>6. QED  BY <2>2, <2>4, <2>5
<1>5. CASE FetchFails(t)
  <2>1. NoForm \in Form
    BY DEF NoForm, Form
  <2>2. QED  BY <1>5, <2>1 DEF FetchFails, TypeOK
<1>6. ASSUME NEW c \in Conn, Open(t, c)
      PROVE  TypeOK'
  <2>1. <<Plain("subscribe")>> \in Seq(Message(ToServer))
    BY PlainType DEF ToServer
  <2>2. QED  BY <1>6, <2>1 DEF Open, TypeOK
<1>7. QED  BY <1>1, <1>2, <1>3, <1>4, <1>5, <1>6 DEF Page

LEMMA TypeNext == TypeOK /\ [Next]_vars => TypeOK'
<1> SUFFICES ASSUME TypeOK, [Next]_vars PROVE TypeOK'
  OBVIOUS
<1>1. CASE UNCHANGED vars
  BY <1>1 DEF TypeOK
<1>2. CASE Next
  BY <1>2, InstanceType, ReaderType, CutType, PageType DEF Next
<1>3. QED  BY <1>1, <1>2

\* Every variable keeps its type, and no outgoing queue outgrows its bound
\* (frontend_manager.py, FrontendConnection), in any environment.
THEOREM TypeCorrect == Spec => []TypeOK
BY TypeInit, TypeNext, PTL DEF Spec

-----------------------------------------------------------------------------
(* The claim itself.                                                         *)

LEMMA HeldNext == TypeOK /\ ClaimHeldByLive /\ [Next]_vars => ClaimHeldByLive'
<1> SUFFICES ASSUME TypeOK, ClaimHeldByLive, [Next]_vars, claim' # NoConn
             PROVE  claim' \in Registered'
  BY DEF ClaimHeldByLive
<1> USE DEF ClaimHeldByLive, Registered, TypeOK
<1>1. CASE UNCHANGED <<conn, claim>>
  BY <1>1
<1>2. ASSUME NEW c \in Conn, Deregister(c)
      PROVE  claim' \in Registered'
  BY <1>2 DEF Deregister, ClaimAfter
<1>3. ASSUME NEW c \in Conn, GrantClaim(c)
      PROVE  claim' \in Registered'
  BY <1>3 DEF GrantClaim, Reading
<1>4. ASSUME NEW c \in Conn, AcceptAnswer(c)
      PROVE  FALSE
  BY <1>4 DEF AcceptAnswer, ClaimAfterAnswer
<1>5. ASSUME NEW c \in Conn, Cut(c)
      PROVE  claim' \in Registered'
  BY <1>5 DEF Cut
<1>6. ASSUME NEW t \in Tab, NEW c \in Conn, Open(t, c)
      PROVE  claim' \in Registered'
  BY <1>6 DEF Open
<1>7. ASSUME NEW c \in Conn, Reader(c)
      PROVE  claim' \in Registered'
  BY <1>1, <1>2, <1>3, <1>4, <1>7
  DEF Reader, ReadClose, ReaderFails, ReadSubscribe, AccessGranted, AccessDenied,
      RefuseClaim, RefuseAnswer, DispatchAnswer, DropAnswer
<1>8. ASSUME NEW t \in Tab, Page(t)
      PROVE  claim' \in Registered'
  BY <1>1, <1>6, <1>8 DEF Page, SeeClose, Receive, Click, Fetched, FetchFails
<1>9. QED
  BY <1>1, <1>5, <1>7, <1>8 DEF Next, Start, Ask, Finish

\* The claim is held by a registered connection: deregister releases it
\* whichever way the reader of its holder ends (frontend_manager.py).
THEOREM ClaimLive == Spec => []ClaimHeldByLive
<1>1. Init => ClaimHeldByLive
  BY DEF Init, ClaimHeldByLive
<1>2. QED  BY <1>1, HeldNext, TypeCorrect, PTL DEF Spec

LEMMA OnceNext == TypeOK /\ OneAnswerPerClaim /\ [Next]_vars => OneAnswerPerClaim'
<1> SUFFICES ASSUME TypeOK, OneAnswerPerClaim, [Next]_vars
             PROVE  OneAnswerPerClaim'
  OBVIOUS
<1> USE DEF OneAnswerPerClaim
<1>0. grants \in Nat /\ Len(accepted) \in Nat
  BY DEF TypeOK
<1>1. CASE UNCHANGED <<claim, grants, accepted>>
  BY <1>1
<1>2. ASSUME NEW c \in Conn, Deregister(c), UNCHANGED <<grants, accepted>>
      PROVE  OneAnswerPerClaim'
  BY <1>0, <1>2 DEF Deregister, ClaimAfter
<1>3. ASSUME NEW c \in Conn, GrantClaim(c)
      PROVE  OneAnswerPerClaim'
  BY <1>0, <1>3 DEF GrantClaim, Claimable
<1>4. ASSUME NEW c \in Conn, AcceptAnswer(c)
      PROVE  OneAnswerPerClaim'
  <2>1. Len(Append(accepted, Head(inbox[c]).ask)) = Len(accepted) + 1
    BY DEF TypeOK
  <2>2. QED  BY <1>0, <1>4, <2>1 DEF AcceptAnswer, ClaimAfterAnswer
<1>5. ASSUME NEW c \in Conn, Reader(c)
      PROVE  OneAnswerPerClaim'
  BY <1>1, <1>2, <1>3, <1>4, <1>5
  DEF Reader, ReadClose, ReaderFails, ReadSubscribe, AccessGranted, AccessDenied,
      RefuseClaim, RefuseAnswer, DispatchAnswer, DropAnswer
<1>6. QED
  BY <1>1, <1>5
  DEF Next, Start, Ask, Finish, Cut, Page, Open, SeeClose, Receive, Click, Fetched, FetchFails

\* No two answers are accepted on one grant of the claim, and none without
\* (frontend_router.py, submit_answer).
THEOREM ClaimUsedOnce == Spec => []OneAnswerPerClaim
<1>1. Init => OneAnswerPerClaim
  BY DEF Init, OneAnswerPerClaim
<1>2. QED  BY <1>1, OnceNext, TypeCorrect, PTL DEF Spec

\* claim_prompt never replaces a holder (frontend_manager.py).
THEOREM ClaimPassed == Spec => NoClaimStolen
<1> DEFINE Kept == claim # NoConn /\ claim' # claim => claim' = NoConn
<1>1. ASSUME NEW c \in Conn, Reader(c)
      PROVE  Kept
  BY <1>1
  DEF Reader, ReadClose, ReaderFails, Deregister, ClaimAfter, GrantClaim, Claimable,
      AcceptAnswer, ClaimAfterAnswer, ReadSubscribe, AccessGranted, AccessDenied,
      RefuseClaim, RefuseAnswer, DispatchAnswer, DropAnswer
<1>2. Next => Kept
  BY <1>1
  DEF Next, Start, Ask, Finish, Cut, Page, Open, SeeClose, Receive, Click, Fetched, FetchFails
<1>3. [Next]_vars => [Kept]_vars
  BY <1>2
<1>4. QED  BY <1>3, PTL DEF Spec, NoClaimStolen

-----------------------------------------------------------------------------
(* What the tabs believe.  A connection without the claim that has lost no   *)
(* message still has, behind every "mine" on its way or in its tab, a        *)
(* message that ends it.                                                     *)

Ends == {"other", "answered", "over"}
Ended(c) == \E j \in DOMAIN queue[c] : queue[c][j].kind \in Ends
EndedAfter(c, i) == \E j \in DOMAIN queue[c] : i < j /\ queue[c][j].kind \in Ends

SocketInv ==
  /\ \A c \in Conn : conn[c] # "open" => queue[c] = <<>>
  /\ \A t \in Tab : sock[t] # NoConn => Owner[sock[t]] = t
  /\ \A t \in fresh : sock[t] # NoConn

Outdated(c) == conn[c] = "open" /\ c \notin lossy /\ claim # c

MineEnds(c) == \A i \in DOMAIN queue[c] : queue[c][i].kind = "mine" => EndedAfter(c, i)
BeliefEnds(c) ==
  \A t \in Tab : sock[t] = c /\ t \in fresh /\ prompt[t] = "mine" => Ended(c)

BeliefInv == \A c \in Conn : Outdated(c) => MineEnds(c) /\ BeliefEnds(c)

LEMMA BeliefImplies == TypeOK /\ BeliefInv => MineIsHeld
<1> SUFFICES ASSUME TypeOK, BeliefInv, NEW t \in Tab, UpToDate(t), prompt[t] = "mine",
                    claim # sock[t]
             PROVE  FALSE
  BY DEF MineIsHeld
<1>1. sock[t] \in Conn /\ Outdated(sock[t])
  BY DEF UpToDate, TypeOK, Outdated
<1>2. Ended(sock[t])
  BY <1>1 DEF BeliefInv, BeliefEnds, UpToDate
<1>3. DOMAIN queue[sock[t]] = {}
  BY DEF UpToDate
<1>4. QED  BY <1>2, <1>3 DEF Ended

\* A queue that only grows keeps its endings.
LEMMA AppendKeeps ==
  ASSUME TypeOK, NEW d \in Conn, NEW m, queue'[d] = Append(queue[d], m)
  PROVE  /\ DOMAIN queue'[d] = DOMAIN queue[d] \cup {Len(queue[d]) + 1}
         /\ queue'[d][Len(queue[d]) + 1] = m
         /\ \A i \in DOMAIN queue[d] : queue'[d][i] = queue[d][i] /\ i < Len(queue[d]) + 1
<1>1. queue[d] \in Seq(Message(ToTab))
  BY DEF TypeOK
<1>2. QED  BY <1>1

\* A message for the tabs in D: it is never "mine" for a connection without
\* the claim, and it ends the belief of one that loses the claim.
LEMMA PutBelief ==
  ASSUME TypeOK, BeliefInv, NEW D \in SUBSET Conn, NEW messages \in [D -> Message(ToTab)],
         Put(messages),
         UNCHANGED <<conn, sock, fresh, prompt>>,
         \A d \in Conn : conn[d] = "open" /\ claim' # d =>
           /\ d \in D => messages[d].kind # "mine"
           /\ claim # d \/ (d \in D /\ messages[d].kind \in Ends)
  PROVE  BeliefInv'
<1> SUFFICES ASSUME NEW d \in Conn, Outdated(d)'
             PROVE  MineEnds(d)' /\ BeliefEnds(d)'
  BY DEF BeliefInv
<1>1. conn[d] = "open" /\ d \notin lossy' /\ claim' # d
  BY DEF Outdated
<1>2. \/ d \notin D /\ queue'[d] = queue[d] /\ d \notin lossy
      \/ d \in D /\ queue'[d] = Append(queue[d], messages[d]) /\ d \notin lossy
  BY <1>1 DEF Put, TypeOK
<1>3. CASE d \notin D /\ queue'[d] = queue[d] /\ d \notin lossy
  <2>1. MineEnds(d) /\ BeliefEnds(d)
    BY <1>1, <1>3 DEF BeliefInv, Outdated
  <2>2. QED  BY <1>3, <2>1 DEF MineEnds, BeliefEnds, Ended, EndedAfter
<1>4. CASE d \in D /\ queue'[d] = Append(queue[d], messages[d]) /\ d \notin lossy
  <2> DEFINE n == Len(queue[d]) + 1
             m == messages[d]
  <2>1. /\ DOMAIN queue'[d] = DOMAIN queue[d] \cup {n}
        /\ queue'[d][n] = m
        /\ \A i \in DOMAIN queue[d] : queue'[d][i] = queue[d][i] /\ i < n
    BY <1>4, AppendKeeps
  <2>2. m.kind # "mine" /\ (claim # d \/ m.kind \in Ends)
    BY <1>1, <1>4
  <2> HIDE DEF n, m
  <2>3. CASE m.kind \in Ends
    BY <2>1, <2>2, <2>3 DEF MineEnds, BeliefEnds, Ended, EndedAfter
  <2>4. CASE claim # d
    <3>1. MineEnds(d) /\ BeliefEnds(d)
      BY <1>1, <1>4, <2>4 DEF BeliefInv, Outdated
    <3>2. QED  BY <2>1, <2>2, <3>1 DEF MineEnds, BeliefEnds, Ended, EndedAfter
  <2>5. QED  BY <2>2, <2>3, <2>4
<1>5. QED  BY <1>2, <1>3, <1>4

\* The case of one message that is not "mine", with the claim left alone.
LEMMA BroadcastBelief ==
  ASSUME TypeOK, BeliefInv, NEW D \in SUBSET Conn, NEW m \in Message(ToTab), m.kind # "mine",
         Broadcast(D, m), UNCHANGED <<conn, sock, fresh, prompt, claim>>
  PROVE  BeliefInv'
<1> DEFINE messages == [d \in D |-> m]
<1>1. messages \in [D -> Message(ToTab)] /\ Put(messages)
  BY DEF Broadcast
<1>2. \A d \in Conn : d \in D => messages[d].kind # "mine"
  OBVIOUS
<1> HIDE DEF messages
<1>3. QED  BY <1>1, <1>2, PutBelief

LEMMA ReplayBelief ==
  ASSUME TypeOK, BeliefInv, NEW c \in Conn, Replay(c),
         UNCHANGED <<conn, sock, fresh, prompt, claim>>
  PROVE  BeliefInv'
<1> SUFFICES ASSUME NEW d \in Conn, Outdated(d)'
             PROVE  MineEnds(d)' /\ BeliefEnds(d)'
  BY DEF BeliefInv
<1>1. Outdated(d)
  BY DEF Outdated, Replay
<1>2. MineEnds(d) /\ BeliefEnds(d)
  BY <1>1 DEF BeliefInv
<1>3. CASE queue'[d] = queue[d]
  BY <1>2, <1>3 DEF MineEnds, BeliefEnds, Ended, EndedAfter
<1>4. CASE d = c /\ queue'[d] # queue[d]
  <2> DEFINE buffered == IF phase = "over" THEN 0 ELSE asked
             events == [k \in 1..buffered |-> About("replay", k)]
  <2>1. queue'[c] = queue[c] \o events
    BY <1>1, <1>4 DEF Replay, Outdated, TypeOK
  <2>2. queue[c] \in Seq(Message(ToTab)) /\ buffered \in Nat
    BY DEF TypeOK
  <2>3. events \in Seq({About("replay", k) : k \in Nat}) /\ Len(events) = buffered
    <3> HIDE DEF buffered
    <3>1. QED  BY SMTT(30), <2>2
  <2>4. \A k \in DOMAIN events : events[k].kind = "replay"
    BY DEF About
  <2> HIDE DEF events, buffered
  <2>5. \A i \in DOMAIN queue'[c] :
          queue'[c][i].kind = "replay" \/ (i \in DOMAIN queue[c] /\ queue'[c][i] = queue[c][i])
    BY <2>1, <2>2, <2>3, <2>4
  <2>6. \A i \in DOMAIN queue[c] : i \in DOMAIN queue'[c] /\ queue'[c][i] = queue[c][i]
    BY <2>1, <2>2, <2>3
  <2>7. QED  BY <1>2, <1>4, <2>5, <2>6 DEF MineEnds, BeliefEnds, Ended, EndedAfter
<1>5. QED  BY <1>3, <1>4 DEF Replay, TypeOK

LEMMA SocketNext == TypeOK /\ SocketInv /\ [Next]_vars => SocketInv'
<1> SUFFICES ASSUME TypeOK, SocketInv, [Next]_vars
             PROVE  SocketInv'
  OBVIOUS
<1>1. ASSUME NEW D \in SUBSET Conn, NEW m, Broadcast(D, m), UNCHANGED <<conn, sock, fresh>>
      PROVE  SocketInv'
  BY <1>1 DEF SocketInv, Broadcast, Put, TypeOK
<1>2. ASSUME NEW c \in Conn, Reader(c)
      PROVE  SocketInv'
  <2>1. CASE ReadClose(c) \/ ReaderFails(c)
    <3>1. Deregister(c) /\ UNCHANGED <<sock, fresh>>
      BY <2>1 DEF ReadClose, ReaderFails
    <3>2. \A d \in Conn : conn'[d] # "open" => queue'[d] = <<>>
      BY <3>1 DEF Deregister, SocketInv, TypeOK
    <3>3. QED  BY <3>1, <3>2 DEF SocketInv
  <2>2. CASE GrantClaim(c)
    BY <2>2 DEF GrantClaim, SocketInv, Put, TypeOK
  <2>3. CASE RefuseClaim(c) \/ AcceptAnswer(c)
    BY <1>1, <2>3, RegisteredType DEF RefuseClaim, AcceptAnswer
  <2>4. CASE AccessGranted(c)
    <3>1. \A d \in Conn : conn[d] # "open" => queue'[d] = queue[d] \/ queue'[d] = queue[d] \o <<>>
      BY <2>4 DEF AccessGranted, Replay, TypeOK
    <3>2. \A d \in Conn : queue[d] \o <<>> = queue[d]
      BY DEF TypeOK
    <3>3. QED  BY <2>4, <3>1, <3>2 DEF AccessGranted, SocketInv
  <2>5. CASE ReadSubscribe(c) \/ AccessDenied(c) \/ RefuseAnswer(c) \/ DispatchAnswer(c) \/ DropAnswer(c)
    BY <2>5
    DEF ReadSubscribe, AccessDenied, RefuseAnswer, DispatchAnswer, DropAnswer, SocketInv
  <2>6. QED  BY <1>2, <2>1, <2>2, <2>3, <2>4, <2>5 DEF Reader
<1>3. ASSUME NEW c \in Conn, Cut(c)
      PROVE  SocketInv'
  BY <1>3 DEF Cut, SocketInv, TypeOK
<1>4. ASSUME NEW t \in Tab, Page(t)
      PROVE  SocketInv'
  <2>1. ASSUME NEW c \in Conn, Open(t, c)
        PROVE  SocketInv'
    BY <2>1 DEF Open, SocketInv, TypeOK
  <2>2. CASE Receive(t)
    BY <2>2 DEF Receive, SocketInv, TypeOK
  <2>3. CASE SeeClose(t) \/ Click(t) \/ Fetched(t) \/ FetchFails(t)
    BY <2>3 DEF SeeClose, Click, Fetched, FetchFails, SocketInv, TypeOK
  <2>4. QED  BY <1>4, <2>1, <2>2, <2>3 DEF Page
<1>5. CASE Start \/ Ask \/ Finish
  <2>1. subs \in SUBSET Conn
    BY DEF TypeOK
  <2>2. QED  BY <1>1, <1>5, <2>1 DEF Start, Ask, Finish
<1>6. CASE UNCHANGED vars
  BY <1>6 DEF SocketInv
<1>7. QED  BY <1>2, <1>3, <1>4, <1>5, <1>6 DEF Next

\* Steps that leave queues, tabs and claim alone, or take a connection away.
LEMMA FrameBelief ==
  ASSUME BeliefInv, UNCHANGED <<conn, queue, lossy, claim, sock, fresh, prompt>>
  PROVE  BeliefInv'
BY DEF BeliefInv, Outdated, MineEnds, BeliefEnds, Ended, EndedAfter

LEMMA DeregisterBelief ==
  ASSUME TypeOK, BeliefInv, NEW c \in Conn, Deregister(c), UNCHANGED <<sock, fresh, prompt>>
  PROVE  BeliefInv'
<1> SUFFICES ASSUME NEW d \in Conn, Outdated(d)'
             PROVE  MineEnds(d)' /\ BeliefEnds(d)'
  BY DEF BeliefInv
<1>1. d # c /\ queue'[d] = queue[d] /\ conn[d] = "open" /\ d \notin lossy
  BY DEF Deregister, Outdated, TypeOK
<1>2. claim # d
  BY <1>1 DEF Deregister, ClaimAfter, Outdated
<1>3. MineEnds(d) /\ BeliefEnds(d)
  BY <1>1, <1>2 DEF BeliefInv, Outdated
<1>4. QED  BY <1>1, <1>3 DEF MineEnds, BeliefEnds, Ended, EndedAfter

LEMMA ReaderBelief ==
  ASSUME TypeOK, BeliefInv, NEW c \in Conn, Reader(c)
  PROVE  BeliefInv'
<1>1. CASE ReadClose(c) \/ ReaderFails(c)
  BY <1>1, DeregisterBelief DEF ReadClose, ReaderFails
<1>2. CASE GrantClaim(c)
  <2> DEFINE messages == [d \in Registered |-> Plain(IF IsMine(d, c) THEN "mine" ELSE "other")]
  <2>1. messages \in [Registered -> Message(ToTab)]
    BY PlainType DEF ToTab
  <2>2. Put(messages) /\ UNCHANGED <<conn, sock, fresh, prompt>>
    BY <1>2 DEF GrantClaim
  <2>3. \A d \in Registered : d # c => messages[d].kind = "other"
    BY DEF IsMine, Plain, About
  <2>4. claim' = c /\ claim = NoConn
    BY <1>2 DEF GrantClaim, Claimable
  <2> HIDE DEF messages
  <2>5. \A d \in Conn : conn[d] = "open" /\ claim' # d =>
          /\ d \in Registered => messages[d].kind # "mine"
          /\ claim # d \/ (d \in Registered /\ messages[d].kind \in Ends)
    BY <2>3, <2>4
  <2>6. QED  BY <2>1, <2>2, <2>5, PutBelief, RegisteredType
<1>3. CASE RefuseClaim(c)
  <2>1. Plain("other") \in Message(ToTab) /\ Plain("other").kind # "mine"
    BY PlainType DEF ToTab, Plain, About
  <2>2. {c} \in SUBSET Conn /\ Broadcast({c}, Plain("other"))
    BY <1>3 DEF RefuseClaim
  <2>3. QED  BY <1>3, <2>1, <2>2, BroadcastBelief DEF RefuseClaim
<1>4. CASE AcceptAnswer(c)
  <2> DEFINE messages == [d \in Registered |-> Plain("answered")]
  <2>1. messages \in [Registered -> Message(ToTab)]
    BY PlainType DEF ToTab
  <2>2. Put(messages) /\ UNCHANGED <<conn, sock, fresh, prompt>>
    BY <1>4 DEF AcceptAnswer, Broadcast
  <2>3. \A d \in Registered : messages[d].kind = "answered"
    BY DEF Plain, About
  <2> HIDE DEF messages
  <2>4. \A d \in Conn : conn[d] = "open" /\ claim' # d =>
          /\ d \in Registered => messages[d].kind # "mine"
          /\ claim # d \/ (d \in Registered /\ messages[d].kind \in Ends)
    BY <2>3 DEF Registered, Ends
  <2>5. QED  BY <2>1, <2>2, <2>4, PutBelief, RegisteredType
<1>5. CASE AccessGranted(c)
  BY <1>5, ReplayBelief DEF AccessGranted
<1>6. CASE ReadSubscribe(c) \/ AccessDenied(c) \/ RefuseAnswer(c) \/ DispatchAnswer(c) \/ DropAnswer(c)
  BY <1>6, FrameBelief
  DEF ReadSubscribe, AccessDenied, RefuseAnswer, DispatchAnswer, DropAnswer
<1>7. QED  BY <1>1, <1>2, <1>3, <1>4, <1>5, <1>6 DEF Reader

\* A tab takes the head of its queue; no other tab reads that queue.
LEMMA ReceiveBelief ==
  ASSUME TypeOK, SocketInv, BeliefInv, NEW t \in Tab, Receive(t)
  PROVE  BeliefInv'
<1>a. sock[t] \in Conn /\ queue[sock[t]] # <<>>
  BY DEF Receive, TypeOK
<1>b. PICK c \in Conn : c = sock[t]
  BY <1>a
<1>c. PICK m : m = Head(queue[c])
  OBVIOUS
<1>1. c \in Conn /\ queue[c] \in Seq(Message(ToTab)) /\ queue[c] # <<>>
  BY <1>a, <1>b DEF TypeOK
<1>2. /\ queue' = [queue EXCEPT ![c] = Tail(@)]
      /\ prompt' = [prompt EXCEPT ![t] = PromptAfter(m, @)]
      /\ fresh' = IF Sets(m, prompt[t]) THEN fresh \cup {t} ELSE fresh
      /\ UNCHANGED <<conn, lossy, claim, sock>>
  BY <1>b, <1>c DEF Receive, Store, TypeOK
<1>3. /\ m = queue[c][1] /\ 1 \in DOMAIN queue[c]
      /\ queue'[c] = Tail(queue[c])
      /\ DOMAIN queue[c] \subseteq Nat \ {0} /\ DOMAIN Tail(queue[c]) \subseteq Nat \ {0}
      /\ \A i \in DOMAIN Tail(queue[c]) :
           i + 1 \in DOMAIN queue[c] /\ Tail(queue[c])[i] = queue[c][i + 1]
      /\ \A j \in DOMAIN queue[c] :
           1 < j => j - 1 \in DOMAIN Tail(queue[c]) /\ Tail(queue[c])[j - 1] = queue[c][j]
  BY SMTT(30), <1>1, <1>2, <1>c DEF TypeOK
<1> SUFFICES ASSUME NEW d \in Conn, Outdated(d)'
             PROVE  MineEnds(d)' /\ BeliefEnds(d)'
  BY DEF BeliefInv
<1>4. MineEnds(d) /\ BeliefEnds(d)
  BY <1>2 DEF BeliefInv, Outdated
<1>5. CASE d # c
  <2>1. queue'[d] = queue[d]
    BY <1>2, <1>5 DEF TypeOK
  <2>2. \A u \in Tab : sock[u] = d => u # t
    BY <1>5, <1>b
  <2>3. QED
    BY <1>2, <1>4, <2>1, <2>2 DEF MineEnds, BeliefEnds, Ended, EndedAfter, TypeOK
<1>6. CASE d = c
  <2>1. ASSUME NEW j \in DOMAIN queue[c], 1 < j, queue[c][j].kind \in Ends
        PROVE  Ended(c)'
    BY <1>3, <2>1 DEF Ended
  <2>2. MineEnds(c)'
    <3> SUFFICES ASSUME NEW i \in DOMAIN queue'[c], queue'[c][i].kind = "mine"
                 PROVE  EndedAfter(c, i)'
      BY DEF MineEnds
    <3>1. i + 1 \in DOMAIN queue[c] /\ queue[c][i + 1].kind = "mine"
      BY <1>3
    <3>2. PICK j \in DOMAIN queue[c] : i + 1 < j /\ queue[c][j].kind \in Ends
      BY <1>4, <1>6, <3>1 DEF MineEnds, EndedAfter
    <3>3. i \in Nat /\ j \in Nat /\ 1 < j /\ i < j - 1
      BY <1>3, <3>2
    <3>4. j - 1 \in DOMAIN queue'[c] /\ queue'[c][j - 1] = queue[c][j]
      BY <1>3, <3>2, <3>3
    <3>5. QED  BY <3>2, <3>3, <3>4 DEF EndedAfter
  <2>3. BeliefEnds(c)'
    <3> SUFFICES ASSUME NEW u \in Tab, sock'[u] = c, u \in fresh', prompt'[u] = "mine"
                 PROVE  Ended(c)'
      BY DEF BeliefEnds
    <3>1. u = t
      <4>1. sock[u] = c /\ c # NoConn
        BY <1>1, <1>2
      <4>2. Owner[c] = u /\ Owner[c] = t
        BY <4>1, <1>1, <1>b DEF SocketInv
      <4>3. QED  BY <4>2
    <3>2. PromptAfter(m, prompt[t]) = "mine"
      BY <1>2, <3>1 DEF TypeOK
    <3>3. CASE m.kind = "mine"
      <4>1. EndedAfter(c, 1)
        BY <1>3, <1>4, <1>6, <3>3 DEF MineEnds
      <4>2. QED  BY <2>1, <4>1 DEF EndedAfter
    <3>4. CASE m.kind # "mine"
      <4>1. prompt[t] = "mine" /\ m.kind \notin Ends
        BY <3>2, <3>4 DEF PromptAfter, Ends
      <4>2. ~Sets(m, prompt[t])
        BY <3>2, <3>4, <4>1 DEF Sets, PromptAfter, Ends
      <4>3. t \in fresh
        BY <1>2, <3>1, <4>2
      <4>4. PICK j \in DOMAIN queue[c] : queue[c][j].kind \in Ends
        BY <1>4, <1>6, <1>b, <4>1, <4>3 DEF BeliefEnds, Ended
      <4>5. j # 1 /\ j \in 1..Len(queue[c])
        BY <1>1, <1>3, <4>1, <4>4
      <4>6. QED  BY <2>1, <4>4, <4>5
    <3>5. QED  BY <3>3, <3>4
  <2>4. QED  BY <1>6, <2>2, <2>3
<1>7. QED  BY <1>5, <1>6

LEMMA PageBelief ==
  ASSUME TypeOK, SocketInv, BeliefInv, NEW t \in Tab, Page(t)
  PROVE  BeliefInv'
<1>1. CASE Receive(t)
  BY <1>1, ReceiveBelief
<1>2. CASE Click(t) \/ Fetched(t) \/ FetchFails(t)
  BY <1>2, FrameBelief DEF Click, Fetched, FetchFails
<1>3. CASE SeeClose(t)
  BY <1>3
  DEF SeeClose, BeliefInv, Outdated, MineEnds, BeliefEnds, Ended, EndedAfter, TypeOK
<1>4. ASSUME NEW c \in Conn, Open(t, c)
      PROVE  BeliefInv'
  <2> SUFFICES ASSUME NEW d \in Conn, Outdated(d)'
               PROVE  MineEnds(d)' /\ BeliefEnds(d)'
    BY DEF BeliefInv
  <2>1. UNCHANGED <<queue, lossy, claim, fresh, prompt>>
    BY <1>4 DEF Open
  <2>2. CASE d # c
    <3>1. Outdated(d) /\ \A u \in Tab : sock'[u] = d => sock[u] = d
      BY <1>4, <2>2 DEF Open, Outdated, TypeOK
    <3>2. QED
      BY <2>1, <3>1 DEF BeliefInv, MineEnds, BeliefEnds, Ended, EndedAfter
  <2>3. CASE d = c
    <3>1. queue[c] = <<>>
      BY <1>4 DEF Open, SocketInv
    <3>2. \A u \in Tab : sock'[u] = c => u \notin fresh
      BY <1>4 DEF Open, SocketInv, TypeOK
    <3>3. QED  BY <2>1, <2>3, <3>1, <3>2 DEF MineEnds, BeliefEnds
  <2>4. QED  BY <2>2, <2>3
<1>5. QED  BY <1>1, <1>2, <1>3, <1>4 DEF Page

LEMMA BeliefNext == TypeOK /\ SocketInv /\ BeliefInv /\ [Next]_vars => BeliefInv'
<1> SUFFICES ASSUME TypeOK, SocketInv, BeliefInv, [Next]_vars
             PROVE  BeliefInv'
  OBVIOUS
<1>1. CASE Start \/ Ask \/ Finish
  <2>1. subs \in SUBSET Conn
    BY DEF TypeOK
  <2>2. /\ Plain("running") \in Message(ToTab) /\ Plain("running").kind # "mine"
        /\ Plain("over") \in Message(ToTab) /\ Plain("over").kind # "mine"
    BY PlainType DEF ToTab, Plain, About
  <2>3. CASE Ask
    <3>1. asked + 1 \in 0..Questions
      BY <2>3 DEF Ask, TypeOK
    <3>2. About("ask", asked + 1) \in Message(ToTab) /\ About("ask", asked + 1).kind # "mine"
      BY <3>1, AboutType DEF ToTab, About
    <3>3. QED  BY <2>1, <2>3, <3>2, BroadcastBelief DEF Ask
  <2>4. CASE Start \/ Finish
    BY <2>1, <2>2, <2>4, BroadcastBelief DEF Start, Finish
  <2>5. QED  BY <1>1, <2>3, <2>4
<1>2. ASSUME NEW c \in Conn, Cut(c)
      PROVE  BeliefInv'
  BY <1>2 DEF Cut, BeliefInv, Outdated, MineEnds, BeliefEnds, Ended, EndedAfter, TypeOK
<1>3. CASE UNCHANGED vars
  BY <1>3, FrameBelief
<1>4. QED  BY <1>1, <1>2, <1>3, ReaderBelief, PageBelief DEF Next

\* A tab that has received everything its connection was sent, and was told
\* last that the claim is its own, holds it (broadcast_prompt_claimed,
\* wsStore.handleMessage): two such tabs never both believe it.
THEOREM BeliefTrue == Spec => []MineIsHeld
<1>1. Init => SocketInv /\ BeliefInv
  BY DEF Init, SocketInv, BeliefInv, Outdated
<1>2. QED
  BY <1>1, SocketNext, BeliefNext, BeliefImplies, TypeCorrect, PTL DEF Spec
-----------------------------------------------------------------------------
(* What the tabs know of the answers.  Questions are numbered as they are    *)
(* asked, a replay comes before every live question of its connection, and   *)
(* behind every question already answered, on its way or pending in a tab,   *)
(* there is a message that ends it.                                          *)

Asked(k) == k <= asked

AskedOut == \A c \in Conn : \A i \in DOMAIN queue[c] : Asked(queue[c][i].ask)
AskedIn == \A c \in Conn : \A i \in DOMAIN inbox[c] : Asked(inbox[c][i].ask)
AskedTabs == \A t \in Tab : Asked(shown[t]) /\ Asked(form[t].ask)
AskedAccepted == \A i \in DOMAIN accepted : Asked(accepted[i])
AskedInv == AskedOut /\ AskedIn /\ AskedTabs /\ AskedAccepted

Subscribing(c) == \E i \in DOMAIN inbox[c] : inbox[c][i].kind = "subscribe"
Joining(c) == reader[c] = "access" \/ Subscribing(c)

JoinInv ==
  \A c \in Conn :
    /\ conn[c] = "fresh" => inbox[c] = <<>> /\ reader[c] = "read" /\ c \notin subs
    /\ \A i \in DOMAIN inbox[c] : inbox[c][i].kind = "subscribe" => i = 1 /\ reader[c] = "read"

Answered(k) == \E i \in DOMAIN accepted : accepted[i] = k
Settles == Ends \cup {"mine"}
Settled(c, n) == \E j \in DOMAIN queue[c] : n < j /\ queue[c][j].kind \in Settles

\* The tabs whose pending question came over connection c.
Pending(c) == {t \in fresh : sock[t] = c /\ prompt[t] = "pending"}

ReplayFirst(c) ==
  \A j \in DOMAIN queue[c] : queue[c][j].kind = "replay" =>
    /\ Pending(c) = {}
    /\ \A i \in DOMAIN queue[c] : queue[c][i].kind = "ask" => j < i
JoinFirst(c) ==
  Joining(c) => /\ c \notin subs /\ Pending(c) = {}
                /\ \A i \in DOMAIN queue[c] : queue[c][i].kind # "ask"
AskSettled(c) ==
  /\ \A i \in DOMAIN queue[c] : queue[c][i].kind = "ask" /\ Answered(queue[c][i].ask) => Settled(c, i)
  /\ \A t \in Pending(c) : Answered(shown[t]) => Settled(c, 0)

Hears(c) == conn[c] = "open" /\ c \notin lossy
ToldInv == \A c \in Conn : Hears(c) => ReplayFirst(c) /\ JoinFirst(c) /\ AskSettled(c)

\* What is at an index of a sequence after its head is taken.
LEMMA TailFacts ==
  ASSUME NEW S, NEW q \in Seq(S), q # <<>>
  PROVE  /\ Head(q) = q[1] /\ 1 \in DOMAIN q
         /\ DOMAIN q \subseteq Nat \ {0} /\ DOMAIN Tail(q) \subseteq Nat \ {0}
         /\ \A i \in DOMAIN Tail(q) : i + 1 \in DOMAIN q /\ Tail(q)[i] = q[i + 1]
         /\ \A j \in DOMAIN q : 1 < j => j - 1 \in DOMAIN Tail(q) /\ Tail(q)[j - 1] = q[j]
BY SMTT(30)

\* What is at an index of an inbox after an arrival.
LEMMA ArriveFacts ==
  ASSUME NEW S, NEW q \in Seq(S), NEW m
  PROVE  \A i \in DOMAIN Append(q, m) :
           \/ i \in DOMAIN q /\ Append(q, m)[i] = q[i]
           \/ Append(q, m)[i] = m
OBVIOUS

LEMMA AskedGrows == TypeOK /\ [Next]_vars => asked <= asked'
<1> SUFFICES ASSUME TypeOK, [Next]_vars PROVE asked <= asked'
  OBVIOUS
<1>0. asked \in Nat
  BY DEF TypeOK
<1>1. asked' = asked \/ asked' = asked + 1
  BY DEF Next, Start, Ask, Finish, Reader, ReadClose, ReaderFails, ReadSubscribe, AccessGranted,
         AccessDenied, GrantClaim, RefuseClaim, AcceptAnswer, RefuseAnswer, DispatchAnswer,
         DropAnswer, Cut, Page, SeeClose, Receive, Click, Fetched, FetchFails, Open
<1>2. QED  BY <1>0, <1>1

\* Where the messages in a queue come from.
LEMMA PutFrom ==
  ASSUME TypeOK, NEW D \in SUBSET Conn, NEW messages \in [D -> Message(ToTab)], Put(messages),
         NEW d \in Conn
  PROVE  \A i \in DOMAIN queue'[d] :
           \/ i \in DOMAIN queue[d] /\ queue'[d][i] = queue[d][i]
           \/ d \in D /\ queue'[d][i] = messages[d]
<1>1. queue[d] \in Seq(Message(ToTab))
  BY DEF TypeOK
<1>2. queue'[d] = queue[d] \/ (d \in D /\ queue'[d] = Append(queue[d], messages[d]))
  BY DEF Put
<1>3. QED  BY <1>1, <1>2, ArriveFacts

LEMMA ReplayFrom ==
  ASSUME TypeOK, NEW c \in Conn, Replay(c), NEW d \in Conn
  PROVE  \A i \in DOMAIN queue'[d] :
           \/ i \in DOMAIN queue[d] /\ queue'[d][i] = queue[d][i]
           \/ /\ d = c /\ queue'[d][i].kind = "replay"
              /\ queue'[d][i].ask \in 0..asked
<1> DEFINE room == QueueSize - Len(queue[c])
           buffered == IF phase = "over" THEN 0 ELSE asked
           events == [k \in 1..buffered |-> About("replay", k)]
           put == IF conn[c] # "open" THEN <<>>
                  ELSE IF buffered > room THEN SubSeq(events, 1, room) ELSE events
           R == {About("replay", k) : k \in 0..asked}
<1>1. /\ queue[c] \in Seq(Message(ToTab))
      /\ room \in Nat /\ buffered \in 0..asked /\ asked \in Nat
  BY DEF TypeOK
<1>2. events \in Seq(R) /\ Len(events) = buffered
  <2>1. \A k \in 1..buffered : About("replay", k) \in R
    BY <1>1
  <2> HIDE DEF buffered, R
  <2>2. QED  BY <1>1, <2>1
<1>3. put \in Seq(R)
  <2> HIDE DEF events, buffered, room, R
  <2>1. CASE conn[c] # "open"
    BY <2>1
  <2>2. CASE conn[c] = "open" /\ buffered > room
    <3>1. SubSeq(events, 1, room) \in Seq(R)
      BY <1>1, <1>2, <2>2
    <3>2. QED  BY <2>2, <3>1
  <2>3. CASE conn[c] = "open" /\ ~(buffered > room)
    BY <1>2, <2>3
  <2>4. QED  BY <2>1, <2>2, <2>3
<1>4. queue' = [queue EXCEPT ![c] = @ \o put]
  BY DEF Replay
<1>5. \A m \in R : m.kind = "replay" /\ m.ask \in 0..asked
  BY DEF About
<1> HIDE DEF put, R
<1>6. CASE d = c
  <2>1. queue'[c] = queue[c] \o put
    BY <1>4 DEF TypeOK
  <2>2. \A i \in DOMAIN (queue[c] \o put) :
          \/ i \in DOMAIN queue[c] /\ (queue[c] \o put)[i] = queue[c][i]
          \/ (queue[c] \o put)[i] \in R
    BY <1>1, <1>3
  <2>3. QED  BY <1>5, <1>6, <2>1, <2>2
<1>7. CASE d # c
  BY <1>4, <1>7 DEF TypeOK
<1>8. QED  BY <1>6, <1>7

LEMMA AskedOutNext == TypeOK /\ AskedOut /\ [Next]_vars => AskedOut'
<1> SUFFICES ASSUME TypeOK, AskedOut, [Next]_vars, NEW d \in Conn, NEW i \in DOMAIN queue'[d]
             PROVE  queue'[d][i].ask <= asked'
  BY DEF AskedOut, Asked
<1> DEFINE Old == \E k \in DOMAIN queue[d] : queue'[d][i] = queue[d][k]
<1>0. asked \in Nat /\ asked' \in Nat /\ asked <= asked'
  <2>1. TypeOK'
    BY TypeNext
  <2>2. asked \in Nat /\ asked' \in Nat
    BY <2>1 DEF TypeOK
  <2>3. QED  BY <2>2, AskedGrows
<1>1. CASE Old
  <2>1. PICK k \in DOMAIN queue[d] : queue'[d][i] = queue[d][k]
    BY <1>1
  <2>2. queue[d][k].ask <= asked
    BY DEF AskedOut, Asked
  <2>3. queue[d] \in Seq(Message(ToTab))
    BY DEF TypeOK
  <2>4. queue[d][k] \in Message(ToTab)
    BY <2>3
  <2>5. queue[d][k].ask \in Nat
    BY <2>4 DEF Message
  <2>6. QED  BY <1>0, <2>1, <2>2, <2>5
<1>2. CASE queue'[d] = queue[d] \/ queue'[d] = <<>>
  <2>1. Old
    BY <1>2
  <2>2. QED  BY <1>1, <2>1
<1>3. ASSUME NEW D \in SUBSET Conn, NEW m \in Message(ToTab), Broadcast(D, m), m.ask <= asked'
      PROVE  queue'[d][i].ask <= asked'
  <2>1. [x \in D |-> m] \in [D -> Message(ToTab)] /\ Put([x \in D |-> m])
    BY <1>3 DEF Broadcast
  <2>2. Old \/ queue'[d][i] = m
    BY <2>1, PutFrom
  <2>3. QED  BY <1>1, <1>3, <2>2
<1>p. ASSUME NEW kind \in ToTab
      PROVE  Plain(kind) \in Message(ToTab) /\ Plain(kind).ask <= asked'
  <2>1. Plain(kind).ask = 0
    BY DEF Plain, About
  <2>2. QED  BY <1>0, <2>1, PlainType
<1>4. CASE Start \/ Finish
  <2>1. subs \in SUBSET Conn
    BY DEF TypeOK
  <2>2. QED  BY <1>3, <1>4, <1>p, <2>1 DEF Start, Finish, ToTab
<1>5. CASE Ask
  <2>1. subs \in SUBSET Conn /\ asked + 1 \in 0..Questions /\ asked + 1 <= asked'
    BY <1>5 DEF TypeOK, Ask
  <2>2. About("ask", asked + 1) \in Message(ToTab) /\ About("ask", asked + 1).ask <= asked'
    BY <2>1, AboutType DEF About, ToTab
  <2>3. QED  BY <1>3, <1>5, <2>1, <2>2 DEF Ask
<1>6. ASSUME NEW c \in Conn, Reader(c)
      PROVE  queue'[d][i].ask <= asked'
  <2>1. CASE ReadClose(c) \/ ReaderFails(c)
    BY <1>2, <2>1 DEF ReadClose, ReaderFails, Deregister, TypeOK
  <2>2. CASE AccessGranted(c)
    BY <1>0, <1>1, <2>2, ReplayFrom DEF AccessGranted
  <2>3. CASE GrantClaim(c)
    <3> DEFINE messages == [x \in Registered |-> Plain(IF IsMine(x, c) THEN "mine" ELSE "other")]
    <3>1. messages \in [Registered -> Message(ToTab)] /\ Put(messages)
      BY <2>3, PlainType DEF ToTab, GrantClaim
    <3>2. \A x \in Registered : messages[x].ask = 0
      BY DEF Plain, About
    <3> HIDE DEF messages
    <3>3. Old \/ queue'[d][i].ask = 0
      BY <3>1, <3>2, PutFrom, RegisteredType
    <3>4. QED  BY <1>0, <1>1, <3>3
  <2>4. CASE RefuseClaim(c) \/ AcceptAnswer(c)
    <3>1. {c} \in SUBSET Conn /\ Registered \in SUBSET Conn
      BY RegisteredType
    <3>2. QED  BY <1>3, <1>p, <2>4, <3>1 DEF RefuseClaim, AcceptAnswer, ToTab
  <2>5. CASE ReadSubscribe(c) \/ AccessDenied(c) \/ RefuseAnswer(c) \/ DispatchAnswer(c) \/ DropAnswer(c)
    BY <1>2, <2>5 DEF ReadSubscribe, AccessDenied, RefuseAnswer, DispatchAnswer, DropAnswer
  <2>6. QED  BY <1>6, <2>1, <2>2, <2>3, <2>4, <2>5 DEF Reader
<1>7. ASSUME NEW c \in Conn, Cut(c)
      PROVE  queue'[d][i].ask <= asked'
  BY <1>2, <1>7 DEF Cut, TypeOK
<1>8. ASSUME NEW t \in Tab, Page(t)
      PROVE  queue'[d][i].ask <= asked'
  <2>1. CASE Receive(t)
    <3>1. CASE d = sock[t]
      <4>1. queue'[d] = Tail(queue[d]) /\ queue[d] # <<>> /\ queue[d] \in Seq(Message(ToTab))
        BY <2>1, <3>1 DEF Receive, TypeOK
      <4>2. QED  BY <1>1, <4>1, TailFacts
    <3>2. CASE d # sock[t]
      BY <1>2, <2>1, <3>2 DEF Receive, TypeOK
    <3>3. QED  BY <3>1, <3>2
  <2>2. CASE SeeClose(t) \/ Click(t) \/ Fetched(t) \/ FetchFails(t) \/ \E c \in Conn : Open(t, c)
    BY <1>2, <2>2 DEF SeeClose, Click, Fetched, FetchFails, Open
  <2>3. QED  BY <1>8, <2>1, <2>2 DEF Page
<1>9. CASE UNCHANGED vars
  BY <1>2, <1>9
<1>10. QED  BY <1>4, <1>5, <1>6, <1>7, <1>8, <1>9 DEF Next

\* Where the messages in an inbox come from.
LEMMA SendFrom ==
  ASSUME TypeOK, NEW c \in Conn, NEW m, Send(c, m), NEW d \in Conn
  PROVE  \A i \in DOMAIN inbox'[d] :
           (i \in DOMAIN inbox[d] /\ inbox'[d][i] = inbox[d][i]) \/ (d = c /\ inbox'[d][i] = m)
<1>1. inbox[d] \in Seq(Message(ToServer))
  BY DEF TypeOK
<1>2. inbox'[d] = inbox[d] \/ (d = c /\ inbox'[d] = Append(inbox[d], m))
  BY DEF Send, TypeOK
<1>3. QED  BY <1>1, <1>2, ArriveFacts

LEMMA CutFrom ==
  ASSUME TypeOK, NEW c \in Conn, Cut(c), NEW d \in Conn
  PROVE  \A i \in DOMAIN inbox'[d] :
           \/ i \in DOMAIN inbox[d] /\ inbox'[d][i] = inbox[d][i]
           \/ d = c /\ inbox'[d][i] = Plain("close")
<1>1. PICK n \in 0..Len(inbox[c]) :
        inbox' = [inbox EXCEPT ![c] = Append(SubSeq(@, 1, n), Plain("close"))]
  BY DEF Cut
<1>2. inbox[c] \in Seq(Message(ToServer)) /\ inbox[d] \in Seq(Message(ToServer))
  BY DEF TypeOK
<1>3. CASE d # c
  BY <1>1, <1>3 DEF TypeOK
<1>4. CASE d = c
  <2>1. /\ SubSeq(inbox[c], 1, n) \in Seq(Message(ToServer))
        /\ \A i \in DOMAIN SubSeq(inbox[c], 1, n) :
             i \in DOMAIN inbox[c] /\ SubSeq(inbox[c], 1, n)[i] = inbox[c][i]
    BY <1>2
  <2>2. inbox'[c] = Append(SubSeq(inbox[c], 1, n), Plain("close"))
    BY <1>1 DEF TypeOK
  <2>3. QED  BY <1>4, <2>1, <2>2, ArriveFacts
<1>5. QED  BY <1>3, <1>4

LEMMA ConsumeFrom ==
  ASSUME TypeOK, NEW c \in Conn, inbox[c] # <<>>, Consume(c), NEW d \in Conn
  PROVE  /\ d # c => inbox'[d] = inbox[d]
         /\ \A i \in DOMAIN inbox'[c] :
              i \in Nat \ {0} /\ i + 1 \in DOMAIN inbox[c] /\ inbox'[c][i] = inbox[c][i + 1]
         /\ 1 \in DOMAIN inbox[c] /\ Head(inbox[c]) = inbox[c][1]
<1>1. inbox[c] \in Seq(Message(ToServer)) /\ inbox'[c] = Tail(inbox[c])
  BY DEF TypeOK, Consume
<1>2. d # c => inbox'[d] = inbox[d]
  BY DEF TypeOK, Consume
<1>3. QED  BY <1>1, <1>2, TailFacts

LEMMA AskedInNext == TypeOK /\ AskedIn /\ AskedTabs /\ [Next]_vars => AskedIn'
<1> SUFFICES ASSUME TypeOK, AskedIn, AskedTabs, [Next]_vars, NEW d \in Conn,
                    NEW i \in DOMAIN inbox'[d]
             PROVE  inbox'[d][i].ask <= asked'
  BY DEF AskedIn, Asked
<1> DEFINE Old == \E k \in DOMAIN inbox[d] : inbox'[d][i] = inbox[d][k]
<1>0. asked \in Nat /\ asked' \in Nat /\ asked <= asked'
  <2>1. TypeOK'
    BY TypeNext
  <2>2. asked \in Nat /\ asked' \in Nat
    BY <2>1 DEF TypeOK
  <2>3. QED  BY <2>2, AskedGrows
<1>1. CASE Old
  <2>1. PICK k \in DOMAIN inbox[d] : inbox'[d][i] = inbox[d][k]
    BY <1>1
  <2>2. inbox[d][k].ask <= asked
    BY DEF AskedIn, Asked
  <2>3. inbox[d] \in Seq(Message(ToServer))
    BY DEF TypeOK
  <2>4. inbox[d][k] \in Message(ToServer)
    BY <2>3
  <2>5. inbox[d][k].ask \in Nat
    BY <2>4 DEF Message
  <2>6. QED  BY <1>0, <2>1, <2>2, <2>5
<1>2. CASE inbox'[d] = inbox[d] \/ inbox'[d] = <<>>
  <2>1. Old
    BY <1>2
  <2>2. QED  BY <1>1, <2>1
<1>3. CASE inbox'[d][i].ask = 0
  BY <1>0, <1>3
<1>4. ASSUME NEW c \in Conn, inbox[c] # <<>>, Consume(c)
      PROVE  Old
  BY <1>4, ConsumeFrom
<1>5. ASSUME NEW c \in Conn, Reader(c)
      PROVE  inbox'[d][i].ask <= asked'
  <2>1. CASE ReadClose(c) \/ ReaderFails(c)
    BY <1>2, <2>1 DEF ReadClose, ReaderFails, Deregister, TypeOK
  <2>2. CASE ReadSubscribe(c) \/ GrantClaim(c) \/ RefuseClaim(c) \/ AcceptAnswer(c) \/ RefuseAnswer(c)
    BY <1>1, <1>4, <2>2
    DEF ReadSubscribe, GrantClaim, RefuseClaim, AcceptAnswer, RefuseAnswer, Reading
  <2>3. CASE AccessGranted(c) \/ AccessDenied(c) \/ DispatchAnswer(c) \/ DropAnswer(c)
    BY <1>2, <2>3 DEF AccessGranted, AccessDenied, DispatchAnswer, DropAnswer
  <2>4. QED  BY <1>5, <2>1, <2>2, <2>3 DEF Reader
<1>6. ASSUME NEW c \in Conn, Cut(c)
      PROVE  inbox'[d][i].ask <= asked'
  <2>1. Old \/ inbox'[d][i] = Plain("close")
    BY <1>6, CutFrom
  <2>2. Plain("close").ask = 0
    BY DEF Plain, About
  <2>3. QED  BY <1>1, <1>3, <2>1, <2>2
<1>7. ASSUME NEW t \in Tab, Page(t)
      PROVE  inbox'[d][i].ask <= asked'
  <2>1. CASE Click(t)
    <3>1. sock[t] \in Conn /\ Send(sock[t], Plain("claim"))
      BY <2>1 DEF Click, TypeOK
    <3>2. Old \/ inbox'[d][i] = Plain("claim")
      BY <3>1, SendFrom
    <3>3. Plain("claim").ask = 0
      BY DEF Plain, About
    <3>4. QED  BY <1>1, <1>3, <3>2, <3>3
  <2>2. CASE Fetched(t)
    <3>1. form[t] \in Form /\ form[t].ask <= asked
      BY DEF TypeOK, AskedTabs, Asked
    <3>2. CASE form[t].sock \in Conn
      <4>1. Send(form[t].sock, About("submit", form[t].ask))
        BY <2>2 DEF Fetched
      <4>2. Old \/ inbox'[d][i] = About("submit", form[t].ask)
        BY <3>2, <4>1, SendFrom
      <4>3. About("submit", form[t].ask).ask = form[t].ask
        BY DEF About
      <4>4. form[t].ask \in Nat
        BY <3>1 DEF Form
      <4>5. QED  BY <1>0, <1>1, <3>1, <4>2, <4>3, <4>4
    <3>3. CASE form[t].sock = NoConn
      BY <1>2, <2>2, <3>3 DEF Fetched, Send, TypeOK
    <3>4. QED  BY <3>1, <3>2, <3>3 DEF Form
  <2>3. ASSUME NEW c \in Conn, Open(t, c)
        PROVE  inbox'[d][i].ask <= asked'
    <3>1. CASE d = c
      <4>1. inbox'[d] = <<Plain("subscribe")>>
        BY <2>3, <3>1 DEF Open, TypeOK
      <4>2. inbox'[d][i] = Plain("subscribe")
        BY <4>1
      <4>3. QED  BY <1>3, <4>2 DEF Plain, About
    <3>2. CASE d # c
      BY <1>2, <2>3, <3>2 DEF Open, TypeOK
    <3>3. QED  BY <3>1, <3>2
  <2>4. CASE SeeClose(t) \/ Receive(t) \/ FetchFails(t)
    BY <1>2, <2>4 DEF SeeClose, Receive, FetchFails
  <2>5. QED  BY <1>7, <2>1, <2>2, <2>3, <2>4 DEF Page
<1>8. CASE Start \/ Ask \/ Finish \/ UNCHANGED vars
  BY <1>2, <1>8 DEF Start, Ask, Finish
<1>9. QED  BY <1>5, <1>6, <1>7, <1>8 DEF Next

LEMMA AskedTabsNext == TypeOK /\ AskedOut /\ AskedTabs /\ [Next]_vars => AskedTabs'
<1> SUFFICES ASSUME TypeOK, AskedOut, AskedTabs, [Next]_vars, NEW u \in Tab
             PROVE  shown'[u] <= asked' /\ form'[u].ask <= asked'
  BY DEF AskedTabs, Asked
<1>0. /\ asked \in Nat /\ asked' \in Nat /\ asked <= asked'
      /\ shown[u] \in Nat /\ form[u].ask \in Nat
      /\ shown[u] <= asked /\ form[u].ask <= asked
  <2>1. TypeOK'
    BY TypeNext
  <2>2. asked \in Nat /\ asked' \in Nat /\ shown[u] \in Nat /\ form[u] \in Form
    BY <2>1 DEF TypeOK
  <2>3. QED  BY <2>2, AskedGrows DEF Form, AskedTabs, Asked
<1>1. CASE shown'[u] = shown[u] /\ form'[u] = form[u]
  BY <1>0, <1>1
<1>2. ASSUME NEW t \in Tab, Receive(t)
      PROVE  shown'[u] <= asked' /\ form'[u].ask <= asked'
  <2>1. /\ sock[t] \in Conn /\ queue[sock[t]] # <<>> /\ form' = form
        /\ \/ shown' = shown
           \/ shown' = [shown EXCEPT ![t] = Head(queue[sock[t]]).ask]
    BY <1>2 DEF Receive, Store, TypeOK
  <2>2. queue[sock[t]] \in Seq(Message(ToTab))
    BY <2>1 DEF TypeOK
  <2>3. Head(queue[sock[t]]).ask <= asked /\ Head(queue[sock[t]]).ask \in Nat
    <3>1. 1 \in DOMAIN queue[sock[t]] /\ Head(queue[sock[t]]) = queue[sock[t]][1]
      BY <2>1, <2>2
    <3>2. queue[sock[t]][1] \in Message(ToTab)
      BY <2>2, <3>1
    <3>3. QED  BY <2>1, <3>1, <3>2 DEF AskedOut, Asked, Message
  <2>4. shown'[u] = shown[u] \/ shown'[u] = Head(queue[sock[t]]).ask
    BY <2>1 DEF TypeOK
  <2>5. QED  BY <1>0, <2>1, <2>3, <2>4
<1>3. ASSUME NEW t \in Tab, Page(t)
      PROVE  shown'[u] <= asked' /\ form'[u].ask <= asked'
  <2>1. CASE Click(t)
    <3>1. shown' = shown /\ form' = [form EXCEPT ![t] = [sock |-> sock[t], ask |-> shown[t]]]
      BY <2>1 DEF Click
    <3>2. form'[u] = form[u] \/ (u = t /\ form'[u].ask = shown[u])
      BY <3>1 DEF TypeOK
    <3>3. QED  BY <1>0, <3>1, <3>2
  <2>2. CASE Fetched(t) \/ FetchFails(t)
    <3>1. shown' = shown /\ (form'[u] = form[u] \/ form'[u].ask = 0)
      BY <2>2 DEF Fetched, FetchFails, NoForm, TypeOK
    <3>2. QED  BY <1>0, <3>1
  <2>3. CASE SeeClose(t) \/ \E c \in Conn : Open(t, c)
    BY <1>1, <2>3 DEF SeeClose, Open
  <2>4. QED  BY <1>2, <1>3, <2>1, <2>2, <2>3 DEF Page
<1>4. ASSUME NEW c \in Conn, Reader(c) \/ Cut(c)
      PROVE  shown'[u] <= asked' /\ form'[u].ask <= asked'
  BY <1>1, <1>4
  DEF Reader, ReadClose, ReaderFails, ReadSubscribe, AccessGranted, AccessDenied, GrantClaim,
      RefuseClaim, AcceptAnswer, RefuseAnswer, DispatchAnswer, DropAnswer, Cut
<1>5. CASE Start \/ Ask \/ Finish \/ UNCHANGED vars
  BY <1>1, <1>5 DEF Start, Ask, Finish
<1>6. QED  BY <1>3, <1>4, <1>5 DEF Next

LEMMA AskedAcceptedNext == TypeOK /\ AskedIn /\ AskedAccepted /\ [Next]_vars => AskedAccepted'
<1> SUFFICES ASSUME TypeOK, AskedIn, AskedAccepted, [Next]_vars, NEW i \in DOMAIN accepted'
             PROVE  accepted'[i] <= asked'
  BY DEF AskedAccepted, Asked
<1>0. asked \in Nat /\ asked' \in Nat /\ asked <= asked' /\ accepted \in Seq(Nat)
  <2>1. TypeOK'
    BY TypeNext
  <2>2. asked \in Nat /\ asked' \in Nat /\ accepted \in Seq(Nat)
    BY <2>1 DEF TypeOK
  <2>3. QED  BY <2>2, AskedGrows
<1>1. CASE accepted' = accepted
  <2>1. accepted[i] <= asked /\ accepted[i] \in Nat
    BY <1>0, <1>1 DEF AskedAccepted, Asked
  <2>2. QED  BY <1>0, <1>1, <2>1
<1>2. ASSUME NEW c \in Conn, AcceptAnswer(c)
      PROVE  accepted'[i] <= asked'
  <2>1. inbox[c] # <<>> /\ accepted' = Append(accepted, Head(inbox[c]).ask)
    BY <1>2 DEF AcceptAnswer, Reading
  <2>2. inbox[c] \in Seq(Message(ToServer))
    BY DEF TypeOK
  <2>3. 1 \in DOMAIN inbox[c] /\ Head(inbox[c]) = inbox[c][1]
    BY <2>1, <2>2
  <2>4. Head(inbox[c]).ask <= asked
    BY <2>3 DEF AskedIn, Asked
  <2>5. inbox[c][1] \in Message(ToServer)
    BY <2>2, <2>3
  <2>6. Head(inbox[c]).ask \in Nat
    BY <2>3, <2>5 DEF Message
  <2>7. (i \in DOMAIN accepted /\ accepted'[i] = accepted[i]) \/ accepted'[i] = Head(inbox[c]).ask
    BY <1>0, <2>1, ArriveFacts
  <2>8. i \in DOMAIN accepted => accepted[i] <= asked /\ accepted[i] \in Nat
    BY <1>0 DEF AskedAccepted, Asked
  <2>9. QED  BY <1>0, <2>4, <2>6, <2>7, <2>8
<1>3. ASSUME NEW c \in Conn, Reader(c) \/ Cut(c)
      PROVE  accepted'[i] <= asked'
  BY <1>1, <1>2, <1>3
  DEF Reader, ReadClose, ReaderFails, ReadSubscribe, AccessGranted, AccessDenied, GrantClaim,
      RefuseClaim, RefuseAnswer, DispatchAnswer, DropAnswer, Cut
<1>4. ASSUME NEW t \in Tab, Page(t)
      PROVE  accepted'[i] <= asked'
  BY <1>1, <1>4 DEF Page, SeeClose, Receive, Click, Fetched, FetchFails, Open
<1>5. CASE Start \/ Ask \/ Finish \/ UNCHANGED vars
  BY <1>1, <1>5 DEF Start, Ask, Finish
<1>6. QED  BY <1>3, <1>4, <1>5 DEF Next

LEMMA AskedNext == TypeOK /\ AskedInv /\ [Next]_vars => AskedInv'
BY AskedOutNext, AskedInNext, AskedTabsNext, AskedAcceptedNext DEF AskedInv

LEMMA JoinNext == TypeOK /\ JoinInv /\ [Next]_vars => JoinInv'
<1> SUFFICES ASSUME TypeOK, JoinInv, [Next]_vars, NEW d \in Conn
             PROVE  /\ conn'[d] = "fresh" => inbox'[d] = <<>> /\ reader'[d] = "read" /\ d \notin subs'
                    /\ \A i \in DOMAIN inbox'[d] :
                         inbox'[d][i].kind = "subscribe" => i = 1 /\ reader'[d] = "read"
  BY DEF JoinInv
<1> DEFINE Goal == /\ conn'[d] = "fresh" => inbox'[d] = <<>> /\ reader'[d] = "read" /\ d \notin subs'
                   /\ \A i \in DOMAIN inbox'[d] :
                        inbox'[d][i].kind = "subscribe" => i = 1 /\ reader'[d] = "read"
<1>0. /\ conn[d] = "fresh" => inbox[d] = <<>> /\ reader[d] = "read" /\ d \notin subs
      /\ \A i \in DOMAIN inbox[d] : inbox[d][i].kind = "subscribe" => i = 1 /\ reader[d] = "read"
  BY DEF JoinInv
<1>1. CASE /\ conn'[d] = conn[d] /\ inbox'[d] = inbox[d] /\ reader'[d] = reader[d]
           /\ subs' = subs
  BY <1>0, <1>1
\* Something arrives that is not a subscription.
<1>2. ASSUME conn[d] # "fresh", conn'[d] # "fresh", reader'[d] = reader[d],
             \A i \in DOMAIN inbox'[d] :
               \/ i \in DOMAIN inbox[d] /\ inbox'[d][i] = inbox[d][i]
               \/ inbox'[d][i].kind # "subscribe"
      PROVE  Goal
  BY <1>0, <1>2
<1>3. ASSUME NEW c \in Conn, Reader(c)
      PROVE  Goal
  <2>1. CASE ReadClose(c) \/ ReaderFails(c)
    <3>1. Deregister(c)
      BY <2>1 DEF ReadClose, ReaderFails
    <3>2. CASE d = c
      BY <3>1, <3>2 DEF Deregister, TypeOK
    <3>3. CASE d # c
      BY <1>0, <3>1, <3>3 DEF Deregister, Goto, TypeOK
    <3>4. QED  BY <3>2, <3>3
  <2>2. CASE ReadSubscribe(c) \/ GrantClaim(c) \/ RefuseClaim(c) \/ AcceptAnswer(c) \/ RefuseAnswer(c)
    <3>1. /\ inbox[c] # <<>> /\ Consume(c) /\ conn[c] # "fresh" /\ subs' = subs /\ conn' = conn
          /\ \A x \in Conn : x # c => reader'[x] = reader[x]
      BY <2>2
      DEF ReadSubscribe, GrantClaim, RefuseClaim, AcceptAnswer, RefuseAnswer, Reading, Registered,
          Goto, TypeOK
    <3>2. CASE d = c
      <4>1. \A i \in DOMAIN inbox'[d] :
              i \in Nat \ {0} /\ i + 1 \in DOMAIN inbox[d] /\ inbox'[d][i] = inbox[d][i + 1]
        BY <3>1, <3>2, ConsumeFrom
      <4>2. \A i \in DOMAIN inbox'[d] : inbox'[d][i].kind # "subscribe"
        BY <1>0, <4>1
      <4>3. QED  BY <3>1, <3>2, <4>2
    <3>3. CASE d # c
      <4>1. inbox'[d] = inbox[d]
        BY <3>1, <3>3, ConsumeFrom
      <4>2. QED  BY <1>1, <3>1, <3>3, <4>1
    <3>4. QED  BY <3>2, <3>3
  <2>3. CASE AccessGranted(c) \/ AccessDenied(c) \/ DispatchAnswer(c) \/ DropAnswer(c)
    <3>1. /\ reader[c] # "read" /\ conn' = conn /\ inbox' = inbox
          /\ reader' = [reader EXCEPT ![c] = "read"]
          /\ subs' = subs \/ subs' = subs \cup {c}
      BY <2>3 DEF AccessGranted, AccessDenied, DispatchAnswer, DropAnswer, Goto
    <3>2. QED  BY <1>0, <3>1 DEF TypeOK
  <2>4. QED  BY <1>3, <2>1, <2>2, <2>3 DEF Reader
<1>4. ASSUME NEW c \in Conn, Cut(c)
      PROVE  Goal
  <2>1. reader' = reader /\ subs' = subs /\ conn[c] = "open" /\ conn' = [conn EXCEPT ![c] = "cut"]
    BY <1>4 DEF Cut
  <2>2. Plain("close").kind # "subscribe"
    BY DEF Plain, About
  <2>3. CASE d = c
    <3>1. conn[d] # "fresh" /\ conn'[d] # "fresh" /\ reader'[d] = reader[d]
      BY <2>1, <2>3 DEF TypeOK
    <3>2. \A i \in DOMAIN inbox'[d] :
            \/ i \in DOMAIN inbox[d] /\ inbox'[d][i] = inbox[d][i]
            \/ inbox'[d][i] = Plain("close")
      BY <1>4, <2>3, CutFrom
    <3>3. QED  BY <1>2, <2>2, <3>1, <3>2
  <2>4. CASE d # c
    <3>1. inbox'[d] = inbox[d]
      BY <1>4, <2>4 DEF Cut, TypeOK
    <3>2. QED  BY <1>1, <2>1, <2>4, <3>1 DEF TypeOK
  <2>5. QED  BY <2>3, <2>4
<1>5. ASSUME NEW t \in Tab, Page(t)
      PROVE  Goal
  <2>1. ASSUME NEW c \in Conn, NEW m, Send(c, m), m.kind # "subscribe",
               UNCHANGED <<conn, reader, subs>>
        PROVE  Goal
    <3>1. CASE conn[d] = "fresh" \/ d # c
      BY <1>1, <2>1, <3>1 DEF Send, TypeOK
    <3>2. CASE conn[d] # "fresh" /\ d = c
      BY <1>2, <2>1, <3>2, SendFrom
    <3>3. QED  BY <3>1, <3>2
  <2>2. CASE Click(t)
    <3>1. sock[t] \in Conn /\ Plain("claim").kind # "subscribe"
      BY <2>2 DEF Click, TypeOK, Plain, About
    <3>2. QED  BY <2>1, <2>2, <3>1 DEF Click
  <2>3. CASE Fetched(t)
    <3>1. form[t].sock \in Conn \cup {NoConn} /\ About("submit", form[t].ask).kind # "subscribe"
      BY DEF TypeOK, Form, About
    <3>2. CASE form[t].sock \in Conn
      BY <2>1, <2>3, <3>1, <3>2 DEF Fetched
    <3>3. CASE form[t].sock = NoConn
      BY <1>1, <2>3, <3>3 DEF Fetched, Send, TypeOK
    <3>4. QED  BY <3>1, <3>2, <3>3
  <2>4. ASSUME NEW c \in Conn, Open(t, c)
        PROVE  Goal
    <3>1. CASE d = c
      <4>1. inbox'[d] = <<Plain("subscribe")>> /\ conn'[d] = "open" /\ reader'[d] = "read"
        BY <1>0, <2>4, <3>1 DEF Open, TypeOK
      <4>2. DOMAIN inbox'[d] = {1}
        BY <4>1
      <4>3. QED  BY <4>1, <4>2
    <3>2. CASE d # c
      BY <1>1, <2>4, <3>2 DEF Open, TypeOK
    <3>3. QED  BY <3>1, <3>2
  <2>5. CASE SeeClose(t) \/ Receive(t) \/ FetchFails(t)
    BY <1>1, <2>5 DEF SeeClose, Receive, FetchFails
  <2>6. QED  BY <1>5, <2>2, <2>3, <2>4, <2>5 DEF Page
<1>6. CASE Start \/ Ask \/ Finish \/ UNCHANGED vars
  BY <1>1, <1>6 DEF Start, Ask, Finish
<1>7. QED  BY <1>3, <1>4, <1>5, <1>6 DEF Next

\* A connection subscribes once: it is never joining again.
LEMMA JoinOnce ==
  ASSUME TypeOK, JoinInv, [Next]_vars, NEW d \in Conn, conn[d] = "open", conn'[d] = "open"
  PROVE  Joining(d)' => Joining(d) /\ ~ \E c \in Conn : c = d /\ AccessGranted(c)
<1> SUFFICES ASSUME Joining(d)'
             PROVE  Joining(d) /\ ~AccessGranted(d)
  OBVIOUS
<1>0. \A i \in DOMAIN inbox[d] : inbox[d][i].kind = "subscribe" => i = 1 /\ reader[d] = "read"
  BY DEF JoinInv
<1>a. AccessGranted(d) => FALSE
  <2> SUFFICES ASSUME AccessGranted(d) PROVE FALSE
    OBVIOUS
  <2>1. reader[d] = "access" /\ inbox' = inbox /\ reader'[d] = "read"
    BY DEF AccessGranted, Goto, TypeOK
  <2>2. QED  BY <1>0, <2>1 DEF Joining, Subscribing
<1>1. CASE /\ reader'[d] # "access" \/ reader'[d] = reader[d]
           /\ \A i \in DOMAIN inbox'[d] :
                \/ i \in DOMAIN inbox[d] /\ inbox'[d][i] = inbox[d][i]
                \/ inbox'[d][i].kind # "subscribe"
  BY <1>a, <1>1 DEF Joining, Subscribing
<1>2. CASE inbox'[d] = inbox[d] /\ reader'[d] = reader[d]
  BY <1>a, <1>2 DEF Joining, Subscribing
<1>3. ASSUME NEW c \in Conn, Reader(c)
      PROVE  Joining(d)
  <2>1. CASE ReadClose(c) \/ ReaderFails(c)
    <3>1. d # c
      BY <2>1 DEF ReadClose, ReaderFails, Deregister, TypeOK
    <3>2. QED  BY <1>2, <2>1, <3>1 DEF ReadClose, ReaderFails, Deregister, Goto, TypeOK
  <2>2. CASE ReadSubscribe(c) \/ GrantClaim(c) \/ RefuseClaim(c) \/ AcceptAnswer(c) \/ RefuseAnswer(c)
    <3>1. /\ inbox[c] # <<>> /\ Consume(c)
          /\ \A x \in Conn : x # c => reader'[x] = reader[x]
          /\ ~ReadSubscribe(c) => reader'[c] = reader[c] \/ reader'[c] = "dispatch"
          /\ ReadSubscribe(c) => Head(inbox[c]).kind = "subscribe"
      BY <2>2
      DEF ReadSubscribe, GrantClaim, RefuseClaim, AcceptAnswer, RefuseAnswer, Reading, Goto, TypeOK
    <3>2. CASE d = c
      <4>1. /\ \A i \in DOMAIN inbox'[d] :
                 i \in Nat \ {0} /\ i + 1 \in DOMAIN inbox[d] /\ inbox'[d][i] = inbox[d][i + 1]
            /\ 1 \in DOMAIN inbox[d] /\ Head(inbox[d]) = inbox[d][1]
        BY <3>1, <3>2, ConsumeFrom
      <4>2. ~Subscribing(d)'
        BY <1>0, <4>1 DEF Subscribing
      <4>3. reader'[d] = "access"
        BY <4>2 DEF Joining
      <4>4. CASE ReadSubscribe(c)
        BY <3>1, <3>2, <4>1, <4>4 DEF Joining, Subscribing
      <4>5. CASE ~ReadSubscribe(c)
        BY <3>1, <3>2, <4>3, <4>5 DEF Joining
      <4>6. QED  BY <4>4, <4>5
    <3>3. CASE d # c
      <4>1. inbox'[d] = inbox[d]
        BY <3>1, <3>3, ConsumeFrom
      <4>2. QED  BY <1>2, <3>1, <3>3, <4>1
    <3>4. QED  BY <3>2, <3>3
  <2>3. CASE AccessGranted(c) \/ AccessDenied(c) \/ DispatchAnswer(c) \/ DropAnswer(c)
    <3>1. inbox' = inbox /\ (reader'[d] = reader[d] \/ reader'[d] = "read")
      BY <2>3 DEF AccessGranted, AccessDenied, DispatchAnswer, DropAnswer, Goto, TypeOK
    <3>2. QED  BY <3>1 DEF Joining, Subscribing
  <2>4. QED  BY <1>3, <2>1, <2>2, <2>3 DEF Reader
<1>4. ASSUME NEW c \in Conn, Cut(c)
      PROVE  Joining(d)
  BY <1>2, <1>4 DEF Cut, TypeOK
<1>5. ASSUME NEW t \in Tab, Page(t)
      PROVE  Joining(d)
  <2>1. CASE Click(t)
    <3>1. sock[t] \in Conn /\ Plain("claim").kind # "subscribe"
      BY <2>1 DEF Click, TypeOK, Plain, About
    <3>2. QED  BY <1>1, <2>1, <3>1, SendFrom DEF Click
  <2>2. CASE Fetched(t)
    <3>1. form[t].sock \in Conn \cup {NoConn} /\ About("submit", form[t].ask).kind # "subscribe"
      BY DEF TypeOK, Form, About
    <3>2. CASE form[t].sock \in Conn
      BY <1>1, <2>2, <3>1, <3>2, SendFrom DEF Fetched
    <3>3. CASE form[t].sock = NoConn
      BY <1>2, <2>2, <3>3 DEF Fetched, Send, TypeOK
    <3>4. QED  BY <3>1, <3>2, <3>3
  <2>3. ASSUME NEW c \in Conn, Open(t, c)
        PROVE  Joining(d)
    BY <1>2, <2>3 DEF Open, TypeOK
  <2>4. CASE SeeClose(t) \/ Receive(t) \/ FetchFails(t)
    BY <1>2, <2>4 DEF SeeClose, Receive, FetchFails
  <2>5. QED  BY <1>5, <2>1, <2>2, <2>3, <2>4 DEF Page
<1>6. CASE Start \/ Ask \/ Finish \/ UNCHANGED vars
  BY <1>2, <1>6 DEF Start, Ask, Finish
<1>7. Joining(d)
  BY <1>3, <1>4, <1>5, <1>6 DEF Next
<1>8. QED  BY <1>a, <1>7

LEMMA ToldImplies == TypeOK /\ ToldInv => AnsweredIsTold
<1> SUFFICES ASSUME TypeOK, ToldInv, NEW t \in Tab, NEW i \in DOMAIN accepted,
                    UpToDate(t), prompt[t] = "pending", shown[t] = accepted[i]
             PROVE  FALSE
  BY DEF AnsweredIsTold
<1>1. sock[t] \in Conn /\ Hears(sock[t]) /\ t \in Pending(sock[t])
  BY DEF UpToDate, Hears, Pending, TypeOK
<1>2. Settled(sock[t], 0)
  BY <1>1 DEF ToldInv, AskSettled, Answered
<1>3. DOMAIN queue[sock[t]] = {}
  BY DEF UpToDate
<1>4. QED  BY <1>2, <1>3 DEF Settled

\* A connection of which nothing changes, for what its tab knows.
LEMMA FrameTold ==
  ASSUME ToldInv, NEW d \in Conn, Hears(d), Joining(d)' => Joining(d), accepted' = accepted,
         queue'[d] = queue[d], d \in subs' => d \in subs,
         Pending(d)' \subseteq Pending(d), \A t \in Pending(d)' : shown'[t] = shown[t]
  PROVE  ReplayFirst(d)' /\ JoinFirst(d)' /\ AskSettled(d)'
<1>1. ReplayFirst(d) /\ JoinFirst(d) /\ AskSettled(d)
  BY DEF ToldInv
<1>2. ReplayFirst(d)'
  BY <1>1 DEF ReplayFirst
<1>3. JoinFirst(d)'
  BY <1>1 DEF JoinFirst
<1>4. \A k : Answered(k)' <=> Answered(k)
  BY DEF Answered
<1>5. \A n : Settled(d, n)' <=> Settled(d, n)
  BY DEF Settled
<1>6. AskSettled(d)'
  BY <1>1, <1>4, <1>5 DEF AskSettled
<1>7. QED  BY <1>2, <1>3, <1>6

\* A message for the connections in D that is no replay; a question is new, and
\* whoever is not told of an answer is not told because nothing was answered.
LEMMA PutTold ==
  ASSUME TypeOK, ToldInv, NEW D \in SUBSET Conn, NEW messages \in [D -> Message(ToTab)],
         Put(messages),
         UNCHANGED <<conn, sock, fresh, prompt, shown, subs>>,
         \A d \in Conn : Hears(d) /\ Hears(d)' => (Joining(d)' => Joining(d)),
         \A d \in D : /\ messages[d].kind # "replay"
                      /\ messages[d].kind = "ask" => d \in subs /\ ~Answered(messages[d].ask)',
         \/ accepted' = accepted
         \/ \A d \in Conn : conn[d] = "open" => d \in D /\ messages[d].kind \in Settles
  PROVE  ToldInv'
<1> SUFFICES ASSUME NEW d \in Conn, Hears(d)'
             PROVE  ReplayFirst(d)' /\ JoinFirst(d)' /\ AskSettled(d)'
  BY DEF ToldInv
<1>1. Hears(d) /\ conn[d] = "open" /\ d \notin lossy'
  BY DEF Hears, Put
<1>2. Pending(d)' = Pending(d) /\ (Joining(d)' => Joining(d))
  BY <1>1 DEF Pending
<1>3. \/ d \notin D /\ queue'[d] = queue[d]
      \/ d \in D /\ queue'[d] = Append(queue[d], messages[d])
  BY <1>1 DEF Put, TypeOK
<1>4. CASE d \notin D /\ queue'[d] = queue[d]
  BY <1>1, <1>2, <1>4, FrameTold
<1>5. CASE d \in D /\ queue'[d] = Append(queue[d], messages[d])
  <2> DEFINE n == Len(queue[d]) + 1
             m == messages[d]
  <2>1. /\ DOMAIN queue'[d] = DOMAIN queue[d] \cup {n}
        /\ queue'[d][n] = m
        /\ \A i \in DOMAIN queue[d] : queue'[d][i] = queue[d][i] /\ i < n
    BY <1>5, AppendKeeps
  <2>2. /\ m.kind # "replay"
        /\ m.kind = "ask" => d \in subs /\ ~Answered(m.ask)'
        /\ accepted' = accepted \/ m.kind \in Settles
    BY <1>1, <1>5
  <2>3. n \in Nat \ {0}
    BY DEF TypeOK
  <2> HIDE DEF n, m
  <2>4. ReplayFirst(d) /\ JoinFirst(d) /\ AskSettled(d)
    BY <1>1 DEF ToldInv
  <2>5. ReplayFirst(d)'
    <3>1. \A i \in DOMAIN queue'[d] : i \in DOMAIN queue[d] \/ i = n
      BY <2>1
    <3>2. QED  BY <1>2, <2>1, <2>2, <2>4, <3>1 DEF ReplayFirst
  <2>6. JoinFirst(d)'
    BY <1>2, <2>1, <2>2, <2>4 DEF JoinFirst
  <2>7. CASE m.kind \in Settles
    <3>1. \A i \in DOMAIN queue[d] : Settled(d, i)'
      BY <2>1, <2>7 DEF Settled
    <3>2. Settled(d, 0)'
      BY <2>1, <2>3, <2>7 DEF Settled
    <3>3. m.kind # "ask"
      BY <2>7 DEF Settles, Ends
    <3>4. QED  BY <2>1, <2>5, <2>6, <3>1, <3>2, <3>3 DEF AskSettled
  <2>8. CASE accepted' = accepted
    <3>1. \A k : Answered(k)' <=> Answered(k)
      BY <2>8 DEF Answered
    <3>2. \A i : Settled(d, i) => Settled(d, i)'
      BY <2>1 DEF Settled
    <3>3. AskSettled(d)'
      <4>1. ASSUME NEW i \in DOMAIN queue'[d], queue'[d][i].kind = "ask", Answered(queue[d][i].ask)'
            PROVE  Settled(d, i)'
        <5>1. i # n
          BY <2>1, <2>2, <4>1
        <5>2. i \in DOMAIN queue[d] /\ queue'[d][i] = queue[d][i]
          BY <2>1, <5>1
        <5>3. Answered(queue[d][i].ask)
          BY <3>1, <4>1, <5>2
        <5>4. QED  BY <2>4, <3>2, <4>1, <5>2, <5>3 DEF AskSettled
      <4>2. ASSUME NEW t \in Pending(d)', Answered(shown[t])'
            PROVE  Settled(d, 0)'
        <5>1. t \in Pending(d) /\ Answered(shown[t])
          BY <1>2, <3>1, <4>2
        <5>2. QED  BY <2>4, <3>2, <5>1 DEF AskSettled
      <4>3. QED  BY <4>1, <4>2 DEF AskSettled
    <3>4. QED  BY <2>5, <2>6, <3>3
  <2>9. QED  BY <2>2, <2>7, <2>8
<1>6. QED  BY <1>3, <1>4, <1>5

LEMMA ReplayTold ==
  ASSUME TypeOK, JoinInv, ToldInv, NEW c \in Conn, AccessGranted(c), [Next]_vars
  PROVE  ToldInv'
<1> SUFFICES ASSUME NEW d \in Conn, Hears(d)'
             PROVE  ReplayFirst(d)' /\ JoinFirst(d)' /\ AskSettled(d)'
  BY DEF ToldInv
<1>1. /\ Replay(c) /\ reader[c] = "access" /\ subs' = subs \cup {c}
      /\ UNCHANGED <<conn, sock, fresh, prompt, shown, accepted>>
  BY DEF AccessGranted
<1>2. Hears(d) /\ conn[d] = "open" /\ conn'[d] = "open"
  BY <1>1 DEF Hears, Replay
<1>3. (Joining(d)' => Joining(d)) /\ (d = c => ~Joining(d)')
  BY <1>2, JoinOnce
<1>4. Pending(d)' = Pending(d)
  BY <1>1 DEF Pending
<1>5. CASE d # c
  <2>1. queue'[d] = queue[d]
    BY <1>1, <1>5 DEF Replay, TypeOK
  <2>2. QED  BY <1>1, <1>2, <1>3, <1>4, <1>5, <2>1, FrameTold
<1>6. CASE d = c
  <2>1. JoinFirst(c) /\ Joining(c)
    BY <1>1, <1>2, <1>6 DEF ToldInv, Joining
  <2>2. Pending(c)' = {} /\ \A i \in DOMAIN queue[c] : queue[c][i].kind # "ask"
    BY <1>4, <1>6, <2>1 DEF JoinFirst
  <2>3. \A i \in DOMAIN queue'[c] : queue'[c][i].kind # "ask"
    BY <1>1, <2>2, ReplayFrom
  <2>4. ~Joining(c)'
    BY <1>3, <1>6
  <2>5. QED  BY <1>6, <2>2, <2>3, <2>4 DEF ReplayFirst, JoinFirst, AskSettled
<1>7. QED  BY <1>5, <1>6

LEMMA JoinShrinks ==
  ASSUME TypeOK, JoinInv, [Next]_vars
  PROVE  \A d \in Conn : Hears(d) /\ Hears(d)' => (Joining(d)' => Joining(d))
BY JoinOnce DEF Hears

\* The case of one message other than a replay or a question.
LEMMA BroadcastTold ==
  ASSUME TypeOK, JoinInv, ToldInv, [Next]_vars, NEW D \in SUBSET Conn, NEW kind \in ToTab,
         kind \notin {"replay", "ask"}, Broadcast(D, Plain(kind)),
         UNCHANGED <<conn, sock, fresh, prompt, shown, subs>>,
         \/ accepted' = accepted
         \/ (kind \in Settles /\ \A d \in Conn : conn[d] = "open" => d \in D)
  PROVE  ToldInv'
<1> DEFINE messages == [d \in D |-> Plain(kind)]
<1>1. messages \in [D -> Message(ToTab)] /\ Put(messages)
  BY PlainType DEF Broadcast
<1>2. \A d \in D : messages[d].kind = kind
  BY DEF Plain, About
<1> HIDE DEF messages
<1>3. QED  BY <1>1, <1>2, JoinShrinks, PutTold

LEMMA ReaderTold ==
  ASSUME TypeOK, JoinInv, ToldInv, [Next]_vars, NEW c \in Conn, Reader(c)
  PROVE  ToldInv'
<1>1. CASE ReadClose(c) \/ ReaderFails(c)
  <2> SUFFICES ASSUME NEW d \in Conn, Hears(d)'
               PROVE  ReplayFirst(d)' /\ JoinFirst(d)' /\ AskSettled(d)'
    BY DEF ToldInv
  <2>1. Deregister(c) /\ UNCHANGED <<sock, fresh, prompt, shown, accepted>>
    BY <1>1 DEF ReadClose, ReaderFails
  <2>2. d # c /\ queue'[d] = queue[d] /\ Hears(d) /\ (d \in subs' => d \in subs)
    BY <2>1 DEF Deregister, Hears, TypeOK
  <2>3. Pending(d)' = Pending(d)
    BY <2>1 DEF Pending
  <2>4. QED  BY <2>1, <2>2, <2>3, JoinShrinks, FrameTold
<1>2. CASE GrantClaim(c)
  <2> DEFINE messages == [d \in Registered |-> Plain(IF IsMine(d, c) THEN "mine" ELSE "other")]
  <2>1. messages \in [Registered -> Message(ToTab)]
    BY PlainType DEF ToTab
  <2>2. /\ Put(messages)
        /\ UNCHANGED <<conn, sock, fresh, prompt, shown, subs, accepted>>
    BY <1>2 DEF GrantClaim
  <2>3. \A d \in Registered : messages[d].kind \in {"mine", "other"}
    BY DEF Plain, About
  <2> HIDE DEF messages
  <2>4. QED  BY <2>1, <2>2, <2>3, JoinShrinks, PutTold, RegisteredType
<1>3. CASE RefuseClaim(c)
  <2>1. /\ Broadcast({c}, Plain("other")) /\ {c} \in SUBSET Conn /\ "other" \in ToTab
        /\ UNCHANGED <<conn, sock, fresh, prompt, shown, subs, accepted>>
    BY <1>3 DEF RefuseClaim, ToTab
  <2>2. QED  BY <2>1, BroadcastTold
<1>4. CASE AcceptAnswer(c)
  <2>1. /\ Broadcast(Registered, Plain("answered")) /\ "answered" \in ToTab
        /\ "answered" \in Settles /\ \A d \in Conn : conn[d] = "open" => d \in Registered
        /\ UNCHANGED <<conn, sock, fresh, prompt, shown, subs>>
    BY <1>4 DEF AcceptAnswer, ToTab, Settles, Ends, Registered
  <2>2. QED  BY <2>1, BroadcastTold, RegisteredType
<1>5. CASE AccessGranted(c)
  BY <1>5, ReplayTold
<1>6. CASE ReadSubscribe(c) \/ AccessDenied(c) \/ RefuseAnswer(c) \/ DispatchAnswer(c) \/ DropAnswer(c)
  <2> SUFFICES ASSUME NEW d \in Conn, Hears(d)'
               PROVE  ReplayFirst(d)' /\ JoinFirst(d)' /\ AskSettled(d)'
    BY DEF ToldInv
  <2>1. UNCHANGED <<conn, queue, lossy, sock, fresh, prompt, shown, subs, accepted>>
    BY <1>6 DEF ReadSubscribe, AccessDenied, RefuseAnswer, DispatchAnswer, DropAnswer
  <2>2. Hears(d) /\ Pending(d)' = Pending(d)
    BY <2>1 DEF Hears, Pending
  <2>3. QED  BY <2>1, <2>2, JoinShrinks, FrameTold
<1>7. QED  BY <1>1, <1>2, <1>3, <1>4, <1>5, <1>6 DEF Reader

\* A tab takes the head of its queue; no other tab reads that queue.
LEMMA ReceiveTold ==
  ASSUME TypeOK, SocketInv, JoinInv, ToldInv, [Next]_vars, NEW t \in Tab, Receive(t)
  PROVE  ToldInv'
<1>a. sock[t] \in Conn /\ queue[sock[t]] # <<>>
  BY DEF Receive, TypeOK
<1>b. PICK c \in Conn : c = sock[t]
  BY <1>a
<1>c. PICK m : m = Head(queue[c])
  OBVIOUS
<1>1. queue[c] \in Seq(Message(ToTab)) /\ queue[c] # <<>>
  BY <1>a, <1>b DEF TypeOK
<1>2. /\ queue' = [queue EXCEPT ![c] = Tail(@)]
      /\ prompt' = [prompt EXCEPT ![t] = PromptAfter(m, @)]
      /\ fresh' = IF Sets(m, prompt[t]) THEN fresh \cup {t} ELSE fresh
      /\ shown' = IF m.kind \in {"ask", "replay"} THEN [shown EXCEPT ![t] = m.ask] ELSE shown
      /\ UNCHANGED <<conn, lossy, sock, subs, accepted>>
  BY <1>b, <1>c DEF Receive, Store, TypeOK
<1>3. /\ m = queue[c][1] /\ 1 \in DOMAIN queue[c]
      /\ DOMAIN queue[c] \subseteq Nat \ {0} /\ DOMAIN queue'[c] \subseteq Nat \ {0}
      /\ \A i \in DOMAIN queue'[c] : i + 1 \in DOMAIN queue[c] /\ queue'[c][i] = queue[c][i + 1]
      /\ \A j \in DOMAIN queue[c] :
           1 < j => j - 1 \in DOMAIN queue'[c] /\ queue'[c][j - 1] = queue[c][j]
  <2>1. queue'[c] = Tail(queue[c])
    BY <1>2 DEF TypeOK
  <2>2. QED  BY <1>1, <1>c, <2>1, TailFacts
<1> SUFFICES ASSUME NEW d \in Conn, Hears(d)'
             PROVE  ReplayFirst(d)' /\ JoinFirst(d)' /\ AskSettled(d)'
  BY DEF ToldInv
<1>4. Hears(d) /\ (Joining(d)' => Joining(d))
  BY <1>2, JoinShrinks DEF Hears
<1>5. CASE d # c
  <2>1. queue'[d] = queue[d]
    BY <1>2, <1>5 DEF TypeOK
  <2>2. \A u \in Tab : sock[u] = d => u # t
    BY <1>5, <1>b
  <2>3. \A u \in Pending(d)' : u \in Pending(d) /\ shown'[u] = shown[u]
    <3> SUFFICES ASSUME NEW u \in Pending(d)'
                 PROVE  u \in Pending(d) /\ shown'[u] = shown[u]
      OBVIOUS
    <3>1. u \in fresh' /\ sock[u] = d /\ prompt'[u] = "pending"
      BY <1>2 DEF Pending
    <3>2. u \in Tab /\ u # t
      BY <1>2, <2>2, <3>1 DEF TypeOK
    <3>3. QED  BY <1>2, <3>1, <3>2 DEF Pending, TypeOK
  <2>4. QED  BY <1>2, <1>4, <2>1, <2>3, FrameTold
<1>6. CASE d = c
  <2>1. ReplayFirst(c) /\ JoinFirst(c) /\ AskSettled(c)
    BY <1>4, <1>6 DEF ToldInv
  <2>2. ASSUME NEW u \in Pending(c)'
        PROVE  /\ u = t
               /\ m.kind = "ask" \/ (t \in Pending(c) /\ m.kind \notin Settles)
    <3>1. u \in fresh' /\ sock[u] = c /\ prompt'[u] = "pending"
      BY <1>2, <2>2 DEF Pending
    <3>2. u \in Tab /\ c # NoConn
      BY <1>2, <3>1 DEF TypeOK
    <3>3. Owner[c] = u /\ Owner[c] = t
      BY <1>b, <3>1, <3>2 DEF SocketInv
    <3>4. u = t
      BY <3>3
    <3>5. PromptAfter(m, prompt[t]) = "pending"
      BY <1>2, <3>1, <3>4 DEF TypeOK
    <3>6. CASE m.kind # "ask"
      <4>1. prompt[t] = "pending" /\ m.kind \notin Settles
        BY <3>5, <3>6 DEF PromptAfter, Settles, Ends
      <4>2. ~Sets(m, prompt[t])
        BY <3>5, <4>1 DEF Sets, Settles, Ends
      <4>3. t \in fresh
        BY <1>2, <3>1, <3>4, <4>2
      <4>4. QED  BY <1>b, <3>4, <4>1, <4>3 DEF Pending
    <3>7. QED  BY <3>4, <3>6
  <2>3. ReplayFirst(c)'
    <3> SUFFICES ASSUME NEW j \in DOMAIN queue'[c], queue'[c][j].kind = "replay"
                 PROVE  /\ Pending(c)' = {}
                        /\ \A i \in DOMAIN queue'[c] : queue'[c][i].kind = "ask" => j < i
      BY DEF ReplayFirst
    <3>1. j + 1 \in DOMAIN queue[c] /\ queue[c][j + 1].kind = "replay" /\ j \in Nat
      BY <1>3
    <3>2. Pending(c) = {} /\ \A i \in DOMAIN queue[c] : queue[c][i].kind = "ask" => j + 1 < i
      BY <2>1, <3>1 DEF ReplayFirst
    <3>3. m.kind # "ask"
      BY <1>3, <3>1, <3>2
    <3>4. Pending(c)' = {}
      BY <2>2, <3>2, <3>3
    <3>5. ASSUME NEW i \in DOMAIN queue'[c], queue'[c][i].kind = "ask"
          PROVE  j < i
      <4>1. i \in Nat /\ j + 1 < i + 1
        BY <1>3, <3>2, <3>5
      <4>2. QED  BY <3>1, <4>1
    <3>6. QED  BY <3>4, <3>5
  <2>4. JoinFirst(c)'
    <3> SUFFICES ASSUME Joining(c)'
                 PROVE  /\ c \notin subs' /\ Pending(c)' = {}
                        /\ \A i \in DOMAIN queue'[c] : queue'[c][i].kind # "ask"
      BY DEF JoinFirst
    <3>1. /\ c \notin subs /\ Pending(c) = {}
          /\ \A i \in DOMAIN queue[c] : queue[c][i].kind # "ask"
      BY <1>4, <1>6, <2>1 DEF JoinFirst
    <3>2. Pending(c)' = {}
      BY <1>3, <2>2, <3>1
    <3>3. QED  BY <1>2, <1>3, <3>1, <3>2
  <2>5. \A k : Answered(k)' <=> Answered(k)
    BY <1>2 DEF Answered
  <2>6. ASSUME NEW n \in Nat, Settled(c, n + 1)
        PROVE  Settled(c, n)'
    <3>1. PICK j \in DOMAIN queue[c] : n + 1 < j /\ queue[c][j].kind \in Settles
      BY <2>6 DEF Settled
    <3>2. j \in Nat /\ 1 < j /\ n < j - 1
      BY <1>3, <3>1
    <3>3. j - 1 \in DOMAIN queue'[c] /\ queue'[c][j - 1] = queue[c][j]
      BY <1>3, <3>1, <3>2
    <3>4. QED  BY <3>1, <3>2, <3>3 DEF Settled
  <2>7. ASSUME NEW i \in DOMAIN queue'[c], queue'[c][i].kind = "ask", Answered(queue[c][i + 1].ask)
        PROVE  Settled(c, i)'
    <3>1. i \in Nat /\ i + 1 \in DOMAIN queue[c] /\ queue[c][i + 1].kind = "ask"
      BY <1>3, <2>7
    <3>2. Settled(c, i + 1)
      BY <2>1, <2>7, <3>1 DEF AskSettled
    <3>3. QED  BY <2>6, <3>1, <3>2
  <2>8. ASSUME NEW u \in Pending(c)', NEW k, k = shown'[u], Answered(k)
        PROVE  Settled(c, 0)'
    <3>1. u = t /\ t \in Tab
      BY <2>2, <2>8
    <3>2. CASE m.kind = "ask"
      <4>1. shown'[t] = m.ask
        BY <1>2, <3>2 DEF TypeOK
      <4>2. Settled(c, 1)
        BY <1>3, <2>1, <2>8, <3>1, <3>2, <4>1 DEF AskSettled
      <4>3. QED  BY <2>6, <4>2
    <3>3. CASE t \in Pending(c) /\ m.kind \notin Settles /\ m.kind # "ask"
      <4>1. m.kind # "replay"
        BY <1>3, <2>1, <3>3 DEF ReplayFirst
      <4>2. shown'[t] = shown[t]
        BY <1>2, <3>3, <4>1
      <4>3. Settled(c, 0)
        BY <2>1, <2>8, <3>1, <3>3, <4>2 DEF AskSettled
      <4>4. PICK j \in DOMAIN queue[c] : queue[c][j].kind \in Settles
        BY <4>3 DEF Settled
      <4>5. j \in Nat \ {0} /\ j # 1
        BY <1>3, <3>3, <4>4
      <4>6. Settled(c, 1)
        BY <4>4, <4>5 DEF Settled
      <4>7. QED  BY <2>6, <4>6
    <3>4. QED  BY <2>2, <2>8, <3>2, <3>3
  <2>9. AskSettled(c)'
    BY <1>3, <2>5, <2>7, <2>8 DEF AskSettled
  <2>10. QED  BY <1>6, <2>3, <2>4, <2>9
<1>7. QED  BY <1>5, <1>6

LEMMA PageTold ==
  ASSUME TypeOK, SocketInv, JoinInv, ToldInv, [Next]_vars, NEW t \in Tab, Page(t)
  PROVE  ToldInv'
<1>1. CASE Receive(t)
  BY <1>1, ReceiveTold
<1>2. CASE Click(t) \/ Fetched(t) \/ FetchFails(t)
  <2> SUFFICES ASSUME NEW d \in Conn, Hears(d)'
               PROVE  ReplayFirst(d)' /\ JoinFirst(d)' /\ AskSettled(d)'
    BY DEF ToldInv
  <2>1. UNCHANGED <<conn, queue, lossy, sock, fresh, prompt, shown, subs, accepted>>
    BY <1>2 DEF Click, Fetched, FetchFails
  <2>2. Hears(d) /\ Pending(d)' = Pending(d)
    BY <2>1 DEF Hears, Pending
  <2>3. QED  BY <2>1, <2>2, JoinShrinks, FrameTold
<1>3. CASE SeeClose(t)
  <2> SUFFICES ASSUME NEW d \in Conn, Hears(d)'
               PROVE  ReplayFirst(d)' /\ JoinFirst(d)' /\ AskSettled(d)'
    BY DEF ToldInv
  <2>1. /\ UNCHANGED <<conn, queue, lossy, prompt, shown, subs, accepted>>
        /\ sock' = [sock EXCEPT ![t] = NoConn] /\ fresh' = fresh \ {t}
    BY <1>3 DEF SeeClose
  <2>2. Hears(d) /\ Pending(d)' \subseteq Pending(d)
    BY <2>1 DEF Hears, Pending, TypeOK
  <2>3. QED  BY <2>1, <2>2, JoinShrinks, FrameTold
<1>4. ASSUME NEW c \in Conn, Open(t, c)
      PROVE  ToldInv'
  <2> SUFFICES ASSUME NEW d \in Conn, Hears(d)'
               PROVE  ReplayFirst(d)' /\ JoinFirst(d)' /\ AskSettled(d)'
    BY DEF ToldInv
  <2>1. /\ sock[t] = NoConn /\ conn[c] = "fresh" /\ Owner[c] = t
        /\ conn' = [conn EXCEPT ![c] = "open"] /\ sock' = [sock EXCEPT ![t] = c]
        /\ UNCHANGED <<queue, lossy, fresh, prompt, shown, subs, accepted>>
    BY <1>4 DEF Open
  <2>2. CASE d # c
    <3>1. Hears(d) /\ Pending(d)' \subseteq Pending(d)
      BY <2>1, <2>2 DEF Hears, Pending, TypeOK
    <3>2. QED  BY <2>1, <2>2, <3>1, JoinShrinks, FrameTold
  <2>3. CASE d = c
    <3>1. queue'[c] = <<>>
      BY <2>1 DEF SocketInv
    <3>2. Pending(c)' = {}
      <4> SUFFICES ASSUME NEW u \in Pending(c)' PROVE FALSE
        OBVIOUS
      <4>1. u \in fresh /\ u \in Tab /\ sock'[u] = c
        BY <2>1 DEF Pending, TypeOK
      <4>2. u # t
        BY <2>1, <4>1 DEF SocketInv
      <4>3. sock[u] = c /\ c # NoConn
        BY <2>1, <4>1, <4>2 DEF TypeOK
      <4>4. QED  BY <2>1, <4>1, <4>2, <4>3 DEF SocketInv
    <3>3. c \notin subs'
      BY <2>1 DEF JoinInv
    <3>4. DOMAIN queue'[c] = {}
      BY <3>1
    <3>5. QED  BY <2>3, <3>2, <3>3, <3>4 DEF ReplayFirst, JoinFirst, AskSettled
  <2>4. QED  BY <2>2, <2>3
<1>5. QED  BY <1>1, <1>2, <1>3, <1>4 DEF Page

LEMMA ToldNext ==
  TypeOK /\ AskedInv /\ SocketInv /\ JoinInv /\ ToldInv /\ [Next]_vars => ToldInv'
<1> SUFFICES ASSUME TypeOK, AskedInv, SocketInv, JoinInv, ToldInv, [Next]_vars
             PROVE  ToldInv'
  OBVIOUS
<1>0. subs \in SUBSET Conn
  BY DEF TypeOK
<1>1. CASE Start
  <2>1. "running" \in ToTab
    BY DEF ToTab
  <2>2. QED  BY <1>0, <1>1, <2>1, BroadcastTold DEF Start
<1>2. CASE Finish
  <2>1. "over" \in ToTab
    BY DEF ToTab
  <2>2. QED  BY <1>0, <1>2, <2>1, BroadcastTold DEF Finish
<1>3. CASE Ask
  <2> DEFINE messages == [d \in subs |-> About("ask", asked + 1)]
  <2>1. asked \in Nat /\ asked + 1 \in 0..Questions
    BY <1>3 DEF Ask, TypeOK
  <2>2. messages \in [subs -> Message(ToTab)]
    BY <2>1, AboutType DEF ToTab
  <2>3. /\ Put(messages)
        /\ UNCHANGED <<conn, sock, fresh, prompt, shown, subs, accepted>>
    BY <1>3 DEF Ask, Broadcast
  <2>4. PICK k : k = asked + 1
    OBVIOUS
  <2>5. ~Answered(k)'
    <3>1. \A i \in DOMAIN accepted : accepted[i] <= asked
      BY DEF AskedInv, AskedAccepted, Asked
    <3>2. \A i \in DOMAIN accepted : accepted[i] \in Nat
      BY DEF TypeOK
    <3>3. QED  BY <2>1, <2>3, <2>4, <3>1, <3>2 DEF Answered
  <2>6. \A d \in subs : messages[d].kind = "ask" /\ messages[d].ask = k
    BY <2>4 DEF About
  <2>7. PICK D, ms : D = subs /\ ms = messages
    OBVIOUS
  <2> HIDE DEF messages
  <2>8. D \in SUBSET Conn /\ ms \in [D -> Message(ToTab)] /\ Put(ms)
    BY <1>0, <2>2, <2>3, <2>7
  <2>9. \A d \in D : /\ ms[d].kind # "replay"
                     /\ ms[d].kind = "ask" => d \in subs /\ ~Answered(ms[d].ask)'
    BY <2>5, <2>6, <2>7
  <2>10. QED  BY <2>3, <2>8, <2>9, JoinShrinks, PutTold
<1>4. ASSUME NEW c \in Conn, Cut(c)
      PROVE  ToldInv'
  <2> SUFFICES ASSUME NEW d \in Conn, Hears(d)'
               PROVE  ReplayFirst(d)' /\ JoinFirst(d)' /\ AskSettled(d)'
    BY DEF ToldInv
  <2>1. UNCHANGED <<sock, fresh, prompt, shown, subs, accepted>> /\ conn' = [conn EXCEPT ![c] = "cut"]
    BY <1>4 DEF Cut
  <2>2. d # c /\ queue'[d] = queue[d] /\ Hears(d)
    BY <1>4, <2>1 DEF Cut, Hears, TypeOK
  <2>3. Pending(d)' = Pending(d)
    BY <2>1 DEF Pending
  <2>4. QED  BY <2>1, <2>2, <2>3, JoinShrinks, FrameTold
<1>5. CASE UNCHANGED vars
  BY <1>5 DEF ToldInv, Hears, ReplayFirst, JoinFirst, AskSettled, Joining, Subscribing, Pending,
              Settled, Answered
<1>6. QED  BY <1>1, <1>2, <1>3, <1>4, <1>5, ReaderTold, PageTold DEF Next

\* broadcast_prompt_answered comes before the dispatch of an answer
\* (frontend_router.py, submit_answer): a tab that has received everything its
\* connection was sent offers no question whose answer was accepted.
THEOREM AnswerKnown == Spec => []AnsweredIsTold
<1>1. Init => SocketInv /\ JoinInv /\ AskedInv /\ ToldInv
  <2> SUFFICES ASSUME Init PROVE SocketInv /\ JoinInv /\ AskedInv /\ ToldInv
    OBVIOUS
  <2>1. SocketInv /\ JoinInv /\ ToldInv
    BY DEF Init, SocketInv, JoinInv, ToldInv, Hears
  <2>2. AskedInv
    BY DEF Init, AskedInv, AskedOut, AskedIn, AskedTabs, AskedAccepted, Asked, NoForm
  <2>3. QED  BY <2>1, <2>2
<1>2. QED
  BY <1>1, TypeCorrect, SocketNext, JoinNext, AskedNext, ToldNext, ToldImplies, PTL DEF Spec
=============================================================================
