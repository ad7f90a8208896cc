------------------------- MODULE SequencePage_proofs -------------------------
(***************************************************************************)
(* Proofs about SequencePage, for any sequences, bounds and users: the      *)
(* types, what the page starts, and that what it shows of a sequence is     *)
(* what the server made of it.                                              *)
(***************************************************************************)
EXTENDS SequencePage, FiniteSetTheorems, TLAPS

USE SequencePageAssumption

-----------------------------------------------------------------------------
(* The two tables of commands.                                               *)

Parameter == {"phase", "plan", "task", "name"}

LEMMA RequiredIs ==
  \A c \in DOMAIN Required :
    Required[c] = CASE c \in {"research-phase", "discuss-phase", "plan-phase", "execute-phase",
                              "verify-phase", "plan-phase-gaps", "plan-phase-reviews",
                              "check-plan", "uat"} -> {"phase"}
                    [] c = "execute-plan" -> {"phase", "plan"}
                    [] c = "quick" -> {"task"}
                    [] c = "new-milestone" -> {"name"}
                    [] OTHER -> {}
BY DEF Required, Project, PhaseLifecycle, Execution, Milestone

LEMMA PlaceholderIs ==
  \A c \in DOMAIN Placeholder :
    Placeholder[c] = CASE c \in {"research-phase", "discuss-phase", "plan-phase", "execute-phase",
                                 "verify-phase", "plan-phase-gaps", "plan-phase-reviews",
                                 "check-plan", "uat"} -> {"phase"}
                       [] c = "execute-plan" -> {"phase", "plan"}
                       [] c = "quick" -> {"task"}
                       [] c = "new-milestone" -> {"name"}
                       [] OTHER -> {}
BY DEF Placeholder, NoParameter, OfPhase

\* The page asks for every placeholder of the server's template of a command.
LEMMA TablesAgree ==
  ASSUME NEW c \in DOMAIN Required, NEW filled, Required[c] \subseteq filled
  PROVE  Expand(c, filled) = {}
BY RequiredIs, PlaceholderIs DEF Expand

LEMMA ExpandType ==
  ASSUME NEW c, NEW filled
  PROVE  Expand(c, filled) \subseteq Parameter
BY PlaceholderIs DEF Expand, Parameter

LEMMA PresetType ==
  ASSUME NEW p \in DOMAIN Preset
  PROVE  Preset[p] \in Seq(DOMAIN Required)
<1>1. DOMAIN Preset = {"new_project", "milestone_cycle"}
  BY DEF Preset
<1>2. {"new-project", "define-requirements", "create-roadmap", "discuss-phase", "plan-phase",
       "execute-phase", "verify-phase"} \subseteq DOMAIN Required
  BY DEF Required, Project, PhaseLifecycle, Execution, Milestone
<1>3. QED
  <2>0. PICK D : D = DOMAIN Required
    OBVIOUS
  <2>1. CASE p = "new_project"
    <3>1. Preset[p] = <<"new-project", "define-requirements", "create-roadmap">>
      BY <2>1 DEF Preset
    <3>2. QED  BY <1>2, <2>0, <3>1
  <2>2. CASE p = "milestone_cycle"
    <3>1. Preset[p] = <<"discuss-phase", "plan-phase", "execute-phase", "verify-phase">>
      BY <2>2 DEF Preset
    <3>2. QED  BY <1>2, <2>0, <3>1
  <2>3. QED  BY <1>1, <2>1, <2>2

-----------------------------------------------------------------------------
(* Sequences: what arrives, what is taken from the head, what is removed.    *)

\* What is at an index of a sequence after its head is taken.
LEMMA TailFacts ==
  ASSUME NEW S, NEW q \in Seq(S), q # <<>>
  PROVE  /\ Head(q) = q[1] /\ 1 \in DOMAIN q /\ Tail(q) \in Seq(S)
         /\ DOMAIN q \subseteq Nat \ {0} /\ DOMAIN Tail(q) \subseteq Nat \ {0}
         /\ \A i \in DOMAIN Tail(q) : i + 1 \in DOMAIN q /\ Tail(q)[i] = q[i + 1]
         /\ \A j \in DOMAIN q : 1 < j => j - 1 \in DOMAIN Tail(q) /\ Tail(q)[j - 1] = q[j]
BY SMTT(30)

LEMMA ConcatFacts ==
  ASSUME NEW S, NEW q \in Seq(S), NEW r \in Seq(S)
  PROVE  /\ q \o r \in Seq(S) /\ Len(q \o r) = Len(q) + Len(r)
         /\ \A i \in DOMAIN q : i \in DOMAIN (q \o r) /\ (q \o r)[i] = q[i]
         /\ \A i \in DOMAIN r : Len(q) + i \in DOMAIN (q \o r) /\ (q \o r)[Len(q) + i] = r[i]
         /\ \A i \in DOMAIN (q \o r) :
              i \in DOMAIN q \/ (i - Len(q) \in DOMAIN r /\ (q \o r)[i] = r[i - Len(q)])
BY SMTT(30)

LEMMA RemoveFacts ==
  ASSUME NEW S, NEW q \in Seq(S), NEW i \in DOMAIN q
  PROVE  /\ RemoveAt(q, i) \in Seq(S) /\ Len(RemoveAt(q, i)) < Len(q)
         /\ \A k \in DOMAIN RemoveAt(q, i) : \E n \in DOMAIN q : RemoveAt(q, i)[k] = q[n]
         /\ \A n \in DOMAIN q : n # i => \E k \in DOMAIN RemoveAt(q, i) : RemoveAt(q, i)[k] = q[n]
<1> DEFINE front == SubSeq(q, 1, i - 1)
           back == SubSeq(q, i + 1, Len(q))
<1>1. i \in 1..Len(q) /\ Len(q) \in Nat
  OBVIOUS
<1>2. /\ front \in Seq(S) /\ Len(front) = i - 1
      /\ \A k \in DOMAIN front : k \in DOMAIN q /\ k < i /\ front[k] = q[k]
      /\ \A n \in DOMAIN q : n < i => n \in DOMAIN front
  BY <1>1
<1>3. /\ back \in Seq(S) /\ Len(back) = Len(q) - i
      /\ \A k \in DOMAIN back : k + i \in DOMAIN q /\ back[k] = q[k + i]
      /\ \A n \in DOMAIN q : n > i => n - i \in DOMAIN back
  BY SMTT(30), <1>1
<1>4. RemoveAt(q, i) = front \o back
  BY DEF RemoveAt
<1> HIDE DEF front, back
<1>5. RemoveAt(q, i) \in Seq(S) /\ Len(RemoveAt(q, i)) < Len(q)
  BY <1>1, <1>2, <1>3, <1>4, ConcatFacts
<1>6. \A k \in DOMAIN (front \o back) : \E n \in DOMAIN q : (front \o back)[k] = q[n]
  <2> SUFFICES ASSUME NEW k \in DOMAIN (front \o back)
               PROVE  \E n \in DOMAIN q : (front \o back)[k] = q[n]
    OBVIOUS
  <2>0. /\ \A j \in DOMAIN front : (front \o back)[j] = front[j]
        /\ \A j \in DOMAIN (front \o back) :
             j \in DOMAIN front \/ (j - Len(front) \in DOMAIN back /\ (front \o back)[j] = back[j - Len(front)])
    <3>1. front \in Seq(S) /\ back \in Seq(S)
      BY <1>2, <1>3
    <3>2. QED  BY ONLY <3>1, ConcatFacts
  <2>1. CASE k \in DOMAIN front
    BY <1>2, <2>0, <2>1
  <2>2. CASE k - Len(front) \in DOMAIN back /\ (front \o back)[k] = back[k - Len(front)]
    BY <1>3, <2>2
  <2>3. QED  BY <2>0, <2>1, <2>2
<1>7. \A n \in DOMAIN q : n # i => \E k \in DOMAIN (front \o back) : (front \o back)[k] = q[n]
  <2> SUFFICES ASSUME NEW n \in DOMAIN q, n # i
               PROVE  \E k \in DOMAIN (front \o back) : (front \o back)[k] = q[n]
    OBVIOUS
  <2>0. n \in Nat /\ i \in Nat
    BY <1>1
  <2>1. CASE n < i
    BY <1>2, <1>3, <2>1, ConcatFacts
  <2>2. CASE n > i
    <3>1. n - i \in DOMAIN back /\ back[n - i] = q[n]
      BY <1>3, <2>0, <2>2
    <3>2. PICK k : k = n - i
      OBVIOUS
    <3>3. k \in DOMAIN back /\ back[k] = q[n]
      BY <3>1, <3>2
    <3>4. \A j \in DOMAIN back : /\ Len(front) + j \in DOMAIN (front \o back)
                                /\ (front \o back)[Len(front) + j] = back[j]
      <4>1. front \in Seq(S) /\ back \in Seq(S)
        BY <1>2, <1>3
      <4>2. QED  BY ONLY <4>1, ConcatFacts
    <3>5. QED  BY <3>3, <3>4
  <2>3. QED  BY <2>0, <2>1, <2>2
<1>8. QED  BY <1>4, <1>5, <1>6, <1>7

\* The messages of a set in some order are all there, once each.
LEMMA SetToSeqsFacts ==
  ASSUME NEW S, IsFiniteSet(S), NEW f \in SetToSeqs(S)
  PROVE  /\ f \in Seq(S)
         /\ \A x \in S : \E i \in DOMAIN f : f[i] = x
<1> DEFINE n == Cardinality(S)
<1>1. n \in Nat
  BY FS_CardinalityType
<1>3. f \in [1..n -> S] /\ IsInjective(f)
  BY DEF SetToSeqs, IsInjective
<1>4. f \in Injection(1..n, S)
  BY <1>3 DEF Injection
<1>5. IsFiniteSet(1..n) /\ Cardinality(1..n) = n
  BY <1>1, FS_Interval
<1>6. f \in Surjection(1..n, S)
  BY <1>4, <1>5, FS_Injection
<1>7. DOMAIN f = 1..n
  BY <1>3
<1>8. \A x \in S : \E i \in DOMAIN f : f[i] = x
  BY <1>6, <1>7 DEF Surjection
<1>9. f \in Seq(S)
  BY <1>1, <1>3
<1>10. QED  BY <1>8, <1>9

\* The image of a finite set is finite.
LEMMA FiniteImage ==
  ASSUME NEW S, IsFiniteSet(S), NEW f, DOMAIN f = S
  PROVE  IsFiniteSet({f[x] : x \in S})
<1> DEFINE T == {f[x] : x \in S}
           g == [x \in S |-> f[x]]
<1>1. g \in Surjection(S, T)
  BY DEF Surjection
<1>2. QED  BY <1>1, FS_Surjection

-----------------------------------------------------------------------------
(* Types.                                                                    *)

State == {"none", "done", "error"} \cup Ongoing
Life == [state : State, step : 0..MaxSteps, total : 0..MaxSteps, auto : BOOLEAN]
Broadcasts == [kind : {"started", "completed", "done", "error"}, seq : Sequence,
               step : 0..MaxSteps, auto : BOOLEAN]
Shows == [seq : Sequence, step : 1..MaxSteps, status : {"running", "paused", "done", "error"}]
QueuedStep == [command : DOMAIN Required, filled : SUBSET UNION {Required[c] : c \in DOMAIN Required}]

LifeOK == life \in [Sequence -> Life]

\* A sequence is at one of its steps, and paused only before a further one.
LifeInv ==
  \A s \in Sequence :
    /\ life[s].state = "none" => life[s] = Unborn
    /\ life[s].state # "none" => life[s].step \in 1..life[s].total
    /\ life[s].state = "paused" => life[s].step < life[s].total

ShortQueue == Len(queue) <= MaxSteps

\* A broadcast of a step names a step.
StepsNamed ==
  \A i \in DOMAIN inbox : inbox[i].kind \in {"started", "completed"} => inbox[i].step > 0

\* A task that still reports its cancellation belongs to a sequence that failed.
EchoInv == \A s \in echo : life[s].state = "error"

ServerOK ==
  /\ echo \subseteq Sequence /\ missed \subseteq Sequence /\ inbox \in Seq(Broadcasts)
  /\ faults \in 0..MaxFaults
PageOK ==
  /\ dismissed \subseteq Sequence
  /\ socket \in {"open", "dead", "closed"}
  /\ autoMode \in BOOLEAN /\ queue \in Seq(QueuedStep)
  /\ selected \in DOMAIN Preset \cup {None}
  /\ entries \in Seq(Shows) /\ unfilled \subseteq Parameter

TypeInv == LifeOK /\ LifeInv /\ ServerOK /\ EchoInv /\ PageOK /\ ShortQueue /\ StepsNamed

LEMMA TypeImplies == TypeInv => PageTypeOK
BY DEF TypeInv, LifeOK, Life, State, ServerOK, PageOK, Broadcasts, Shows, QueuedStep, Parameter,
       PageTypeOK

LEMMA TypeInit == PageInit => TypeInv
<1> SUFFICES ASSUME PageInit PROVE TypeInv
  OBVIOUS
<1>1. \A S : <<>> \in Seq(S)
  OBVIOUS
<1>2. Len(<<>>) = 0 /\ DOMAIN <<>> = {}
  OBVIOUS
<1>3. Unborn \in Life
  BY DEF Unborn, Life, State
<1>4. LifeOK /\ LifeInv
  BY <1>3 DEF PageInit, LifeInit, LifeOK, LifeInv, Unborn
<1>5. ServerOK /\ StepsNamed /\ EchoInv
  BY <1>1, <1>2 DEF PageInit, ServerOK, StepsNamed, EchoInv
<1>6. PageOK
  <2>1. autoMode \in BOOLEAN
    BY DEF PageInit
  <2>2. faults \in 0..MaxFaults /\ socket \in {"open", "dead", "closed"}
    BY DEF PageInit
  <2>3. queue \in Seq(QueuedStep) /\ entries \in Seq(Shows)
    BY <1>1 DEF PageInit
  <2>4. dismissed \subseteq Sequence /\ selected \in DOMAIN Preset \cup {None} /\ unfilled \subseteq Parameter
    BY DEF PageInit
  <2>5. QED  BY <2>1, <2>2, <2>3, <2>4 DEF PageOK
<1>7. ShortQueue
  BY <1>2 DEF PageInit, ShortQueue
<1>8. QED  BY <1>4, <1>5, <1>6, <1>7 DEF TypeInv

\* The life of a sequence, whoever moves it.
LEMMA StartLife ==
  ASSUME LifeOK, LifeInv, NEW s \in Sequence, NEW n \in 1..MaxSteps, NEW auto \in BOOLEAN,
         Start(s, n, auto)
  PROVE  LifeOK' /\ LifeInv'
<1> DEFINE born == [state |-> "new", step |-> 1, total |-> n, auto |-> auto]
<1>1. born \in Life /\ born.state = "new" /\ born.step \in 1..born.total
  BY DEF Life, State, Ongoing
<1>2. life' = [life EXCEPT ![s] = born]
  BY DEF Start
<1> HIDE DEF born
<1>3. LifeOK'
  BY <1>1, <1>2 DEF LifeOK
<1>4. \A u \in Sequence : life'[u] = IF u = s THEN born ELSE life[u]
  BY <1>2 DEF LifeOK
<1>5. QED  BY <1>1, <1>3, <1>4 DEF LifeInv

Moves(s) == Enter(s) \/ Complete(s) \/ Advance(s) \/ Finish(s) \/ Fail(s)

LEMMA MoveLife ==
  ASSUME LifeOK, LifeInv, NEW s \in Sequence, Moves(s)
  PROVE  /\ LifeOK' /\ LifeInv'
         /\ \A u \in Sequence : u # s => life'[u] = life[u]
         /\ life[s].state \in Ongoing /\ life'[s].state # "none" /\ life'[s].auto = life[s].auto
<1>1. /\ life[s] \in Life
      /\ life[s].step \in 0..MaxSteps /\ life[s].total \in 0..MaxSteps
      /\ life[s].state # "none" => life[s].step \in 1..life[s].total
      /\ life[s].state = "paused" => life[s].step < life[s].total
  BY DEF LifeOK, LifeInv, Life
<1>2. PICK l : life' = [life EXCEPT ![s] = l] /\ l = life'[s]
  BY DEF Moves, Enter, Complete, Advance, Finish, Fail, LifeOK
<1>3. /\ l \in Life /\ life[s].state \in Ongoing
      /\ l.state # "none" /\ l.step \in 1..l.total /\ l.auto = life[s].auto
      /\ l.state = "paused" => l.step < l.total
  <2>1. CASE Enter(s)
    BY <1>1, <1>2, <2>1 DEF Enter, Life, State, Ongoing, LifeOK
  <2>2. CASE Complete(s)
    BY <1>1, <1>2, <2>2 DEF Complete, Life, State, Ongoing, LifeOK
  <2>3. CASE Advance(s)
    BY <1>1, <1>2, <2>3 DEF Advance, Life, State, Ongoing, LifeOK
  <2>4. CASE Finish(s)
    BY <1>1, <1>2, <2>4 DEF Finish, Life, State, Ongoing, LifeOK
  <2>5. CASE Fail(s)
    BY <1>1, <1>2, <2>5 DEF Fail, Life, State, Ongoing, LifeOK
  <2>6. QED  BY <2>1, <2>2, <2>3, <2>4, <2>5 DEF Moves
<1>4. LifeOK'
  BY <1>2, <1>3 DEF LifeOK
<1>5. \A u \in Sequence : life'[u] = IF u = s THEN l ELSE life[u]
  BY <1>2 DEF LifeOK
<1>6. LifeInv'
  BY <1>3, <1>5 DEF LifeInv
<1>7. QED  BY <1>3, <1>4, <1>5, <1>6

LEMMA FailAllLife ==
  ASSUME LifeOK, LifeInv, FailAll
  PROVE  /\ LifeOK' /\ LifeInv'
         /\ \A s \in Sequence :
              /\ life[s].state \in Ongoing => life'[s] = [life[s] EXCEPT !.state = "error"]
              /\ life[s].state \notin Ongoing => life'[s] = life[s]
<1>1. \A s \in Sequence :
        /\ life[s].state \in Ongoing => life'[s] = [life[s] EXCEPT !.state = "error"]
        /\ life[s].state \notin Ongoing => life'[s] = life[s]
  BY DEF FailAll
<1>2. \A s \in Sequence : life[s] \in Life
  BY DEF LifeOK
<1>3. \A s \in Sequence : life'[s] \in Life
  <2> SUFFICES ASSUME NEW s \in Sequence PROVE life'[s] \in Life
    OBVIOUS
  <2>1. PICK l : l = life[s] /\ l \in Life
    BY <1>2
  <2>2. [l EXCEPT !.state = "error"] \in Life
    BY <2>1 DEF Life, State
  <2>3. QED  BY <1>1, <2>1, <2>2
<1>4. LifeOK'
  BY <1>3 DEF LifeOK, FailAll
<1>5. ASSUME NEW s \in Sequence
      PROVE  /\ life'[s].state = "none" => life'[s] = Unborn
             /\ life'[s].state # "none" => life'[s].step \in 1..life'[s].total
             /\ life'[s].state = "paused" => life'[s].step < life'[s].total
  <2>1. CASE life[s].state \in Ongoing
    <3>1. /\ life'[s].state = "error" /\ life'[s].step = life[s].step
          /\ life'[s].total = life[s].total
      BY <1>1, <1>2, <2>1 DEF Life
    <3>2. QED  BY <2>1, <3>1 DEF LifeInv, Ongoing
  <2>2. CASE life[s].state \notin Ongoing
    BY <1>1, <2>2 DEF LifeInv
  <2>3. QED  BY <2>1, <2>2
<1>6. LifeInv'
  BY <1>5 DEF LifeInv
<1>7. QED  BY <1>1, <1>4, <1>6

\* The message about a sequence that lives.
LEMMA MessageType ==
  ASSUME LifeOK, LifeOK', LifeInv', NEW s \in Sequence, NEW kind \in {"started", "completed", "done", "error"}
  PROVE  /\ Message(kind, s) \in Broadcasts
         /\ Message(kind, s).kind = kind /\ Message(kind, s).seq = s
         /\ Message(kind, s).step = life'[s].step /\ Message(kind, s).auto = life[s].auto
         /\ life'[s].state # "none" => Message(kind, s).step > 0
<1>1. life[s] \in Life /\ life'[s] \in Life
  BY DEF LifeOK
<1>2. life[s].auto \in BOOLEAN /\ life'[s].step \in 0..MaxSteps
  BY <1>1 DEF Life
<1>3. life'[s].state # "none" => life'[s].step > 0
  BY <1>2 DEF LifeInv
<1>4. QED  BY <1>2, <1>3 DEF Message, Broadcasts

Named(m) == m.kind \in {"started", "completed"} => m.step > 0

\* Of what is broadcast the tab gets the first messages, and misses the others.
LEMMA BroadcastIs ==
  ASSUME NEW ms \in Seq(Broadcasts), Broadcast(ms)
  PROVE  \E kept \in Seq(Broadcasts) :
           /\ inbox' = inbox \o kept
           /\ \A i \in DOMAIN kept : i \in DOMAIN ms /\ kept[i] = ms[i]
           /\ missed \subseteq missed'
           /\ \A i \in DOMAIN ms : i \in DOMAIN kept \/ ms[i].seq \in missed'
<1>1. PICK k \in 0..Len(ms) :
         /\ inbox' = inbox \o [n \in 1..k |-> ms[n]]
         /\ missed' = missed \cup {ms[n].seq : n \in (k + 1)..Len(ms)}
  BY DEF Broadcast
<1>2. PICK kept : kept = [n \in 1..k |-> ms[n]]
  OBVIOUS
<1>3. k \in Nat /\ Len(ms) \in Nat /\ k <= Len(ms) /\ DOMAIN ms = 1..Len(ms)
  OBVIOUS
<1>4. DOMAIN kept = 1..k /\ \A i \in 1..k : i \in DOMAIN ms /\ kept[i] = ms[i]
  BY <1>2, <1>3
<1>5. kept \in Seq(Broadcasts)
  BY <1>2, <1>3
<1>6. \A i \in DOMAIN ms : i \in 1..k \/ i \in (k + 1)..Len(ms)
  BY <1>3
<1>7. QED  BY <1>1, <1>2, <1>4, <1>5, <1>6

LEMMA FaultType ==
  ASSUME ServerOK, Fault \/ UNCHANGED faults
  PROVE  faults' \in 0..MaxFaults
BY SequencePageAssumption DEF ServerOK, Fault

LEMMA BroadcastType ==
  ASSUME ServerOK, StepsNamed, NEW ms \in Seq(Broadcasts), Broadcast(ms),
         \A i \in DOMAIN ms : Named(ms[i]),
         echo' \subseteq Sequence
  PROVE  ServerOK' /\ StepsNamed'
<1>1. PICK kept \in Seq(Broadcasts) :
         /\ inbox' = inbox \o kept
         /\ \A i \in DOMAIN kept : i \in DOMAIN ms /\ kept[i] = ms[i]
  BY BroadcastIs
<1>2. inbox \in Seq(Broadcasts) /\ inbox' \in Seq(Broadcasts)
  BY <1>1, ConcatFacts DEF ServerOK
<1>3. StepsNamed'
  <2>1. \A i \in DOMAIN inbox' :
          i \in DOMAIN inbox \/ (i - Len(inbox) \in DOMAIN kept /\ inbox'[i] = kept[i - Len(inbox)])
    BY <1>1, <1>2, ConcatFacts
  <2>2. \A i \in DOMAIN inbox : inbox'[i] = inbox[i]
    BY <1>1, <1>2, ConcatFacts
  <2>3. \A i \in DOMAIN inbox' : Named(inbox'[i])
    BY <1>1, <2>1, <2>2 DEF StepsNamed, Named
  <2>4. QED  BY <2>3 DEF StepsNamed, Named
<1>4. missed' \subseteq Sequence
  <2>1. PICK k \in 0..Len(ms) : missed' = missed \cup {ms[n].seq : n \in (k + 1)..Len(ms)}
    BY DEF Broadcast
  <2>2. \A n \in (k + 1)..Len(ms) : n \in DOMAIN ms
    OBVIOUS
  <2>3. \A n \in DOMAIN ms : ms[n] \in Broadcasts
    OBVIOUS
  <2>4. \A m \in Broadcasts : m.seq \in Sequence
    BY DEF Broadcasts
  <2>5. QED  BY <2>1, <2>2, <2>3, <2>4 DEF ServerOK
<1>5. faults' \in 0..MaxFaults
  BY FaultType DEF Broadcast
<1>6. QED  BY <1>2, <1>3, <1>4, <1>5 DEF ServerOK

-----------------------------------------------------------------------------
(* The broadcasts of each server action.                                     *)

\* What an action of the server about s tells the tabs.
LEMMA OneMessage ==
  ASSUME ServerOK, StepsNamed, LifeOK, LifeOK', LifeInv', NEW s \in Sequence,
         life'[s].state # "none",
         NEW kind \in {"started", "completed", "done", "error"},
         Broadcast(<<Message(kind, s)>>), echo' \subseteq Sequence
  PROVE  ServerOK' /\ StepsNamed'
<1>1. PICK m : m = Message(kind, s)
  OBVIOUS
<1>2. m \in Broadcasts /\ m.step > 0
  BY <1>1, MessageType
<1>3. <<m>> \in Seq(Broadcasts) /\ \A i \in DOMAIN <<m>> : Named(<<m>>[i])
  BY <1>2 DEF Named
<1>4. Broadcast(<<m>>)
  BY <1>1
<1>5. QED  BY <1>3, <1>4, BroadcastType

LEMMA TwoMessages ==
  ASSUME ServerOK, StepsNamed, NEW m \in Broadcasts, NEW n \in Broadcasts, m.step > 0, n.step > 0,
         Broadcast(<<m, n>>), echo' \subseteq Sequence
  PROVE  ServerOK' /\ StepsNamed'
<1>1. <<m, n>> \in Seq(Broadcasts) /\ \A i \in DOMAIN <<m, n>> : Named(<<m, n>>[i])
  BY DEF Named
<1>2. QED  BY <1>1, BroadcastType

\* The completion of a step tells of the step before the one entered next.
CompletedOf(s) == [Message("completed", s) EXCEPT !.step = life[s].step]

LEMMA CompletedType ==
  ASSUME LifeOK, LifeOK', LifeInv, LifeInv', NEW s \in Sequence, life[s].state # "none"
  PROVE  /\ CompletedOf(s) \in Broadcasts
         /\ CompletedOf(s).kind = "completed" /\ CompletedOf(s).seq = s
         /\ CompletedOf(s).step = life[s].step /\ CompletedOf(s).auto = life[s].auto
         /\ CompletedOf(s).step > 0
<1>1. PICK m : m = Message("completed", s)
  OBVIOUS
<1>2. m \in Broadcasts /\ m.kind = "completed" /\ m.seq = s /\ m.auto = life[s].auto
  BY <1>1, MessageType
<1>3. life[s].step \in 0..MaxSteps /\ life[s].step > 0
  <2>1. life[s] \in Life
    BY DEF LifeOK
  <2>2. QED  BY <2>1 DEF Life, LifeInv
<1>4. CompletedOf(s) = [m EXCEPT !.step = life[s].step]
  BY <1>1 DEF CompletedOf
<1>5. QED  BY <1>2, <1>3, <1>4 DEF Broadcasts

LEMMA ServeSteps ==
  ASSUME TypeInv, NEW s \in Sequence,
         ServeEnter(s) \/ ServeComplete(s) \/ ServeFinish(s) \/ ServeFail(s) \/ ServeAdvance(s)
  PROVE  LifeOK' /\ LifeInv' /\ ServerOK' /\ StepsNamed'
<1>1. LifeOK /\ LifeInv /\ ServerOK /\ StepsNamed
  BY DEF TypeInv
<1>2. Moves(s)
  BY DEF Moves, ServeEnter, ServeComplete, ServeFinish, ServeFail, ServeAdvance
<1>3. /\ LifeOK' /\ LifeInv'
      /\ life[s].state \in Ongoing /\ life'[s].state # "none"
  BY <1>1, <1>2, MoveLife
<1>4. echo' = echo /\ echo' \subseteq Sequence
  BY <1>1 DEF ServerOK, ServeEnter, ServeComplete, ServeFinish, ServeFail, ServeAdvance
<1>5. CASE ServeEnter(s) \/ ServeAdvance(s)
  <2>1. Broadcast(<<Message("started", s)>>)
    BY <1>5 DEF ServeEnter, ServeAdvance
  <2>2. QED  BY <1>1, <1>3, <1>4, <2>1, OneMessage
<1>6. CASE ServeFail(s)
  <2>1. Broadcast(<<Message("error", s)>>)
    BY <1>6 DEF ServeFail
  <2>2. QED  BY <1>1, <1>3, <1>4, <2>1, OneMessage
<1>7. CASE ServeFinish(s)
  <2>1. PICK m, n : m = Message("completed", s) /\ n = Message("done", s)
    OBVIOUS
  <2>2. m \in Broadcasts /\ n \in Broadcasts /\ m.step > 0 /\ n.step > 0
    BY <1>1, <1>3, <2>1, MessageType
  <2>3. Broadcast(<<m, n>>)
    BY <1>7, <2>1 DEF ServeFinish
  <2>4. QED  BY <1>1, <1>3, <1>4, <2>2, <2>3, TwoMessages
<1>8. CASE ServeComplete(s)
  <2>1. PICK m, n : m = CompletedOf(s) /\ n = Message("started", s)
    OBVIOUS
  <2>2. life[s].state # "none"
    BY <1>3 DEF Ongoing
  <2>3. m \in Broadcasts /\ m.step > 0
    BY <1>1, <1>3, <2>1, <2>2, CompletedType
  <2>4. n \in Broadcasts /\ n.step > 0
    BY <1>1, <1>3, <2>1, MessageType
  <2>5. Broadcast(IF life[s].auto THEN <<m, n>> ELSE <<m>>)
    BY <1>8, <2>1 DEF ServeComplete, CompletedOf
  <2>6. CASE life[s].auto
    BY <1>1, <1>3, <1>4, <2>3, <2>4, <2>5, <2>6, TwoMessages
  <2>7. CASE ~life[s].auto
    <3>1. <<m>> \in Seq(Broadcasts) /\ \A i \in DOMAIN <<m>> : Named(<<m>>[i])
      BY <2>3 DEF Named
    <3>2. Broadcast(<<m>>)
      BY <2>5, <2>7
    <3>3. QED  BY <1>1, <1>3, <1>4, <3>1, <3>2, BroadcastType
  <2>8. QED  BY <2>6, <2>7
<1>9. QED  BY <1>5, <1>6, <1>7, <1>8

\* The errors a lost node is reported with, in whatever order.
Lost == {s \in Sequence : life[s].state \in Ongoing}
ErrorOrders == SetToSeqs({Message("error", s) : s \in Lost})

LEMMA ErrorsAre ==
  ASSUME LifeOK, LifeOK', LifeInv', NEW q \in ErrorOrders
  PROVE  /\ q \in Seq(Broadcasts)
         /\ \A i \in DOMAIN q : q[i].kind = "error" /\ q[i].seq \in Lost
         /\ \A s \in Lost : \E i \in DOMAIN q : q[i] = Message("error", s)
<1> DEFINE f == [s \in Lost |-> Message("error", s)]
           S == {f[s] : s \in Lost}
<1>1. \A s \in Lost : f[s] = Message("error", s)
  OBVIOUS
<1>2. S = {Message("error", s) : s \in Lost}
  BY <1>1
<1>3. DOMAIN f = Lost
  OBVIOUS
<1> HIDE DEF f
<1>4. IsFiniteSet(Lost)
  BY FS_Subset DEF Lost
<1>5. IsFiniteSet(S)
  BY <1>3, <1>4, FiniteImage
<1>6. \A s \in Lost : f[s] \in Broadcasts /\ f[s].kind = "error" /\ f[s].seq = s
  BY <1>1, MessageType DEF Lost
<1>7. \A m \in S : m \in Broadcasts /\ m.kind = "error" /\ m.seq \in Lost
  BY <1>6
<1>8. q \in SetToSeqs(S)
  BY <1>2 DEF ErrorOrders
<1>9. \A s \in Lost : f[s] \in S
  OBVIOUS
<1> HIDE DEF S
<1>11. q \in Seq(S) /\ \A x \in S : \E i \in DOMAIN q : q[i] = x
  BY <1>5, <1>8, SetToSeqsFacts
<1>12. \A i \in DOMAIN q : q[i] \in S
  BY <1>11
<1>13. q \in Seq(Broadcasts)
  BY <1>7, <1>11, <1>12
<1>14. \A s \in Lost : \E i \in DOMAIN q : q[i] = f[s]
  BY <1>9, <1>11
<1>15. QED  BY <1>1, <1>7, <1>12, <1>13, <1>14

LEMMA ServeNodeLostType ==
  ASSUME TypeInv, ServeNodeLost
  PROVE  /\ LifeOK' /\ LifeInv' /\ ServerOK' /\ StepsNamed'
         /\ \E q \in ErrorOrders : Broadcast(q)
         /\ echo' = echo \cup {s \in Lost : life[s].state # "new"}
<1>1. LifeOK /\ LifeInv /\ ServerOK /\ StepsNamed /\ FailAll
  BY DEF TypeInv, ServeNodeLost
<1>2. LifeOK' /\ LifeInv'
  BY <1>1, FailAllLife
<1>3. (\E q \in ErrorOrders : Broadcast(q)) /\ echo' = echo \cup {s \in Lost : life[s].state # "new"}
  BY DEF ServeNodeLost, ErrorOrders, Lost
<1>4. echo' \subseteq Sequence
  BY <1>1, <1>3 DEF ServerOK, Lost
<1>5. PICK q \in ErrorOrders : Broadcast(q)
  BY <1>3
<1>6. /\ q \in Seq(Broadcasts) /\ Broadcast(q)
      /\ \A i \in DOMAIN q : Named(q[i])
  BY <1>1, <1>2, <1>3, <1>5, ErrorsAre DEF Named
<1>7. QED  BY <1>1, <1>2, <1>3, <1>4, <1>6, BroadcastType

LEMMA ServeEchoType ==
  ASSUME TypeInv, NEW s \in Sequence, ServeEcho(s)
  PROVE  LifeOK' /\ LifeInv' /\ ServerOK' /\ StepsNamed'
<1>1. /\ LifeOK /\ LifeInv /\ ServerOK /\ StepsNamed /\ EchoInv
      /\ life' = life /\ s \in echo /\ echo' = echo \ {s} /\ Broadcast(<<Message("error", s)>>)
  BY DEF TypeInv, ServeEcho
<1>2. LifeOK' /\ LifeInv'
  BY <1>1 DEF LifeOK, LifeInv
<1>3. life'[s].state # "none"
  BY <1>1 DEF EchoInv
<1>4. echo' \subseteq Sequence
  BY <1>1 DEF ServerOK
<1>5. QED  BY <1>1, <1>2, <1>3, <1>4, OneMessage

LEMMA PageKept ==
  ASSUME PageOK, ShortQueue, UnchangedPage
  PROVE  PageOK' /\ ShortQueue'
BY DEF PageOK, ShortQueue, UnchangedPage, builder

\* A sequence whose task still reports is over, so no step of the server moves it.
LEMMA EchoKept ==
  ASSUME TypeInv, NEW s \in Sequence,
         ServeEnter(s) \/ ServeComplete(s) \/ ServeFinish(s) \/ ServeFail(s) \/ ServeAdvance(s)
           \/ ServeEcho(s) \/ OtherStarts(s)
  PROVE  EchoInv'
<1>1. EchoInv /\ LifeOK /\ LifeInv /\ echo \subseteq Sequence
  BY DEF TypeInv, ServerOK
<1>2. CASE ServeEcho(s)
  BY <1>1, <1>2 DEF ServeEcho, EchoInv
<1>3. CASE OtherStarts(s)
  <2>1. PICK n \in 1..MaxQueue, auto \in BOOLEAN : Start(s, n, auto)
    BY <1>3 DEF OtherStarts
  <2>2. echo' = echo /\ life[s].state = "none" /\ \A u \in Sequence : u # s => life'[u] = life[u]
    BY <1>1, <1>3, <2>1 DEF OtherStarts, Start, LifeOK, Unborn
  <2>3. QED  BY <1>1, <2>2 DEF EchoInv
<1>4. CASE ~ServeEcho(s) /\ ~OtherStarts(s)
  <2>1. Moves(s) /\ echo' = echo
    BY <1>4 DEF Moves, ServeEnter, ServeComplete, ServeFinish, ServeFail, ServeAdvance
  <2>2. life[s].state \in Ongoing /\ \A u \in Sequence : u # s => life'[u] = life[u]
    BY <1>1, <2>1, MoveLife
  <2>3. QED  BY <1>1, <2>1, <2>2 DEF EchoInv, Ongoing
<1>5. QED  BY <1>2, <1>3, <1>4

\* Every action of the server.
ServerStep ==
  \/ \E s \in Sequence :
       \/ ServeEnter(s) \/ ServeComplete(s) \/ ServeFinish(s) \/ ServeFail(s) \/ ServeAdvance(s)
       \/ ServeEcho(s) \/ OtherStarts(s)
  \/ ServeNodeLost

LEMMA ServerType ==
  ASSUME TypeInv, ServerStep
  PROVE  TypeInv'
<1>1. UnchangedPage
  BY DEF ServerStep, ServeEnter, ServeComplete, ServeFinish, ServeFail, ServeAdvance, ServeEcho,
         OtherStarts, ServeNodeLost
<1>2. PageOK' /\ ShortQueue'
  BY <1>1, PageKept DEF TypeInv
<1>3. CASE ServeNodeLost
  <2>1. /\ LifeOK' /\ LifeInv' /\ ServerOK' /\ StepsNamed'
        /\ echo' = echo \cup {s \in Lost : life[s].state # "new"}
    BY <1>3, ServeNodeLostType
  <2>2. LifeOK /\ LifeInv /\ FailAll /\ EchoInv /\ echo \subseteq Sequence
    BY <1>3 DEF TypeInv, ServeNodeLost, ServerOK
  <2>3. \A s \in Sequence :
          /\ life[s].state \in Ongoing => life'[s] = [life[s] EXCEPT !.state = "error"]
          /\ life[s].state \notin Ongoing => life'[s] = life[s]
    BY <2>2, FailAllLife
  <2>4. EchoInv'
    <3> SUFFICES ASSUME NEW s \in echo' PROVE life'[s].state = "error"
      BY DEF EchoInv
    <3>1. s \in Sequence /\ life[s] \in Life
      BY <2>1, <2>2 DEF ServerOK, LifeOK
    <3>2. CASE s \in Lost
      BY <2>3, <3>1, <3>2 DEF Lost, Life
    <3>3. CASE s \notin Lost
      BY <2>1, <2>2, <2>3, <3>1, <3>3 DEF Lost, EchoInv
    <3>4. QED  BY <3>2, <3>3
  <2>5. QED  BY <1>2, <2>1, <2>4 DEF TypeInv
<1>4. ASSUME NEW s \in Sequence,
             ServeEnter(s) \/ ServeComplete(s) \/ ServeFinish(s) \/ ServeFail(s) \/ ServeAdvance(s)
               \/ ServeEcho(s) \/ OtherStarts(s)
      PROVE  TypeInv'
  <2>1. EchoInv'
    BY <1>4, EchoKept
  <2>2. LifeOK' /\ LifeInv' /\ ServerOK' /\ StepsNamed'
    <3>1. CASE ServeEcho(s)
      BY <3>1, ServeEchoType
    <3>2. CASE OtherStarts(s)
      <4>1. PICK n \in 1..MaxQueue, auto \in BOOLEAN : Start(s, n, auto)
        BY <3>2 DEF OtherStarts
      <4>2. n \in 1..MaxSteps
        OBVIOUS
      <4>3. LifeOK' /\ LifeInv'
        BY <4>1, <4>2, StartLife DEF TypeInv
      <4>4. echo' = echo /\ inbox' = inbox /\ missed' = missed /\ faults' = faults
        BY <3>2 DEF OtherStarts
      <4>5. QED  BY <4>3, <4>4 DEF TypeInv, ServerOK, StepsNamed
    <3>3. QED  BY <1>4, <3>1, <3>2, ServeSteps
  <2>3. QED  BY <1>2, <2>1, <2>2 DEF TypeInv
<1>5. QED  BY <1>3, <1>4 DEF ServerStep

-----------------------------------------------------------------------------
(* The store.                                                                *)

\* Put leaves one place to every sequence, and new contents to the one it is about.
LEMMA PutFacts ==
  ASSUME entries \in Seq(Shows), NEW e \in Shows, Put(e)
  PROVE  /\ entries' \in Seq(Shows)
         /\ \A i \in DOMAIN entries' :
              IF entries'[i].seq = e.seq THEN entries'[i] = e
                                         ELSE i \in DOMAIN entries /\ entries'[i] = entries[i]
         /\ \A i \in DOMAIN entries :
              /\ i \in DOMAIN entries' /\ entries'[i].seq = entries[i].seq
              /\ entries[i].seq # e.seq => entries'[i] = entries[i]
         /\ \E i \in DOMAIN entries' : entries'[i].seq = e.seq
<1>1. DOMAIN entries = 1..Len(entries) /\ Len(entries) \in Nat
  OBVIOUS
<1>2. \A i \in DOMAIN entries : entries[i] \in Shows
  OBVIOUS
<1>3. CASE Known(e.seq)
  <2>1. entries' = [i \in DOMAIN entries |-> IF entries[i].seq = e.seq THEN e ELSE entries[i]]
    BY <1>3 DEF Put
  <2>2. entries' \in Seq(Shows)
    BY <1>1, <1>2, <2>1
  <2>3. PICK i \in DOMAIN entries : entries[i].seq = e.seq
    BY <1>3 DEF Known, IndexOf
  <2>4. DOMAIN entries' = DOMAIN entries
    BY <2>1
  <2>5. QED  BY <2>1, <2>2, <2>3, <2>4
<1>4. CASE ~Known(e.seq)
  <2>1. entries' = Append(entries, e) /\ \A i \in DOMAIN entries : entries[i].seq # e.seq
    BY <1>4 DEF Put, Known, IndexOf
  <2>2. /\ entries' \in Seq(Shows) /\ Len(entries') = Len(entries) + 1
        /\ entries'[Len(entries) + 1] = e
        /\ \A i \in 1..Len(entries) : entries'[i] = entries[i]
    BY <2>1
  <2>3. DOMAIN entries' = 1..(Len(entries) + 1)
    BY <2>2
  <2>4. QED  BY <1>1, <2>1, <2>2, <2>3
<1>5. QED  BY <1>3, <1>4

LEMMA UpdateFacts ==
  ASSUME entries \in Seq(Shows), NEW u, NEW status \in {"running", "paused", "done", "error"},
         Update(u, status)
  PROVE  /\ entries' \in Seq(Shows)
         /\ DOMAIN entries' = DOMAIN entries
         /\ \A i \in DOMAIN entries :
              /\ entries'[i].seq = entries[i].seq /\ entries'[i].step = entries[i].step
              /\ entries'[i].status = IF entries[i].seq = u THEN status ELSE entries[i].status
<1>1. DOMAIN entries = 1..Len(entries) /\ Len(entries) \in Nat
  OBVIOUS
<1>2. entries' = [i \in DOMAIN entries |->
                    IF entries[i].seq = u THEN [entries[i] EXCEPT !.status = status] ELSE entries[i]]
  BY DEF Update
<1>3. \A i \in DOMAIN entries :
        /\ entries'[i] \in Shows
        /\ entries'[i].seq = entries[i].seq /\ entries'[i].step = entries[i].step
        /\ entries'[i].status = IF entries[i].seq = u THEN status ELSE entries[i].status
  <2> SUFFICES ASSUME NEW i \in DOMAIN entries
               PROVE  /\ entries'[i] \in Shows
                      /\ entries'[i].seq = entries[i].seq /\ entries'[i].step = entries[i].step
                      /\ entries'[i].status = IF entries[i].seq = u THEN status ELSE entries[i].status
    OBVIOUS
  <2>1. PICK e : e = entries[i]
    OBVIOUS
  <2>2. e \in Shows
    BY <2>1
  <2>3. entries'[i] = IF e.seq = u THEN [e EXCEPT !.status = status] ELSE e
    BY <1>2, <2>1
  <2>4. QED  BY <2>1, <2>2, <2>3 DEF Shows
<1>4. DOMAIN entries' = DOMAIN entries
  BY <1>2
<1>5. entries' \in Seq(Shows)
  BY <1>1, <1>2, <1>3, <1>4
<1>6. QED  BY <1>3, <1>4, <1>5

\* What a message at the head of the inbox makes of the entries.
ShownAs(m, status) == [seq |-> m.seq, step |-> m.step, status |-> status]

LEMMA ReceiveIs ==
  ASSUME TypeInv, Receive
  PROVE  LET m == Head(inbox) IN
         /\ m = inbox[1] /\ 1 \in DOMAIN inbox /\ m \in Broadcasts /\ Named(m)
         /\ \/ /\ m.kind = "started" /\ ShownAs(m, "running") \in Shows
               /\ Put(ShownAs(m, "running"))
            \/ /\ m.kind = "completed" /\ Known(m.seq) /\ ShownAs(m, StatusAfter(m)) \in Shows
               /\ Put(ShownAs(m, StatusAfter(m)))
            \/ m.kind = "completed" /\ ~Known(m.seq) /\ UNCHANGED entries
            \/ m.kind \in {"done", "error"} /\ Update(m.seq, m.kind)
<1>1. inbox \in Seq(Broadcasts) /\ inbox # <<>> /\ StepsNamed
  BY DEF TypeInv, ServerOK, Receive
<1>2. PICK m : m = Head(inbox)
  OBVIOUS
<1>3. m = inbox[1] /\ 1 \in DOMAIN inbox
  BY <1>1, <1>2, TailFacts
<1>4. m \in Broadcasts /\ Named(m)
  BY <1>1, <1>3 DEF StepsNamed, Named
<1>5. m.kind \in {"started", "completed"} => ShownAs(m, "running") \in Shows /\ ShownAs(m, "paused") \in Shows
  BY <1>4 DEF Named, ShownAs, Shows, Broadcasts
<1>6. StatusAfter(m) \in {"running", "paused"}
  BY DEF StatusAfter
<1>7. m.kind \in {"started", "completed", "done", "error"}
  BY <1>4 DEF Broadcasts
<1>8. CASE m.kind = "started"
  BY <1>2, <1>3, <1>4, <1>5, <1>8 DEF Receive, ShownAs
<1>9. CASE m.kind = "completed"
  BY <1>2, <1>3, <1>4, <1>5, <1>6, <1>9 DEF Receive, ShownAs
<1>10. CASE m.kind \in {"done", "error"}
  BY <1>2, <1>3, <1>4, <1>10 DEF Receive
<1>11. QED  BY <1>7, <1>8, <1>9, <1>10

LEMMA ReceiveType ==
  ASSUME TypeInv, Receive
  PROVE  TypeInv'
<1>1. /\ inbox \in Seq(Broadcasts) /\ inbox # <<>> /\ StepsNamed /\ inbox' = Tail(inbox)
      /\ entries \in Seq(Shows)
  BY DEF TypeInv, ServerOK, PageOK, Receive
<1>2. /\ inbox' \in Seq(Broadcasts)
      /\ \A i \in DOMAIN inbox' : i + 1 \in DOMAIN inbox /\ inbox'[i] = inbox[i + 1]
  BY <1>1, TailFacts
<1>3. entries' \in Seq(Shows)
  <2>1. PICK m : m = Head(inbox)
    OBVIOUS
  <2>2. \/ \E e \in Shows : Put(e)
        \/ UNCHANGED entries
        \/ m.kind \in {"done", "error"} /\ Update(m.seq, m.kind)
    BY <2>1, ReceiveIs
  <2>3. CASE \E e \in Shows : Put(e)
    BY <1>1, <2>3, PutFacts
  <2>4. CASE m.kind \in {"done", "error"} /\ Update(m.seq, m.kind)
    <3>1. m.kind \in {"running", "paused", "done", "error"}
      BY <2>4
    <3>2. QED  BY <1>1, <2>4, <3>1, UpdateFacts
  <2>5. QED  BY <1>1, <2>2, <2>3, <2>4
<1>4. StepsNamed'
  BY <1>1, <1>2 DEF StepsNamed
<1>5. UNCHANGED <<life, echo, missed, socket, faults, autoMode, queue, selected, dismissed, unfilled>>
  BY DEF Receive, server, builder
<1>6. LifeOK' /\ LifeInv' /\ EchoInv'
  BY <1>5 DEF TypeInv, LifeOK, LifeInv, EchoInv
<1>7. ServerOK' /\ PageOK' /\ ShortQueue'
  BY <1>2, <1>3, <1>5 DEF TypeInv, ServerOK, PageOK, ShortQueue
<1>8. QED  BY <1>4, <1>6, <1>7 DEF TypeInv

LEMMA SocketType ==
  ASSUME TypeInv, SocketDies \/ SocketCloses \/ SocketOpens
  PROVE  TypeInv'
<1>1. UNCHANGED <<life, echo, autoMode, queue, selected, entries, dismissed, unfilled>>
  BY DEF SocketDies, SocketCloses, SocketOpens, server, builder
<1>2. faults' \in 0..MaxFaults
  BY FaultType DEF SocketDies, SocketCloses, SocketOpens, TypeInv
<1>3. ServerOK' /\ StepsNamed'
  <2>1. CASE SocketDies
    <3>1. inbox' = <<>> /\ missed' = missed \cup {m.seq : m \in ToSet(inbox)}
      BY <2>1 DEF SocketDies
    <3>2. \A m \in ToSet(inbox) : m.seq \in Sequence
      <4> SUFFICES ASSUME NEW m \in ToSet(inbox) PROVE m.seq \in Sequence
        OBVIOUS
      <4>1. PICK i \in DOMAIN inbox : m = inbox[i]
        BY DEF ToSet
      <4>2. inbox \in Seq(Broadcasts)
        BY DEF TypeInv, ServerOK
      <4>3. m \in Broadcasts
        BY <4>1, <4>2
      <4>4. QED  BY <4>3 DEF Broadcasts
    <3>3. <<>> \in Seq(Broadcasts) /\ DOMAIN <<>> = {}
      OBVIOUS
    <3>4. QED  BY <1>1, <1>2, <3>1, <3>2, <3>3 DEF TypeInv, ServerOK, StepsNamed
  <2>2. CASE SocketCloses \/ SocketOpens
    <3>1. inbox' = inbox /\ missed' = missed
      BY <2>2 DEF SocketCloses, SocketOpens
    <3>2. QED  BY <1>1, <1>2, <3>1 DEF TypeInv, ServerOK, StepsNamed
  <2>3. QED  BY <2>1, <2>2
<1>4. socket' \in {"open", "dead", "closed"}
  BY DEF SocketDies, SocketCloses, SocketOpens, TypeInv, PageOK
<1>5. LifeOK' /\ LifeInv' /\ EchoInv'
  BY <1>1 DEF TypeInv, LifeOK, LifeInv, EchoInv
<1>6. PageOK' /\ ShortQueue'
  BY <1>1, <1>4 DEF TypeInv, PageOK, ShortQueue
<1>7. QED  BY <1>3, <1>5, <1>6 DEF TypeInv

-----------------------------------------------------------------------------
(* The panel and the builder.                                                *)

\* A button that reaches the server is an action of the server.
LEMMA ClickServes ==
  ASSUME ClickAdvance \/ ClickCancel
  PROVE  \E s \in Sequence : ServeAdvance(s) \/ ServeFail(s)
<1>1. CASE ClickAdvance
  <2>1. PICK s : s = Shown.seq
    OBVIOUS
  <2>2. s \in Sequence /\ ServeAdvance(s)
    BY <1>1, <2>1 DEF ClickAdvance, Obeys
  <2>3. QED  BY <2>2
<1>2. CASE ClickCancel
  <2>1. PICK s : s = Head(Cancellable).seq
    OBVIOUS
  <2>2. s \in Sequence /\ ServeFail(s)
    BY <1>2, <2>1 DEF ClickCancel, Obeys
  <2>3. QED  BY <2>2
<1>3. QED  BY <1>1, <1>2

\* Dismissing a sequence takes one entry of the page away.
LEMMA DismissIs ==
  ASSUME TypeInv, ClickDismiss
  PROVE  \E i \in DOMAIN entries :
           /\ entries' = RemoveAt(entries, i)
           /\ dismissed' = dismissed \cup {entries[i].seq} /\ entries[i].seq \in Sequence
<1>1. PICK s : s = Shown.seq
  OBVIOUS
<1>2. PICK i \in IndexOf(s) : entries' = RemoveAt(entries, i)
  BY <1>1 DEF ClickDismiss
<1>3. i \in DOMAIN entries /\ entries[i].seq = s
  BY DEF IndexOf
<1>4. entries \in Seq(Shows)
  BY DEF TypeInv, PageOK
<1>5. entries[i] \in Shows
  BY <1>3, <1>4
<1>6. entries[i].seq \in Sequence
  BY <1>5 DEF Shows
<1>7. dismissed' = dismissed \cup {s}
  BY <1>1 DEF ClickDismiss
<1>8. QED  BY <1>2, <1>3, <1>6, <1>7

LEMMA DismissType ==
  ASSUME TypeInv, ClickDismiss
  PROVE  TypeInv'
<1>1. PICK i \in DOMAIN entries : /\ entries' = RemoveAt(entries, i)
                                  /\ dismissed' = dismissed \cup {entries[i].seq}
                                  /\ entries[i].seq \in Sequence
  BY DismissIs
<1>2. entries \in Seq(Shows)
  BY DEF TypeInv, PageOK
<1>3. entries' \in Seq(Shows)
  BY <1>1, <1>2, RemoveFacts
<1>4. UNCHANGED <<life, echo, inbox, socket, faults, autoMode, queue, selected, missed, unfilled>>
  BY DEF ClickDismiss, server, builder
<1>5. dismissed' \subseteq Sequence
  BY <1>1 DEF TypeInv, PageOK
<1>6. PageOK' /\ ShortQueue'
  BY <1>3, <1>4, <1>5 DEF TypeInv, PageOK, ShortQueue
<1>7. LifeOK' /\ LifeInv' /\ EchoInv' /\ ServerOK' /\ StepsNamed'
  BY <1>4 DEF TypeInv, LifeOK, LifeInv, EchoInv, ServerOK, StepsNamed
<1>8. QED  BY <1>6, <1>7 DEF TypeInv

\* What an edit of the queue leaves alone.
LEMMA EditType ==
  ASSUME TypeInv, UNCHANGED <<life, echo, inbox, socket, faults, entries, missed, dismissed, unfilled>>,
         autoMode' \in BOOLEAN, selected' \in DOMAIN Preset \cup {None},
         queue' \in Seq(QueuedStep), Len(queue') <= MaxSteps
  PROVE  TypeInv'
<1>1. PageOK' /\ ShortQueue'
  BY DEF TypeInv, PageOK, ShortQueue
<1>2. LifeOK' /\ LifeInv' /\ EchoInv' /\ ServerOK' /\ StepsNamed'
  BY DEF TypeInv, LifeOK, LifeInv, EchoInv, ServerOK, StepsNamed
<1>3. QED  BY <1>1, <1>2 DEF TypeInv

Edit ==
  \/ ToggleAutoMode
  \/ \E p \in Clickable : PresetClick(p)
  \/ \E c \in Pickable : AddStep(c)
  \/ \E i \in DOMAIN queue : \/ RemoveStep(i) \/ MoveUp(i)
                             \/ \E key \in Required[queue[i].command] : ParamChange(i, key)

\* Every edit leaves a queue of commands the server knows, no longer than a sequence may be.
LEMMA EditQueue ==
  ASSUME TypeInv, Edit
  PROVE  /\ queue' \in Seq(QueuedStep) /\ Len(queue') <= MaxSteps
         /\ selected' \in DOMAIN Preset \cup {None}
<1>0. /\ queue \in Seq(QueuedStep) /\ Len(queue) \in Nat /\ Len(queue) <= MaxSteps
      /\ selected \in DOMAIN Preset \cup {None}
      /\ DOMAIN queue = 1..Len(queue) /\ \A i \in DOMAIN queue : queue[i] \in QueuedStep
  BY DEF TypeInv, PageOK, ShortQueue
<1>1. <<>> \in Seq(QueuedStep) /\ Len(<<>>) = 0
  OBVIOUS
<1>2. CASE ToggleAutoMode
  BY <1>1, <1>2 DEF ToggleAutoMode
<1>3. ASSUME NEW p \in Clickable, PresetClick(p)
      PROVE  /\ queue' \in Seq(QueuedStep) /\ Len(queue') <= MaxSteps
             /\ selected' \in DOMAIN Preset \cup {None}
  <2>1. p \in DOMAIN Preset /\ Len(Preset[p]) <= MaxSteps
    OBVIOUS
  <2>2. Preset[p] \in Seq(DOMAIN Required)
    BY <2>1, PresetType
  <2>3. PICK q : q = Preset[p]
    OBVIOUS
  <2>4. PICK D : D = DOMAIN Required
    OBVIOUS
  <2>5. q \in Seq(D) /\ Len(q) <= MaxSteps
    BY <2>1, <2>2, <2>3, <2>4
  <2>6. \A c \in D : [command |-> c, filled |-> {}] \in QueuedStep
    BY <2>4 DEF QueuedStep
  <2>7. [i \in DOMAIN q |-> [command |-> q[i], filled |-> {}]] \in Seq(QueuedStep)
    <3>1. DOMAIN q = 1..Len(q) /\ Len(q) \in Nat /\ \A i \in DOMAIN q : q[i] \in D
      BY <2>5
    <3>2. QED  BY <2>6, <3>1
  <2>8. Len([i \in DOMAIN q |-> [command |-> q[i], filled |-> {}]]) = Len(q)
    BY <2>5
  <2>9. PICK built : built = [i \in DOMAIN q |-> [command |-> q[i], filled |-> {}]]
    OBVIOUS
  <2>10. /\ queue' = <<>> \/ queue' = built
         /\ selected' = None \/ selected' = p
    BY <1>3, <2>3, <2>9 DEF PresetClick
  <2>11. built \in Seq(QueuedStep) /\ Len(built) <= MaxSteps
    BY <2>5, <2>7, <2>8, <2>9
  <2>12. MaxSteps \in Nat
    OBVIOUS
  <2>13. queue' \in Seq(QueuedStep)
    BY <1>1, <2>10, <2>11
  <2>14. Len(queue') <= MaxSteps
    BY <1>1, <2>10, <2>11, <2>12
  <2>15. selected' \in DOMAIN Preset \cup {None}
    BY <2>1, <2>10
  <2>16. QED  BY <2>13, <2>14, <2>15
<1>4. ASSUME NEW c \in Pickable, AddStep(c)
      PROVE  /\ queue' \in Seq(QueuedStep) /\ Len(queue') <= MaxSteps
             /\ selected' \in DOMAIN Preset \cup {None}
  <2>1. PICK st : st = [command |-> c, filled |-> {}]
    OBVIOUS
  <2>2. st \in QueuedStep
    BY <2>1 DEF QueuedStep
  <2>3. queue' = Append(queue, st) /\ selected' = None /\ Len(queue) < MaxSteps
    BY <1>0, <1>4, <2>1 DEF AddStep
  <2>4. QED  BY <1>0, <2>2, <2>3
<1>5. ASSUME NEW i \in DOMAIN queue, RemoveStep(i)
      PROVE  /\ queue' \in Seq(QueuedStep) /\ Len(queue') <= MaxSteps
             /\ selected' \in DOMAIN Preset \cup {None}
  <2>1. queue' = RemoveAt(queue, i) /\ selected' = None
    BY <1>5 DEF RemoveStep
  <2>2. RemoveAt(queue, i) \in Seq(QueuedStep) /\ Len(RemoveAt(queue, i)) < Len(queue)
    BY <1>0, RemoveFacts
  <2>3. Len(queue') \in Nat
    BY <2>1, <2>2
  <2>4. QED  BY <1>0, <2>1, <2>2, <2>3
<1>6. ASSUME NEW i \in DOMAIN queue, MoveUp(i)
      PROVE  /\ queue' \in Seq(QueuedStep) /\ Len(queue') <= MaxSteps
             /\ selected' \in DOMAIN Preset \cup {None}
  <2>1. queue' = Swapped(queue, i) /\ selected' = None /\ i > 1
    BY <1>6 DEF MoveUp
  <2>2. i - 1 \in DOMAIN queue
    BY <1>0, <2>1
  <2>3. PICK a, b : a = queue[i] /\ b = queue[i - 1] /\ a \in QueuedStep /\ b \in QueuedStep
    BY <1>0, <2>2
  <2>4. Swapped(queue, i) = [queue EXCEPT ![i - 1] = a, ![i] = b]
    BY <2>3 DEF Swapped
  <2>5. QED  BY <1>0, <2>1, <2>2, <2>3, <2>4
<1>7. ASSUME NEW i \in DOMAIN queue, NEW key \in Required[queue[i].command], ParamChange(i, key)
      PROVE  /\ queue' \in Seq(QueuedStep) /\ Len(queue') <= MaxSteps
             /\ selected' \in DOMAIN Preset \cup {None}
  <2>1. PICK D, U : D = DOMAIN Required /\ U = UNION {Required[c] : c \in D}
    OBVIOUS
  <2>2. QueuedStep = [command : D, filled : SUBSET U]
    BY <2>1 DEF QueuedStep
  <2>3. PICK st : st = queue[i] /\ st \in QueuedStep
    BY <1>0
  <2>4. st.command \in D /\ st.filled \subseteq U
    BY <2>2, <2>3
  <2>5. key \in U
    BY <2>1, <2>3, <2>4
  <2>6. PICK f : f = IF key \in st.filled THEN st.filled \ {key} ELSE st.filled \cup {key}
    OBVIOUS
  <2>7. f \subseteq U
    BY <2>4, <2>5, <2>6
  <2>8. [st EXCEPT !.filled = f] \in QueuedStep
    BY <2>2, <2>3, <2>7
  <2>9. queue' = [queue EXCEPT ![i] = [st EXCEPT !.filled = f]] /\ selected' = selected
    BY <1>0, <1>7, <2>3, <2>6 DEF ParamChange
  <2>10. QED  BY <1>0, <2>8, <2>9
<1>8. QED  BY <1>2, <1>3, <1>4, <1>5, <1>6, <1>7 DEF Edit

LEMMA EditKeeps ==
  ASSUME Edit
  PROVE  /\ UNCHANGED <<life, echo, inbox, socket, faults, entries, missed, dismissed, unfilled>>
         /\ autoMode' \in {autoMode, ~autoMode}
BY DEF Edit, ToggleAutoMode, PresetClick, AddStep, RemoveStep, MoveUp, ParamChange, UnchangedByEdit, server

\* What a start of the builder's queue does.
LEMMA HandleStartIs ==
  ASSUME TypeInv, HandleStart
  PROVE  /\ autoMode /\ Len(queue) \in 1..MaxSteps
         /\ \/ /\ \E s \in Here : Start(s, Len(queue), autoMode)
               /\ unfilled' = unfilled
            \/ UNCHANGED <<life, unfilled>>
         /\ queue' = <<>> /\ selected' = None
         /\ UNCHANGED <<echo, inbox, socket, faults, autoMode, entries, missed, dismissed>>
<1>1. queue \in Seq(QueuedStep) /\ Len(queue) <= MaxSteps /\ queue # <<>> /\ CanStart(queue)
  BY DEF TypeInv, PageOK, ShortQueue, HandleStart, CanStart
<1>2. Len(queue) \in 1..MaxSteps
  <2>1. Len(queue) \in Nat /\ Len(queue) # 0
    BY <1>1
  <2>2. QED  BY <1>1, <2>1
<1>3. UNION {Expand(st.command, st.filled) : st \in ToSet(queue)} = {}
  <2> SUFFICES ASSUME NEW st \in ToSet(queue) PROVE Expand(st.command, st.filled) = {}
    OBVIOUS
  <2>1. PICK i \in DOMAIN queue : st = queue[i]
    BY DEF ToSet
  <2>2. PICK D : D = DOMAIN Required
    OBVIOUS
  <2>3. st \in QueuedStep
    BY <1>1, <2>1
  <2>4. st.command \in D
    BY <2>2, <2>3 DEF QueuedStep
  <2>5. Required[st.command] \subseteq st.filled
    BY <1>1, <2>1 DEF CanStart
  <2>6. QED  BY <2>2, <2>4, <2>5, TablesAgree
<1>4. QED  BY <1>2, <1>3 DEF HandleStart, BuilderShown

LEMMA BuilderType ==
  ASSUME TypeInv, Builder
  PROVE  TypeInv'
<1>1. CASE Edit
  <2>1. autoMode \in BOOLEAN
    BY DEF TypeInv, PageOK
  <2>2. autoMode' \in BOOLEAN
    BY <1>1, <2>1, EditKeeps
  <2>3. QED  BY <1>1, <2>2, EditKeeps, EditQueue, EditType
<1>2. CASE HandleStart
  <2>1. autoMode \in BOOLEAN /\ LifeOK /\ LifeInv /\ echo \subseteq Sequence
    BY DEF TypeInv, PageOK, ServerOK
  <2>2. LifeOK' /\ LifeInv' /\ EchoInv'
    <3>1. CASE \E s \in Here : Start(s, Len(queue), autoMode)
      <4>1. PICK s \in Here : Start(s, Len(queue), autoMode)
        BY <3>1
      <4>2. Len(queue) \in 1..MaxSteps /\ s \in Sequence /\ echo' = echo
        BY <1>2, HandleStartIs
      <4>3. LifeOK' /\ LifeInv'
        BY <2>1, <4>1, <4>2, StartLife
      <4>4. life[s].state = "none" /\ \A u \in Sequence : u # s => life'[u] = life[u]
        BY <2>1, <4>1 DEF Start, LifeOK, Unborn
      <4>5. EchoInv
        BY DEF TypeInv
      <4>6. QED  BY <2>1, <4>2, <4>3, <4>4, <4>5 DEF EchoInv
    <3>2. CASE UNCHANGED <<life, unfilled>>
      BY <1>2, <2>1, <3>2, HandleStartIs DEF TypeInv, LifeOK, LifeInv, EchoInv
    <3>3. QED  BY <1>2, <3>1, <3>2, HandleStartIs
  <2>3. unfilled' = unfilled /\ queue' = <<>> /\ selected' = None
        /\ UNCHANGED <<echo, inbox, socket, faults, autoMode, entries, missed, dismissed>>
    BY <1>2, HandleStartIs
  <2>4. <<>> \in Seq(QueuedStep) /\ Len(<<>>) = 0
    OBVIOUS
  <2>5. PageOK' /\ ShortQueue'
    BY <2>3, <2>4 DEF TypeInv, PageOK, ShortQueue
  <2>6. ServerOK' /\ StepsNamed'
    BY <2>3 DEF TypeInv, ServerOK, StepsNamed
  <2>7. QED  BY <2>2, <2>5, <2>6 DEF TypeInv
<1>3. QED  BY <1>1, <1>2 DEF Builder, Edit

\* The steps of the specification, grouped as they are treated.
LEMMA StepIs ==
  ASSUME PageNext
  PROVE  \/ ServerStep \/ Receive
         \/ SocketDies \/ SocketCloses \/ SocketOpens
         \/ ClickDismiss \/ Builder
<1>1. CASE ClickAdvance \/ ClickCancel
  BY <1>1, ClickServes DEF ServerStep
<1>2. CASE ~ClickAdvance /\ ~ClickCancel
  BY <1>2 DEF PageNext, ServerStep
<1>3. QED  BY <1>1, <1>2

LEMMA TypeStep ==
  ASSUME TypeInv, [PageNext]_pageVars
  PROVE  TypeInv'
<1>1. CASE UNCHANGED pageVars
  <2>1. UNCHANGED <<life, echo, inbox, socket, faults, entries, missed, dismissed, unfilled>>
        /\ UNCHANGED <<autoMode, queue, selected>>
    BY <1>1 DEF pageVars
  <2>2. autoMode \in BOOLEAN /\ selected \in DOMAIN Preset \cup {None}
        /\ queue \in Seq(QueuedStep) /\ Len(queue) <= MaxSteps
    BY DEF TypeInv, PageOK, ShortQueue
  <2>3. QED  BY <2>1, <2>2, EditType
<1>2. CASE PageNext
  BY <1>2, StepIs, ServerType, ReceiveType, SocketType, DismissType, BuilderType
<1>3. QED  BY <1>1, <1>2

\* TypeCorrect: the queue being built holds commands of the catalogue and is no longer
\* than a sequence may be, what the page shows of a sequence is one of its steps, and
\* every other variable has its type, for any sequences, users and bounds.
THEOREM TypeCorrect == PageSpec => []PageTypeOK
<1>1. PageSpec => []TypeInv
  BY TypeInit, TypeStep, PTL DEF PageSpec
<1>2. QED  BY <1>1, TypeImplies, PTL

-----------------------------------------------------------------------------
(* What the page starts.                                                     *)

\* Nobody but the builder starts a sequence of the page, in auto mode and with every
\* parameter filled, and nothing the server does makes it wait for the user.
LEMMA BuiltStep ==
  ASSUME TypeInv, StartedAsBuilt, [PageNext]_pageVars
  PROVE  StartedAsBuilt'
<1>0. LifeOK /\ LifeInv /\ unfilled = {} /\ \A s \in Here : life[s].auto
  BY DEF TypeInv, StartedAsBuilt
<1> SUFFICES unfilled' = {} /\ \A s \in Here : life'[s].auto
  BY DEF StartedAsBuilt
<1>1. CASE UNCHANGED pageVars
  BY <1>0, <1>1 DEF pageVars
<1>2. CASE ServerStep
  <2>1. unfilled' = unfilled
    BY <1>2 DEF ServerStep, ServeEnter, ServeComplete, ServeFinish, ServeFail, ServeAdvance, ServeEcho,
                OtherStarts, ServeNodeLost, UnchangedPage
  <2>2. CASE ServeNodeLost
    <3>1. FailAll
      BY <2>2 DEF ServeNodeLost
    <3>2. \A s \in Sequence :
            /\ life[s].state \in Ongoing => life'[s] = [life[s] EXCEPT !.state = "error"]
            /\ life[s].state \notin Ongoing => life'[s] = life[s]
      BY <1>0, <3>1, FailAllLife
    <3>3. ASSUME NEW s \in Here PROVE life'[s].auto
      <4>1. s \in Sequence /\ life[s] \in Life /\ life[s].auto
        BY <1>0 DEF LifeOK
      <4>2. PICK l : l = life[s] /\ l \in Life /\ l.auto
        BY <4>1
      <4>3. [l EXCEPT !.state = "error"].auto
        BY <4>2 DEF Life
      <4>4. QED  BY <3>2, <4>1, <4>2, <4>3
    <3>4. QED  BY <1>0, <2>1, <3>3
  <2>3. ASSUME NEW s \in Sequence, OtherStarts(s)
        PROVE  \A u \in Here : life'[u].auto
    BY <1>0, <2>3 DEF OtherStarts, Start, LifeOK
  <2>4. ASSUME NEW s \in Sequence, ServeEcho(s)
        PROVE  \A u \in Here : life'[u].auto
    BY <1>0, <2>4 DEF ServeEcho
  <2>5. ASSUME NEW s \in Sequence, Moves(s)
        PROVE  \A u \in Here : life'[u].auto
    BY <1>0, <2>5, MoveLife
  <2>6. QED  BY <1>0, <1>2, <2>1, <2>2, <2>3, <2>4, <2>5
             DEF ServerStep, Moves, ServeEnter, ServeComplete, ServeFinish, ServeFail, ServeAdvance
<1>3. CASE HandleStart
  <2>1. unfilled' = unfilled /\ autoMode
        /\ (life' = life \/ \E s \in Here : Start(s, Len(queue), autoMode))
    BY <1>3, HandleStartIs
  <2>2. ASSUME NEW s \in Here, Start(s, Len(queue), autoMode)
        PROVE  \A u \in Here : life'[u].auto
    BY <1>0, <2>1, <2>2 DEF Start, LifeOK
  <2>3. QED  BY <1>0, <2>1, <2>2
<1>4. CASE Edit
  BY <1>0, <1>4, EditKeeps
<1>5. CASE Receive \/ SocketDies \/ SocketCloses \/ SocketOpens \/ ClickDismiss
  BY <1>0, <1>5 DEF Receive, SocketDies, SocketCloses, SocketOpens, ClickDismiss, server
<1>6. QED  BY <1>1, <1>2, <1>3, <1>4, <1>5, StepIs DEF Builder, Edit

\* BuiltAsAsked: a sequence this page starts has no placeholder left in a prompt, by the
\* server's own templates, however its queue was built and edited, and advances by itself.
THEOREM BuiltAsAsked == PageSpec => []StartedAsBuilt
<1>1. PageInit => StartedAsBuilt
  BY DEF PageInit, LifeInit, StartedAsBuilt, Unborn
<1>2. QED  BY <1>1, TypeInit, TypeStep, BuiltStep, PTL DEF PageSpec

-----------------------------------------------------------------------------
(* What the page shows of a sequence.                                        *)

StepKinds == {"started", "completed"}
StatusOf(m) ==
  CASE m.kind = "started" -> "running"
    [] m.kind = "completed" -> StatusAfter(m)
    [] OTHER -> m.kind

\* The broadcasts of ms about s, and those of them that name a step.
AboutIn(ms, s) == {i \in DOMAIN ms : ms[i].seq = s}
StepsIn(ms, s) == {i \in AboutIn(ms, s) : ms[i].kind \in StepKinds}

Unseen == {"none", "new", "error"}

\* The page knows a sequence that has entered a step, or is about to be told; it is not
\* told of a completed step before that.
KnownInv(s) ==
  /\ Known(s) \/ life[s].state \in Unseen \/ \E i \in AboutIn(inbox, s) : inbox[i].kind = "started"
  /\ \A i \in AboutIn(inbox, s) : inbox[i].kind = "completed" =>
       Known(s) \/ \E j \in AboutIn(inbox, s) : j < i /\ inbox[j].kind = "started"

\* The last broadcast about a sequence, or else the page, has its status.
StatusInv(s) ==
  /\ \A i \in AboutIn(inbox, s) :
       (\A k \in AboutIn(inbox, s) : k <= i) => StatusOf(inbox[i]) = life[s].state
  /\ AboutIn(inbox, s) = {} => \A e \in IndexOf(s) : entries[e].status = life[s].state

\* The last broadcast that names its step, or else the page, has its step.
StepInv(s) ==
  /\ \A i \in StepsIn(inbox, s) :
       (\A k \in StepsIn(inbox, s) : k <= i) => inbox[i].step = life[s].step
  /\ StepsIn(inbox, s) = {} => \A e \in IndexOf(s) : entries[e].step = life[s].step

Follows(s) == KnownInv(s) /\ StatusInv(s) /\ StepInv(s)
FollowInv == \A s \in Sequence \ (missed \cup dismissed) : Follows(s)

\* Only started sequences are spoken of; an end is broadcast, and shown, of a sequence
\* that ended so, missed broadcasts or not.
EndsTrue ==
  /\ \A i \in DOMAIN inbox :
       /\ life[inbox[i].seq].state # "none"
       /\ inbox[i].kind \in {"done", "error"} => life[inbox[i].seq].state = inbox[i].kind
  /\ \A i \in DOMAIN entries :
       entries[i].status \in {"done", "error"} => life[entries[i].seq].state = entries[i].status

\* The entries of s stay what they are.
SameEntries(s) ==
  /\ \A i \in IndexOf(s)' : \E j \in IndexOf(s) : entries'[i] = entries[j]
  /\ Known(s) => Known(s)'

\* A step that is not about s.
LEMMA SilentFollows ==
  ASSUME NEW s \in Sequence, Follows(s), life'[s] = life[s], SameEntries(s),
         \A i \in AboutIn(inbox, s)' : i \in AboutIn(inbox, s) /\ inbox'[i] = inbox[i],
         \A i \in AboutIn(inbox, s) : i \in AboutIn(inbox, s)' /\ inbox'[i] = inbox[i]
  PROVE  Follows(s)'
<1>1. PICK A : A = AboutIn(inbox, s)
  OBVIOUS
<1>2. A = AboutIn(inbox, s)' /\ \A i \in A : inbox'[i] = inbox[i]
  BY <1>1
<1>3. PICK E : E = IndexOf(s)
  OBVIOUS
<1>4. PICK F : F = IndexOf(s)'
  OBVIOUS
<1>5. /\ \A i \in F : \E j \in E : entries'[i] = entries[j]
      /\ E # {} => F # {}
  BY <1>3, <1>4 DEF SameEntries, Known
<1>6. KnownInv(s)'
  BY <1>1, <1>2, <1>3, <1>4, <1>5 DEF Follows, KnownInv, Known
<1>7. StatusInv(s)'
  <2>1. /\ \A i \in A : (\A k \in A : k <= i) => StatusOf(inbox[i]) = life[s].state
        /\ A = {} => \A e \in E : entries[e].status = life[s].state
    BY <1>1, <1>3 DEF Follows, StatusInv
  <2>2. \A i \in A : StatusOf(inbox'[i]) = StatusOf(inbox[i])
    BY <1>2 DEF StatusOf, StatusAfter
  <2>3. /\ \A i \in A : (\A k \in A : k <= i) => StatusOf(inbox'[i]) = life'[s].state
        /\ A = {} => \A e \in F : entries'[e].status = life'[s].state
    BY <1>5, <2>1, <2>2
  <2>4. QED  BY <1>2, <1>4, <2>3 DEF StatusInv, StatusOf, StatusAfter
<1>8. StepInv(s)'
  <2>1. PICK T : T = StepsIn(inbox, s)
    OBVIOUS
  <2>2. T = StepsIn(inbox, s)'
    BY <1>1, <1>2, <2>1 DEF StepsIn
  <2>3. /\ \A i \in T : (\A k \in T : k <= i) => inbox[i].step = life[s].step
        /\ T = {} => \A e \in E : entries[e].step = life[s].step
    BY <1>3, <2>1 DEF Follows, StepInv
  <2>4. \A i \in T : i \in A
    BY <1>1, <2>1 DEF StepsIn
  <2>5. /\ \A i \in T : (\A k \in T : k <= i) => inbox'[i].step = life'[s].step
        /\ T = {} => \A e \in F : entries'[e].step = life'[s].step
    BY <1>2, <1>5, <2>3, <2>4
  <2>6. QED  BY <1>4, <2>2, <2>5 DEF StepInv
<1>9. QED  BY <1>6, <1>7, <1>8 DEF Follows

\* The broadcasts ms tell the whole of what a step made of s.
Tells(ms, s) ==
  /\ AboutIn(ms, s) # {} /\ life'[s].state # "none"
  /\ \A i \in AboutIn(ms, s) :
       (\A k \in AboutIn(ms, s) : k <= i) => StatusOf(ms[i]) = life'[s].state
  /\ \A i \in StepsIn(ms, s) : (\A k \in StepsIn(ms, s) : k <= i) => ms[i].step = life'[s].step
  /\ StepsIn(ms, s) = {} => life'[s].step = life[s].step
  /\ (\E i \in AboutIn(ms, s) : ms[i].kind = "completed") => life[s].state \notin Unseen
  /\ \/ life'[s].state \in Unseen \/ life[s].state \notin Unseen
     \/ \E i \in AboutIn(ms, s) : ms[i].kind = "started"

\* They end what is on its way, so the page will follow.
LEMMA ToldFollows ==
  ASSUME NEW s \in Sequence, Follows(s), inbox \in Seq(Broadcasts), NEW ms \in Seq(Broadcasts),
         Tells(ms, s), inbox' = inbox \o ms, entries' = entries
  PROVE  Follows(s)'
<1> DEFINE n == Len(inbox)
           A == AboutIn(inbox, s)
           B == AboutIn(ms, s)
           C == AboutIn(inbox, s)'
<1>0. /\ n \in Nat /\ \A i \in A : i \in Nat /\ i <= n
      /\ \A i \in B : i \in Nat /\ i > 0
  BY DEF AboutIn
<1>1. /\ \A i \in DOMAIN inbox : i \in DOMAIN inbox' /\ inbox'[i] = inbox[i]
      /\ \A i \in DOMAIN ms : n + i \in DOMAIN inbox' /\ inbox'[n + i] = ms[i]
      /\ \A i \in DOMAIN inbox' : i \in DOMAIN inbox \/ (i - n \in DOMAIN ms /\ inbox'[i] = ms[i - n])
  BY ConcatFacts
<1>2. /\ \A i \in A : i \in C /\ inbox'[i] = inbox[i]
      /\ \A i \in B : n + i \in C /\ inbox'[n + i] = ms[i]
      /\ \A i \in C : i \in A \/ (i - n \in B /\ inbox'[i] = ms[i - n])
  BY <1>1 DEF AboutIn
<1>3. PICK b : b \in B
  BY DEF Tells
<1>4. C \subseteq Int
  BY DEF AboutIn, ConcatFacts
<1>5. IndexOf(s)' = IndexOf(s) /\ (Known(s)' <=> Known(s))
  BY DEF IndexOf, Known
<1>6. KnownInv(s)'
  <2>1. Known(s)' \/ life'[s].state \in Unseen \/ \E i \in C : inbox'[i].kind = "started"
    <3>1. Known(s) \/ life[s].state \in Unseen \/ \E i \in A : inbox[i].kind = "started"
      BY DEF Follows, KnownInv
    <3>2. \/ life'[s].state \in Unseen \/ life[s].state \notin Unseen
          \/ \E i \in B : ms[i].kind = "started"
      BY DEF Tells
    <3>3. CASE \E i \in A : inbox[i].kind = "started"
      BY <1>2, <3>3
    <3>4. CASE \E i \in B : ms[i].kind = "started"
      BY <1>2, <3>4
    <3>5. QED  BY <1>5, <3>1, <3>2, <3>3, <3>4
  <2>2. ASSUME NEW i \in C, inbox'[i].kind = "completed"
        PROVE  Known(s)' \/ \E j \in C : j < i /\ inbox'[j].kind = "started"
    <3>1. CASE i \in A
      <4>1. inbox[i].kind = "completed"
        BY <1>2, <2>2, <3>1
      <4>2. Known(s) \/ \E j \in A : j < i /\ inbox[j].kind = "started"
        BY <3>1, <4>1 DEF Follows, KnownInv
      <4>3. QED  BY <1>2, <1>5, <4>2
    <3>2. CASE i \notin A
      <4>1. i - n \in B /\ ms[i - n].kind = "completed"
        BY <1>2, <2>2, <3>2
      <4>2. life[s].state \notin Unseen
        BY <4>1 DEF Tells
      <4>3. Known(s) \/ \E j \in A : inbox[j].kind = "started"
        BY <4>2 DEF Follows, KnownInv
      <4>4. \A j \in A : j < i
        BY <1>0, <1>4, <4>1
      <4>5. QED  BY <1>2, <1>5, <4>3, <4>4
    <3>3. QED  BY <3>1, <3>2
  <2>3. QED  BY <2>1, <2>2 DEF KnownInv
<1>7. StatusInv(s)'
  <2>1. ASSUME NEW i \in C, \A k \in C : k <= i
        PROVE  StatusOf(inbox'[i]) = life'[s].state
    <3>1. n + b <= i
      BY <1>2, <1>3, <2>1
    <3>2. i - n \in B /\ inbox'[i] = ms[i - n]
      <4>1. b \in Nat /\ b > 0 /\ i \in Int
        BY <1>0, <1>3, <1>4
      <4>2. i > n
        BY <1>0, <3>1, <4>1
      <4>3. i \notin A
        BY <1>0, <4>1, <4>2
      <4>4. QED  BY <1>2, <4>3
    <3>3. PICK h : h = i - n
      OBVIOUS
    <3>4. h \in B /\ inbox'[i] = ms[h] /\ \A k \in B : k <= h
      BY <1>0, <1>2, <1>4, <2>1, <3>2, <3>3
    <3>5. StatusOf(ms[h]) = life'[s].state
      BY <3>4 DEF Tells
    <3>6. QED  BY <3>4, <3>5
  <2>2. C # {}
    BY <1>2, <1>3
  <2>3. QED  BY <2>1, <2>2 DEF StatusInv, StatusOf, StatusAfter
<1>8. StepInv(s)'
  <2> DEFINE T == StepsIn(inbox, s)
             U == StepsIn(ms, s)
             V == StepsIn(inbox, s)'
  <2>1. /\ \A i \in T : i \in A /\ i \in V /\ inbox'[i] = inbox[i]
        /\ \A i \in U : i \in B /\ n + i \in V /\ inbox'[n + i] = ms[i]
        /\ \A i \in V : i \in C /\ (i \in T \/ (i - n \in U /\ inbox'[i] = ms[i - n]))
    BY <1>2 DEF StepsIn
  <2>2. ASSUME NEW i \in V, \A k \in V : k <= i
        PROVE  inbox'[i].step = life'[s].step
    <3>1. CASE i \in T
      <4>1. \A k \in T : k <= i
        BY <2>1, <2>2
      <4>2. inbox[i].step = life[s].step
        BY <3>1, <4>1 DEF Follows, StepInv
      <4>3. U = {}
        <5> SUFFICES ASSUME NEW u \in U PROVE FALSE
          OBVIOUS
        <5>1. n + u <= i /\ u \in Nat /\ u > 0
          BY <1>0, <2>1, <2>2
        <5>2. i \in Nat /\ i <= n
          BY <1>0, <2>1, <3>1
        <5>3. QED  BY <1>0, <5>1, <5>2
      <4>4. life'[s].step = life[s].step
        BY <4>3 DEF Tells
      <4>5. QED  BY <2>1, <3>1, <4>2, <4>4
    <3>2. CASE i \notin T
      <4>1. PICK h : h = i - n
        OBVIOUS
      <4>2. h \in U /\ inbox'[i] = ms[h] /\ \A k \in U : n + k <= i
        BY <2>1, <2>2, <3>2, <4>1
      <4>3. \A k \in U : k <= h
        BY <1>0, <1>4, <2>1, <4>1, <4>2
      <4>4. QED  BY <4>2, <4>3 DEF Tells
    <3>3. QED  BY <3>1, <3>2
  <2>3. ASSUME V = {}
        PROVE  \A e \in IndexOf(s) : entries[e].step = life'[s].step
    <3>1. T = {} /\ U = {}
      BY <2>1, <2>3
    <3>2. QED  BY <3>1 DEF Follows, StepInv, Tells
  <2>4. QED  BY <1>5, <2>2, <2>3 DEF StepInv
<1>9. QED  BY <1>6, <1>7, <1>8 DEF Follows

\* Whatever is broadcast: a sequence the tab is told nothing of stays as it is, and one it
\* is told all of is followed, or missed.
LEMMA BroadcastFollows ==
  ASSUME NEW s \in Sequence, s \in missed \/ Follows(s), inbox \in Seq(Broadcasts),
         NEW ms \in Seq(Broadcasts), Broadcast(ms), entries' = entries,
         (AboutIn(ms, s) = {} /\ life'[s] = life[s]) \/ Tells(ms, s)
  PROVE  s \in missed' \/ Follows(s)'
<1>1. PICK kept \in Seq(Broadcasts) :
         /\ inbox' = inbox \o kept
         /\ \A i \in DOMAIN kept : i \in DOMAIN ms /\ kept[i] = ms[i]
         /\ missed \subseteq missed'
         /\ \A i \in DOMAIN ms : i \in DOMAIN kept \/ ms[i].seq \in missed'
  BY BroadcastIs
<1> SUFFICES ASSUME s \notin missed', Follows(s)
             PROVE  Follows(s)'
  BY <1>1
<1>2. AboutIn(kept, s) = AboutIn(ms, s) /\ \A i \in AboutIn(ms, s) : kept[i] = ms[i]
  BY <1>1 DEF AboutIn
<1>3. CASE Tells(ms, s)
  <2>1. StepsIn(kept, s) = StepsIn(ms, s) /\ \A i \in StepsIn(ms, s) : kept[i] = ms[i]
    BY <1>2 DEF StepsIn
  <2>2. \A i \in AboutIn(ms, s) : StatusOf(kept[i]) = StatusOf(ms[i])
    BY <1>2
  <2>3. Tells(kept, s)
    BY <1>2, <1>3, <2>1, <2>2 DEF Tells
  <2>4. QED  BY <1>1, <2>3, ToldFollows
<1>4. CASE AboutIn(ms, s) = {} /\ life'[s] = life[s]
  <2>1. /\ \A i \in DOMAIN inbox : i \in DOMAIN inbox' /\ inbox'[i] = inbox[i]
        /\ \A i \in DOMAIN inbox' :
             i \in DOMAIN inbox \/ (i - Len(inbox) \in DOMAIN kept /\ inbox'[i] = kept[i - Len(inbox)])
    BY <1>1, ConcatFacts
  <2>2. /\ \A i \in AboutIn(inbox, s)' : i \in AboutIn(inbox, s) /\ inbox'[i] = inbox[i]
        /\ \A i \in AboutIn(inbox, s) : i \in AboutIn(inbox, s)' /\ inbox'[i] = inbox[i]
    BY <1>2, <1>4, <2>1 DEF AboutIn
  <2>3. SameEntries(s)
    BY DEF SameEntries, IndexOf, Known
  <2>4. QED  BY <1>4, <2>2, <2>3, SilentFollows
<1>5. QED  BY <1>3, <1>4

\* The broadcasts of one message, and of a completed step with what follows it.
LEMMA SingleTells ==
  ASSUME NEW s \in Sequence, NEW m, m.seq = s, StatusOf(m) = life'[s].state, life'[s].state # "none",
         m.kind \in StepKinds => m.step = life'[s].step,
         m.kind \notin StepKinds => life'[s].step = life[s].step,
         m.kind = "completed" => life[s].state \notin Unseen,
         life'[s].state \in Unseen \/ life[s].state \notin Unseen \/ m.kind = "started"
  PROVE  Tells(<<m>>, s) /\ \A u \in Sequence : u # s => AboutIn(<<m>>, u) = {}
<1>1. DOMAIN <<m>> = {1} /\ <<m>>[1] = m
  OBVIOUS
<1>2. AboutIn(<<m>>, s) = {1} /\ \A u \in Sequence : u # s => AboutIn(<<m>>, u) = {}
  BY <1>1 DEF AboutIn
<1>3. StepsIn(<<m>>, s) = IF m.kind \in StepKinds THEN {1} ELSE {}
  BY <1>1, <1>2 DEF StepsIn
<1>4. QED  BY <1>1, <1>2, <1>3 DEF Tells

LEMMA PairTells ==
  ASSUME NEW s \in Sequence, NEW m, NEW n, m.seq = s, n.seq = s,
         m.kind = "completed", n.kind \in {"started", "done"},
         life[s].state \notin Unseen, StatusOf(n) = life'[s].state,
         n.kind = "started" => n.step = life'[s].step,
         n.kind = "done" => m.step = life'[s].step
  PROVE  Tells(<<m, n>>, s) /\ \A u \in Sequence : u # s => AboutIn(<<m, n>>, u) = {}
<1>1. DOMAIN <<m, n>> = {1, 2} /\ <<m, n>>[1] = m /\ <<m, n>>[2] = n
  OBVIOUS
<1>2. AboutIn(<<m, n>>, s) = {1, 2} /\ \A u \in Sequence : u # s => AboutIn(<<m, n>>, u) = {}
  BY <1>1 DEF AboutIn
<1>3. StepsIn(<<m, n>>, s) = IF n.kind = "started" THEN {1, 2} ELSE {1}
  BY <1>1, <1>2 DEF StepsIn, StepKinds
<1>4. life'[s].state # "none"
  BY DEF StatusOf
<1>5. Tells(<<m, n>>, s)
  <2> DEFINE A == AboutIn(<<m, n>>, s)
             T == StepsIn(<<m, n>>, s)
  <2>1. A # {} /\ \A i \in A : (\A k \in A : k <= i) => StatusOf(<<m, n>>[i]) = life'[s].state
    BY <1>1, <1>2
  <2>2. T # {} /\ \A i \in T : (\A k \in T : k <= i) => <<m, n>>[i].step = life'[s].step
    BY <1>1, <1>3
  <2>3. QED  BY <1>4, <2>1, <2>2 DEF Tells
<1>6. QED  BY <1>2, <1>5

\* An end among the broadcasts is the end the sequence came to.
Ends(ms) == \A i \in DOMAIN ms : ms[i].kind \in {"done", "error"} => life'[ms[i].seq].state = ms[i].kind

\* Everything the server does to a sequence after its start, it tells the tabs.
TellsAll(ms) ==
  /\ ms \in Seq(Broadcasts) /\ Broadcast(ms) /\ Ends(ms)
  /\ \A u \in Sequence : Tells(ms, u) \/ (AboutIn(ms, u) = {} /\ life'[u] = life[u])

LEMMA OneTold ==
  ASSUME NEW s \in Sequence, \A u \in Sequence : u # s => life'[u] = life[u],
         NEW m \in Broadcasts, m.seq = s, StatusOf(m) = life'[s].state,
         m.kind \in StepKinds => m.step = life'[s].step,
         m.kind \notin StepKinds => life'[s].step = life[s].step,
         m.kind = "completed" => life[s].state \notin Unseen,
         life'[s].state \in Unseen \/ life[s].state \notin Unseen \/ m.kind = "started",
         Broadcast(<<m>>)
  PROVE  TellsAll(<<m>>)
<1>1. <<m>> \in Seq(Broadcasts) /\ DOMAIN <<m>> = {1} /\ <<m>>[1] = m
  OBVIOUS
<1>2. Ends(<<m>>)
  BY <1>1 DEF Ends, StatusOf
<1>3. Tells(<<m>>, s) /\ \A u \in Sequence : u # s => AboutIn(<<m>>, u) = {}
  <2>1. life'[s].state # "none"
    BY DEF StatusOf, StatusAfter, Broadcasts
  <2>2. QED  BY <2>1, SingleTells
<1>4. QED  BY <1>1, <1>2, <1>3 DEF TellsAll

LEMMA TwoTold ==
  ASSUME NEW s \in Sequence, \A u \in Sequence : u # s => life'[u] = life[u],
         NEW m \in Broadcasts, NEW n \in Broadcasts, m.seq = s, n.seq = s,
         m.kind = "completed", n.kind \in {"started", "done"},
         life[s].state \notin Unseen, StatusOf(n) = life'[s].state,
         n.kind = "started" => n.step = life'[s].step,
         n.kind = "done" => m.step = life'[s].step,
         Broadcast(<<m, n>>)
  PROVE  TellsAll(<<m, n>>)
<1>1. <<m, n>> \in Seq(Broadcasts) /\ DOMAIN <<m, n>> = {1, 2} /\ <<m, n>>[1] = m /\ <<m, n>>[2] = n
  OBVIOUS
<1>2. Ends(<<m, n>>)
  BY <1>1 DEF Ends, StatusOf
<1>3. Tells(<<m, n>>, s) /\ \A u \in Sequence : u # s => AboutIn(<<m, n>>, u) = {}
  BY PairTells
<1>4. QED  BY <1>1, <1>2, <1>3 DEF TellsAll

LEMMA MoveTold ==
  ASSUME TypeInv, TypeInv', NEW s \in Sequence,
         ServeEnter(s) \/ ServeComplete(s) \/ ServeFinish(s) \/ ServeFail(s) \/ ServeAdvance(s)
  PROVE  \E ms : TellsAll(ms)
<1>1. LifeOK /\ LifeOK' /\ LifeInv /\ LifeInv'
  BY DEF TypeInv
<1>2. Moves(s)
  BY DEF Moves, ServeEnter, ServeComplete, ServeFinish, ServeFail, ServeAdvance
<1>3. /\ \A u \in Sequence : u # s => life'[u] = life[u]
      /\ life[s].state \in Ongoing /\ life'[s].state # "none"
  BY <1>1, <1>2, MoveLife
<1>4. life \in [Sequence -> Life] /\ life[s] \in Life
  BY <1>1 DEF LifeOK
<1>5. CASE ServeEnter(s) \/ ServeAdvance(s)
  <2>1. life'[s].state = "running"
    BY <1>4, <1>5 DEF ServeEnter, ServeAdvance, Enter, Advance, Life
  <2>2. PICK m : m = Message("started", s)
    OBVIOUS
  <2>3. m \in Broadcasts /\ m.kind = "started" /\ m.seq = s /\ m.step = life'[s].step
    BY <1>1, <2>2, MessageType
  <2>4. StatusOf(m) = life'[s].state
    BY <2>1, <2>3 DEF StatusOf
  <2>5. Broadcast(<<m>>)
    BY <1>5, <2>2 DEF ServeEnter, ServeAdvance
  <2>6. TellsAll(<<m>>)
    BY <1>3, <2>3, <2>4, <2>5, OneTold DEF StepKinds
  <2>7. QED  BY <2>6
<1>6. CASE ServeFail(s)
  <2>1. life'[s].state = "error" /\ life'[s].step = life[s].step /\ life[s].state \in {"running", "paused"}
    BY <1>4, <1>6 DEF ServeFail, Fail, Life
  <2>2. PICK m : m = Message("error", s)
    OBVIOUS
  <2>3. m \in Broadcasts /\ m.kind = "error" /\ m.seq = s
    BY <1>1, <2>2, MessageType
  <2>4. StatusOf(m) = life'[s].state
    BY <2>1, <2>3 DEF StatusOf
  <2>5. Broadcast(<<m>>)
    BY <1>6, <2>2 DEF ServeFail
  <2>6. TellsAll(<<m>>)
    BY <1>3, <2>1, <2>3, <2>4, <2>5, OneTold DEF StepKinds, Unseen
  <2>7. QED  BY <2>6
<1>7. CASE ServeFinish(s)
  <2>1. life'[s].state = "done" /\ life[s].state = "running"
    BY <1>4, <1>7 DEF ServeFinish, Finish, Life
  <2>2. PICK m, n : m = Message("completed", s) /\ n = Message("done", s)
    OBVIOUS
  <2>3. m \in Broadcasts /\ m.kind = "completed" /\ m.seq = s /\ m.step = life'[s].step
    BY <1>1, <2>2, MessageType
  <2>4. n \in Broadcasts /\ n.kind = "done" /\ n.seq = s
    BY <1>1, <2>2, MessageType
  <2>5. StatusOf(n) = life'[s].state
    BY <2>1, <2>4 DEF StatusOf
  <2>6. Broadcast(<<m, n>>)
    BY <1>7, <2>2 DEF ServeFinish
  <2>7. TellsAll(<<m, n>>)
    BY <1>3, <2>1, <2>3, <2>4, <2>5, <2>6, TwoTold DEF Unseen
  <2>8. QED  BY <2>7
<1>8. CASE ServeComplete(s)
  <2>1. /\ life[s].state = "running"
        /\ life[s].auto => life'[s].state = "running"
        /\ ~life[s].auto => life'[s].state = "paused" /\ life'[s].step = life[s].step
    BY <1>4, <1>8 DEF ServeComplete, Complete, Life
  <2>2. PICK m, n : m = CompletedOf(s) /\ n = Message("started", s)
    OBVIOUS
  <2>3. /\ m \in Broadcasts /\ m.kind = "completed" /\ m.seq = s
        /\ m.step = life[s].step /\ m.auto = life[s].auto
    BY <1>1, <2>1, <2>2, CompletedType
  <2>4. n \in Broadcasts /\ n.kind = "started" /\ n.seq = s /\ n.step = life'[s].step
    BY <1>1, <2>2, MessageType
  <2>5. Broadcast(IF life[s].auto THEN <<m, n>> ELSE <<m>>)
    BY <1>8, <2>2 DEF ServeComplete, CompletedOf
  <2>6. CASE life[s].auto
    <3>1. StatusOf(n) = life'[s].state
      BY <2>1, <2>4, <2>6 DEF StatusOf
    <3>2. Broadcast(<<m, n>>)
      BY <2>5, <2>6
    <3>3. TellsAll(<<m, n>>)
      BY <1>3, <2>1, <2>3, <2>4, <3>1, <3>2, TwoTold DEF Unseen
    <3>4. QED  BY <3>3
  <2>7. CASE ~life[s].auto
    <3>1. StatusOf(m) = life'[s].state
      BY <2>1, <2>3, <2>7 DEF StatusOf, StatusAfter
    <3>2. Broadcast(<<m>>)
      BY <2>5, <2>7
    <3>3. m.step = life'[s].step
      BY <2>1, <2>3, <2>7
    <3>4. TellsAll(<<m>>)
      BY <1>3, <2>1, <2>3, <3>1, <3>2, <3>3, OneTold DEF Unseen, StepKinds
    <3>5. QED  BY <3>4
  <2>8. QED  BY <2>6, <2>7
<1>9. QED  BY <1>5, <1>6, <1>7, <1>8

LEMMA EchoTold ==
  ASSUME TypeInv, TypeInv', NEW s \in Sequence, ServeEcho(s)
  PROVE  \E ms : TellsAll(ms)
<1>1. /\ LifeOK /\ LifeOK' /\ LifeInv'
      /\ life' = life /\ life[s].state = "error" /\ Broadcast(<<Message("error", s)>>)
  BY DEF TypeInv, ServeEcho, EchoInv
<1>2. PICK m : m = Message("error", s)
  OBVIOUS
<1>3. m \in Broadcasts /\ m.kind = "error" /\ m.seq = s
  BY <1>1, <1>2, MessageType
<1>4. StatusOf(m) = life'[s].state
  BY <1>1, <1>3 DEF StatusOf
<1>5. TellsAll(<<m>>)
  BY <1>1, <1>2, <1>3, <1>4, OneTold DEF StepKinds, Unseen
<1>6. QED  BY <1>5

LEMMA LossTold ==
  ASSUME TypeInv, TypeInv', ServeNodeLost
  PROVE  \E ms : TellsAll(ms)
<1>1. LifeOK /\ LifeOK' /\ LifeInv /\ LifeInv' /\ FailAll
  BY DEF TypeInv, ServeNodeLost
<1>2. \A s \in Sequence :
        /\ life[s].state \in Ongoing => life'[s] = [life[s] EXCEPT !.state = "error"]
        /\ life[s].state \notin Ongoing => life'[s] = life[s]
  BY <1>1, FailAllLife
<1>3. PICK ms \in ErrorOrders : Broadcast(ms)
  BY ServeNodeLostType
<1>5. /\ ms \in Seq(Broadcasts)
      /\ \A i \in DOMAIN ms : ms[i].kind = "error" /\ ms[i].seq \in Lost
      /\ \A s \in Lost : \E i \in DOMAIN ms : ms[i] = Message("error", s)
  BY <1>1, ErrorsAre
<1>6. \A s \in Lost : life'[s].state = "error" /\ life'[s].step = life[s].step
  <2> SUFFICES ASSUME NEW s \in Lost
               PROVE  life'[s].state = "error" /\ life'[s].step = life[s].step
    OBVIOUS
  <2>1. PICK l : l = life[s] /\ l \in Life
    BY <1>1 DEF LifeOK, Lost
  <2>2. life'[s] = [l EXCEPT !.state = "error"]
    BY <1>2, <2>1 DEF Lost
  <2>3. QED  BY <2>1, <2>2 DEF Life
<1>7. Ends(ms)
  BY <1>5, <1>6 DEF Ends
<1>8. ASSUME NEW u \in Sequence, u \in Lost
      PROVE  Tells(ms, u)
  <2>1. PICK i \in DOMAIN ms : ms[i] = Message("error", u)
    BY <1>5, <1>8
  <2>2. ms[i].seq = u
    BY <1>1, <2>1, MessageType
  <2>3. AboutIn(ms, u) # {} /\ \A k \in AboutIn(ms, u) : ms[k].kind = "error"
    BY <1>5, <2>2 DEF AboutIn
  <2>4. StepsIn(ms, u) = {}
    BY <2>3 DEF StepsIn, StepKinds
  <2>5. \A k \in AboutIn(ms, u) : StatusOf(ms[k]) = "error"
    BY <2>3 DEF StatusOf
  <2>6. QED  BY <1>6, <1>8, <2>3, <2>4, <2>5 DEF Tells, Unseen
<1>9. ASSUME NEW u \in Sequence, u \notin Lost
      PROVE  AboutIn(ms, u) = {} /\ life'[u] = life[u]
  BY <1>2, <1>5, <1>9 DEF AboutIn, Lost
<1>10. TellsAll(ms)
  BY <1>3, <1>5, <1>7, <1>8, <1>9 DEF TellsAll
<1>11. QED  BY <1>10

\* So the page follows whatever the server does.
LEMMA TellsFollow ==
  ASSUME TypeInv, FollowInv, NEW ms, TellsAll(ms), entries' = entries, dismissed' = dismissed
  PROVE  FollowInv'
<1>1. inbox \in Seq(Broadcasts) /\ ms \in Seq(Broadcasts) /\ Broadcast(ms)
  BY DEF TypeInv, ServerOK, TellsAll
<1>2. ASSUME NEW s \in Sequence, s \notin missed', s \notin dismissed'
      PROVE  Follows(s)'
  <2>1. s \in missed \/ Follows(s)
    BY <1>2 DEF FollowInv
  <2>2. Tells(ms, s) \/ (AboutIn(ms, s) = {} /\ life'[s] = life[s])
    BY DEF TellsAll
  <2>3. QED  BY <1>1, <1>2, <2>1, <2>2, BroadcastFollows
<1>3. QED  BY <1>2 DEF FollowInv

\* A sequence that has not been started is not known to the page, nor spoken of.
LEMMA UnbornIsUnknown ==
  ASSUME TypeInv, EndsTrue, NEW s \in Sequence, Follows(s), life[s].state = "none"
  PROVE  AboutIn(inbox, s) = {} /\ IndexOf(s) = {}
<1>1. AboutIn(inbox, s) = {}
  BY DEF AboutIn, EndsTrue
<1>2. \A e \in IndexOf(s) : entries[e].status = "none"
  BY <1>1 DEF Follows, StatusInv
<1>3. entries \in Seq(Shows)
  BY DEF TypeInv, PageOK
<1>4. \A e \in IndexOf(s) : entries[e] \in Shows
  BY <1>3 DEF IndexOf
<1>5. QED  BY <1>1, <1>2, <1>4 DEF Shows

\* A start is told to nobody.
LEMMA BirthFollows ==
  ASSUME TypeInv, EndsTrue, FollowInv, NEW s \in Sequence, NEW n, NEW auto, Start(s, n, auto),
         UNCHANGED <<inbox, entries, missed, dismissed>>
  PROVE  FollowInv'
<1>0. LifeOK
  BY DEF TypeInv
<1>1. /\ life[s].state = "none" /\ life'[s].state = "new"
      /\ \A u \in Sequence : u # s => life'[u] = life[u]
  BY <1>0 DEF Start, LifeOK, Unborn
<1>2. ASSUME NEW u \in Sequence, u \notin missed, u \notin dismissed
      PROVE  Follows(u)'
  <2>1. Follows(u)
    BY <1>2 DEF FollowInv
  <2>2. AboutIn(inbox, u)' = AboutIn(inbox, u) /\ IndexOf(u)' = IndexOf(u)
    BY DEF AboutIn, IndexOf
  <2>3. CASE u = s
    <3>1. AboutIn(inbox, u) = {} /\ IndexOf(u) = {}
      BY <1>1, <2>1, <2>3, UnbornIsUnknown
    <3>2. AboutIn(inbox, u)' = {} /\ IndexOf(u)' = {} /\ StepsIn(inbox, u)' = {}
      BY <2>2, <3>1 DEF StepsIn
    <3>3. QED  BY <1>1, <2>3, <3>2 DEF Follows, KnownInv, StatusInv, StepInv, Unseen
  <2>4. CASE u # s
    <3>1. SameEntries(u)
      BY <2>2 DEF SameEntries, Known
    <3>2. QED  BY <1>1, <2>1, <2>2, <2>4, <3>1, SilentFollows
  <2>5. QED  BY <2>3, <2>4
<1>3. QED  BY <1>2 DEF FollowInv

\* What the tab takes from the head of the inbox.
Taken ==
  /\ inbox \in Seq(Broadcasts) /\ 1 \in DOMAIN inbox
  /\ DOMAIN inbox \subseteq Nat \ {0} /\ DOMAIN inbox' \subseteq Nat \ {0}
  /\ \A i \in DOMAIN inbox' : i + 1 \in DOMAIN inbox /\ inbox'[i] = inbox[i + 1]
  /\ \A j \in DOMAIN inbox : 1 < j => j - 1 \in DOMAIN inbox' /\ inbox'[j - 1] = inbox[j]

LEMMA TakenAbout ==
  ASSUME Taken, NEW s \in Sequence
  PROVE  /\ \A i \in AboutIn(inbox, s)' : i + 1 \in AboutIn(inbox, s) /\ inbox'[i] = inbox[i + 1]
         /\ \A j \in AboutIn(inbox, s) : 1 < j => j - 1 \in AboutIn(inbox, s)' /\ inbox'[j - 1] = inbox[j]
         /\ \A i \in StepsIn(inbox, s)' : i + 1 \in StepsIn(inbox, s) /\ inbox'[i] = inbox[i + 1]
         /\ \A j \in StepsIn(inbox, s) : 1 < j => j - 1 \in StepsIn(inbox, s)' /\ inbox'[j - 1] = inbox[j]
         /\ AboutIn(inbox, s) \subseteq Nat \ {0} /\ AboutIn(inbox, s)' \subseteq Nat \ {0}
         /\ inbox[1].seq = s <=> 1 \in AboutIn(inbox, s)
<1>1. /\ \A i \in AboutIn(inbox, s)' : i + 1 \in AboutIn(inbox, s) /\ inbox'[i] = inbox[i + 1]
      /\ \A j \in AboutIn(inbox, s) : 1 < j => j - 1 \in AboutIn(inbox, s)' /\ inbox'[j - 1] = inbox[j]
      /\ AboutIn(inbox, s) \subseteq Nat \ {0} /\ AboutIn(inbox, s)' \subseteq Nat \ {0}
      /\ inbox[1].seq = s <=> 1 \in AboutIn(inbox, s)
  BY DEF Taken, AboutIn
<1>2. QED  BY <1>1 DEF StepsIn

\* What stays on its way after the head is taken still ends with the truth.
LEMMA RestFollows ==
  ASSUME Taken, NEW s \in Sequence, Follows(s), life'[s] = life[s]
  PROVE  /\ \A i \in AboutIn(inbox, s)' :
              (\A k \in AboutIn(inbox, s)' : k <= i) => StatusOf(inbox[i])' = life'[s].state
         /\ \A i \in StepsIn(inbox, s)' :
              (\A k \in StepsIn(inbox, s)' : k <= i) => inbox'[i].step = life'[s].step
<1> DEFINE A == AboutIn(inbox, s)
           B == AboutIn(inbox, s)'
           T == StepsIn(inbox, s)
           U == StepsIn(inbox, s)'
<1>1. /\ \A i \in B : i + 1 \in A /\ inbox'[i] = inbox[i + 1]
      /\ \A j \in A : 1 < j => j - 1 \in B
      /\ \A i \in U : i + 1 \in T /\ inbox'[i] = inbox[i + 1]
      /\ \A j \in T : 1 < j => j - 1 \in U
      /\ A \subseteq Nat \ {0} /\ B \subseteq Nat \ {0}
  BY TakenAbout
<1>2. T \subseteq A /\ U \subseteq B
  BY DEF StepsIn
<1>3. ASSUME NEW i \in B, \A k \in B : k <= i
      PROVE  StatusOf(inbox[i])' = life'[s].state
  <2>1. PICK j : j = i + 1
    OBVIOUS
  <2>2. j \in A /\ inbox'[i] = inbox[j]
    BY <1>1, <2>1
  <2>3. \A k \in A : k <= j
    BY <1>1, <1>3, <2>1
  <2>4. StatusOf(inbox[j]) = life[s].state
    BY <2>2, <2>3 DEF Follows, StatusInv
  <2>5. QED  BY <2>2, <2>4 DEF StatusOf, StatusAfter
<1>4. ASSUME NEW i \in U, \A k \in U : k <= i
      PROVE  inbox'[i].step = life'[s].step
  <2>1. PICK j : j = i + 1
    OBVIOUS
  <2>2. j \in T /\ inbox'[i] = inbox[j]
    BY <1>1, <2>1
  <2>3. \A k \in T : k <= j
    BY <1>1, <1>2, <1>4, <2>1
  <2>4. QED  BY <2>2, <2>3 DEF Follows, StepInv
<1>5. QED  BY <1>3, <1>4

\* A message about another sequence.
LEMMA ReceiveOther ==
  ASSUME Taken, NEW s \in Sequence, Follows(s), life'[s] = life[s], inbox[1].seq # s, SameEntries(s)
  PROVE  Follows(s)'
<1> DEFINE A == AboutIn(inbox, s)
           B == AboutIn(inbox, s)'
<1>1. /\ \A i \in B : i + 1 \in A /\ inbox'[i] = inbox[i + 1]
      /\ \A j \in A : j - 1 \in B /\ inbox'[j - 1] = inbox[j]
      /\ \A j \in StepsIn(inbox, s) : j - 1 \in StepsIn(inbox, s)'
      /\ A \subseteq Nat \ {0} /\ B \subseteq Nat \ {0}
  BY TakenAbout DEF StepsIn
<1>2. KnownInv(s)'
  <2>1. Known(s)' \/ life'[s].state \in Unseen \/ \E i \in B : inbox'[i].kind = "started"
    BY <1>1 DEF Follows, KnownInv, SameEntries
  <2>2. ASSUME NEW i \in B, inbox'[i].kind = "completed"
        PROVE  Known(s)' \/ \E j \in B : j < i /\ inbox'[j].kind = "started"
    <3>1. i + 1 \in A /\ inbox[i + 1].kind = "completed"
      BY <1>1, <2>2
    <3>2. Known(s) \/ \E j \in A : j < i + 1 /\ inbox[j].kind = "started"
      BY <3>1 DEF Follows, KnownInv
    <3>3. CASE Known(s)
      BY <3>3 DEF SameEntries
    <3>4. CASE \E j \in A : j < i + 1 /\ inbox[j].kind = "started"
      <4>1. PICK j \in A : j < i + 1 /\ inbox[j].kind = "started"
        BY <3>4
      <4>2. PICK h : h = j - 1
        OBVIOUS
      <4>3. h \in B /\ inbox'[h].kind = "started" /\ h < i
        BY <1>1, <4>1, <4>2
      <4>4. QED  BY <4>3
    <3>5. QED  BY <3>2, <3>3, <3>4
  <2>3. QED  BY <2>1, <2>2 DEF KnownInv
<1>3. StatusInv(s)'
  <2>1. B = {} => \A e \in IndexOf(s)' : entries'[e].status = life'[s].state
    BY <1>1 DEF Follows, StatusInv, SameEntries
  <2>2. QED  BY <2>1, RestFollows DEF StatusInv
<1>4. StepInv(s)'
  <2>1. StepsIn(inbox, s)' = {} => \A e \in IndexOf(s)' : entries'[e].step = life'[s].step
    BY <1>1 DEF Follows, StepInv, SameEntries
  <2>2. QED  BY <2>1, RestFollows DEF StepInv
<1>5. QED  BY <1>2, <1>3, <1>4 DEF Follows

\* A message about a step of s: the page shows what it says.
LEMMA ReceiveStep ==
  ASSUME Taken, NEW s \in Sequence, Follows(s), life'[s] = life[s], inbox[1].seq = s,
         inbox[1].kind \in StepKinds, Known(s)',
         \A e \in IndexOf(s)' : entries'[e].status = StatusOf(inbox[1]) /\ entries'[e].step = inbox[1].step
  PROVE  Follows(s)'
<1> DEFINE A == AboutIn(inbox, s)
           T == StepsIn(inbox, s)
<1>1. 1 \in A /\ 1 \in T /\ A \subseteq Nat \ {0}
  BY TakenAbout DEF StepsIn
<1>2. /\ \A j \in A : 1 < j => j - 1 \in AboutIn(inbox, s)'
      /\ \A j \in T : 1 < j => j - 1 \in StepsIn(inbox, s)'
  BY TakenAbout
<1>3. KnownInv(s)'
  BY DEF KnownInv
<1>4. StatusInv(s)'
  <2>1. AboutIn(inbox, s)' = {} => \A e \in IndexOf(s)' : entries'[e].status = life'[s].state
    <3> SUFFICES ASSUME AboutIn(inbox, s)' = {} PROVE StatusOf(inbox[1]) = life[s].state
      OBVIOUS
    <3>1. \A j \in A : j <= 1
      BY <1>1, <1>2
    <3>2. QED  BY <1>1, <3>1 DEF Follows, StatusInv
  <2>2. QED  BY <2>1, RestFollows DEF StatusInv
<1>5. StepInv(s)'
  <2>1. StepsIn(inbox, s)' = {} => \A e \in IndexOf(s)' : entries'[e].step = life'[s].step
    <3> SUFFICES ASSUME StepsIn(inbox, s)' = {} PROVE inbox[1].step = life[s].step
      OBVIOUS
    <3>1. T \subseteq A
      BY DEF StepsIn
    <3>2. \A j \in T : j <= 1
      BY <1>1, <1>2, <3>1
    <3>3. QED  BY <1>1, <3>2 DEF Follows, StepInv
  <2>2. QED  BY <2>1, RestFollows DEF StepInv
<1>6. QED  BY <1>3, <1>4, <1>5 DEF Follows

\* The end of s: only the status changes, if the page knows s at all.
LEMMA ReceiveEnd ==
  ASSUME Taken, NEW s \in Sequence, Follows(s), life'[s] = life[s], inbox[1].seq = s,
         inbox[1].kind \in {"done", "error"}, IndexOf(s)' = IndexOf(s),
         \A e \in IndexOf(s) : entries'[e].status = inbox[1].kind /\ entries'[e].step = entries[e].step
  PROVE  Follows(s)'
<1> DEFINE A == AboutIn(inbox, s)
           B == AboutIn(inbox, s)'
           T == StepsIn(inbox, s)
<1>1. /\ \A i \in B : i + 1 \in A /\ inbox'[i] = inbox[i + 1]
      /\ \A j \in A : 1 < j => j - 1 \in B /\ inbox'[j - 1] = inbox[j]
      /\ \A j \in T : 1 < j => j - 1 \in StepsIn(inbox, s)'
      /\ 1 \in A /\ A \subseteq Nat \ {0} /\ B \subseteq Nat \ {0}
  BY TakenAbout
<1>2. Known(s)' <=> Known(s)
  BY DEF Known
<1>3. T \subseteq A /\ 1 \notin T /\ inbox[1].kind # "started"
  BY DEF StepsIn, StepKinds
<1>4. KnownInv(s)'
  <2>1. ASSUME NEW j \in A, inbox[j].kind = "started"
        PROVE  j - 1 \in B /\ inbox'[j - 1].kind = "started"
    <3>1. j # 1
      BY <1>3, <2>1
    <3>2. QED  BY <1>1, <2>1, <3>1
  <2>2. Known(s)' \/ life'[s].state \in Unseen \/ \E i \in B : inbox'[i].kind = "started"
    BY <1>2, <2>1 DEF Follows, KnownInv
  <2>3. ASSUME NEW i \in B, inbox'[i].kind = "completed", ~Known(s)
        PROVE  \E j \in B : j < i /\ inbox'[j].kind = "started"
    <3>1. i + 1 \in A /\ inbox[i + 1].kind = "completed"
      BY <1>1, <2>3
    <3>2. PICK j \in A : j < i + 1 /\ inbox[j].kind = "started"
      BY <2>3, <3>1 DEF Follows, KnownInv
    <3>3. PICK h : h = j - 1
      OBVIOUS
    <3>4. h \in B /\ inbox'[h].kind = "started"
      BY <2>1, <3>2, <3>3
    <3>5. h < i
      BY <1>1, <3>2, <3>3
    <3>6. QED  BY <3>4, <3>5
  <2>4. QED  BY <1>2, <2>2, <2>3 DEF KnownInv
<1>5. StatusInv(s)'
  <2>1. B = {} => \A e \in IndexOf(s)' : entries'[e].status = life'[s].state
    <3> SUFFICES ASSUME B = {} PROVE inbox[1].kind = life[s].state
      OBVIOUS
    <3>1. \A j \in A : j <= 1
      BY <1>1
    <3>2. StatusOf(inbox[1]) = life[s].state
      BY <1>1, <3>1 DEF Follows, StatusInv
    <3>3. QED  BY <3>2 DEF StatusOf
  <2>2. QED  BY <2>1, RestFollows DEF StatusInv
<1>6. StepInv(s)'
  <2>1. StepsIn(inbox, s)' = {} => \A e \in IndexOf(s)' : entries'[e].step = life'[s].step
    <3> SUFFICES ASSUME StepsIn(inbox, s)' = {}
                 PROVE  \A e \in IndexOf(s) : entries[e].step = life[s].step
      OBVIOUS
    <3>1. T = {}
      BY <1>1, <1>3
    <3>2. QED  BY <3>1 DEF Follows, StepInv
  <2>2. QED  BY <2>1, RestFollows DEF StepInv
<1>7. QED  BY <1>4, <1>5, <1>6 DEF Follows

\* What is taken from the inbox, and what becomes of the page, leaves every sequence the
\* page may speak of followed.
LEMMA ReceiveFollows ==
  ASSUME TypeInv, FollowInv, Receive
  PROVE  FollowInv'
<1>1. /\ inbox \in Seq(Broadcasts) /\ inbox # <<>> /\ inbox' = Tail(inbox)
      /\ life' = life /\ missed' = missed /\ dismissed' = dismissed
      /\ entries \in Seq(Shows)
  BY DEF TypeInv, ServerOK, PageOK, Receive, server
<1>2. Taken
  BY <1>1, TailFacts DEF Taken
<1>3. PICK m : m = Head(inbox)
  OBVIOUS
<1>4. m = inbox[1] /\ m \in Broadcasts
  BY <1>3, ReceiveIs
<1>5. \/ /\ m.kind = "started" /\ ShownAs(m, "running") \in Shows
         /\ Put(ShownAs(m, "running"))
      \/ /\ m.kind = "completed" /\ Known(m.seq) /\ ShownAs(m, StatusAfter(m)) \in Shows
         /\ Put(ShownAs(m, StatusAfter(m)))
      \/ m.kind = "completed" /\ ~Known(m.seq) /\ UNCHANGED entries
      \/ m.kind \in {"done", "error"} /\ Update(m.seq, m.kind)
  BY <1>3, ReceiveIs
<1>6. ASSUME NEW s \in Sequence, Follows(s)
      PROVE  Follows(s)'
  <2>1. CASE \E e \in Shows : /\ Put(e) /\ e.seq = m.seq /\ e.step = m.step
                              /\ e.status = StatusOf(m) /\ m.kind \in StepKinds
    <3>1. PICK e \in Shows : /\ Put(e) /\ e.seq = m.seq /\ e.step = m.step
                             /\ e.status = StatusOf(m) /\ m.kind \in StepKinds
      BY <2>1
    <3>2. /\ \A i \in DOMAIN entries' :
               IF entries'[i].seq = e.seq THEN entries'[i] = e
                                          ELSE i \in DOMAIN entries /\ entries'[i] = entries[i]
          /\ \A i \in DOMAIN entries :
               /\ i \in DOMAIN entries' /\ entries'[i].seq = entries[i].seq
               /\ entries[i].seq # e.seq => entries'[i] = entries[i]
          /\ \E i \in DOMAIN entries' : entries'[i].seq = e.seq
      BY <1>1, <3>1, PutFacts
    <3>3. CASE m.seq = s
      <4>1. Known(s)'
        BY <3>1, <3>2, <3>3 DEF Known, IndexOf
      <4>2. \A i \in IndexOf(s)' : entries'[i].status = StatusOf(m) /\ entries'[i].step = m.step
        BY <3>1, <3>2, <3>3 DEF IndexOf
      <4>3. \A i \in IndexOf(s)' : entries'[i].status = StatusOf(inbox[1]) /\ entries'[i].step = inbox[1].step
        BY <1>4, <4>2
      <4>4. inbox[1].seq = s /\ inbox[1].kind \in StepKinds /\ life'[s] = life[s]
        BY <1>1, <1>4, <3>1, <3>3
      <4>5. QED  BY <1>2, <1>6, <4>1, <4>3, <4>4, ReceiveStep
    <3>4. CASE m.seq # s
      <4>1. SameEntries(s)
        BY <3>1, <3>2, <3>4 DEF SameEntries, Known, IndexOf
      <4>2. inbox[1].seq # s /\ life'[s] = life[s]
        BY <1>1, <1>4, <3>4
      <4>3. QED  BY <1>2, <1>6, <4>1, <4>2, ReceiveOther
    <3>5. QED  BY <3>3, <3>4
  <2>2. CASE m.kind = "completed" /\ ~Known(m.seq) /\ UNCHANGED entries
    <3>1. m.seq # s
      <4> SUFFICES ASSUME m.seq = s PROVE FALSE
        OBVIOUS
      <4>1. 1 \in AboutIn(inbox, s) /\ AboutIn(inbox, s) \subseteq Nat \ {0}
        BY <1>2, <1>4, TakenAbout
      <4>2. \E j \in AboutIn(inbox, s) : j < 1
        BY <1>4, <1>6, <2>2, <4>1 DEF Follows, KnownInv
      <4>3. QED  BY <4>1, <4>2
    <3>2. SameEntries(s)
      BY <2>2 DEF SameEntries, Known, IndexOf
    <3>3. inbox[1].seq # s /\ life'[s] = life[s]
      BY <1>1, <1>4, <3>1
    <3>4. QED  BY <1>2, <1>6, <3>2, <3>3, ReceiveOther
  <2>3. CASE m.kind \in {"done", "error"} /\ Update(m.seq, m.kind)
    <3>1. /\ DOMAIN entries' = DOMAIN entries
          /\ \A i \in DOMAIN entries :
               /\ entries'[i].seq = entries[i].seq /\ entries'[i].step = entries[i].step
               /\ entries'[i].status = IF entries[i].seq = m.seq THEN m.kind ELSE entries[i].status
      <4>1. m.kind \in {"running", "paused", "done", "error"} /\ Update(m.seq, m.kind)
        BY <2>3
      <4>2. QED  BY <1>1, <4>1, UpdateFacts
    <3>2. IndexOf(s)' = IndexOf(s)
      BY <3>1 DEF IndexOf
    <3>3. CASE m.seq = s
      <4>1. \A e \in IndexOf(s) : entries'[e].status = m.kind /\ entries'[e].step = entries[e].step
        BY <3>1, <3>3 DEF IndexOf
      <4>2. \A e \in IndexOf(s) : entries'[e].status = inbox[1].kind /\ entries'[e].step = entries[e].step
        BY <1>4, <4>1
      <4>3. inbox[1].seq = s /\ inbox[1].kind \in {"done", "error"} /\ life'[s] = life[s]
        BY <1>1, <1>4, <2>3, <3>3
      <4>4. QED  BY <1>2, <1>6, <3>2, <4>2, <4>3, ReceiveEnd
    <3>4. CASE m.seq # s
      <4>1. \A i \in IndexOf(s) : entries'[i] = entries[i]
        <5> SUFFICES ASSUME NEW i \in IndexOf(s) PROVE entries'[i] = entries[i]
          OBVIOUS
        <5>1. i \in DOMAIN entries /\ entries[i].seq = s
          BY DEF IndexOf
        <5>2. QED  BY <2>3, <3>4, <5>1 DEF Update
      <4>2. SameEntries(s)
        BY <3>2, <4>1 DEF SameEntries, Known
      <4>3. inbox[1].seq # s /\ life'[s] = life[s]
        BY <1>1, <1>4, <3>4
      <4>4. QED  BY <1>2, <1>6, <4>2, <4>3, ReceiveOther
    <3>5. QED  BY <3>3, <3>4
  <2>4. m.kind = "started" /\ Put(ShownAs(m, "running")) => StatusOf(m) = "running"
    BY DEF StatusOf
  <2>5. m.kind = "completed" => StatusOf(m) = StatusAfter(m)
    BY DEF StatusOf
  <2>6. \A status : /\ ShownAs(m, status).seq = m.seq /\ ShownAs(m, status).step = m.step
                    /\ ShownAs(m, status).status = status
    BY DEF ShownAs
  <2>7. QED  BY <1>5, <2>1, <2>2, <2>3, <2>4, <2>5, <2>6 DEF StepKinds
<1>7. QED  BY <1>1, <1>6 DEF FollowInv

LEMMA SocketFollows ==
  ASSUME TypeInv, FollowInv, SocketDies \/ SocketCloses \/ SocketOpens
  PROVE  FollowInv'
<1>1. life' = life /\ entries' = entries /\ dismissed' = dismissed
  BY DEF SocketDies, SocketCloses, SocketOpens, server
<1>2. ASSUME NEW s \in Sequence, s \notin missed', s \notin dismissed
      PROVE  Follows(s)'
  <2>1. SameEntries(s)
    BY <1>1 DEF SameEntries, Known, IndexOf
  <2>2. s \notin missed /\ AboutIn(inbox, s)' = AboutIn(inbox, s)
        /\ \A i \in AboutIn(inbox, s) : inbox'[i] = inbox[i]
    <3>1. CASE SocketDies
      <4>1. inbox' = <<>> /\ missed' = missed \cup {m.seq : m \in ToSet(inbox)}
        BY <3>1 DEF SocketDies
      <4>2. \A i \in DOMAIN inbox : inbox[i] \in ToSet(inbox)
        BY DEF ToSet
      <4>3. AboutIn(inbox, s) = {}
        BY <1>2, <4>1, <4>2 DEF AboutIn
      <4>4. AboutIn(inbox, s)' = {}
        BY <4>1 DEF AboutIn
      <4>5. QED  BY <1>2, <4>1, <4>3, <4>4
    <3>2. CASE SocketCloses \/ SocketOpens
      BY <1>2, <3>2 DEF SocketCloses, SocketOpens, AboutIn
    <3>3. QED  BY <3>1, <3>2
  <2>3. Follows(s)
    BY <1>2, <2>2 DEF FollowInv
  <2>4. QED  BY <1>1, <2>1, <2>2, <2>3, SilentFollows
<1>3. QED  BY <1>1, <1>2 DEF FollowInv

LEMMA DismissFollows ==
  ASSUME TypeInv, FollowInv, ClickDismiss
  PROVE  FollowInv'
<1>1. PICK i \in DOMAIN entries : /\ entries' = RemoveAt(entries, i)
                                  /\ dismissed' = dismissed \cup {entries[i].seq}
  BY DismissIs
<1>2. life' = life /\ inbox' = inbox /\ missed' = missed
  BY DEF ClickDismiss, server
<1>3. /\ \A k \in DOMAIN entries' : \E n \in DOMAIN entries : entries'[k] = entries[n]
      /\ \A n \in DOMAIN entries : n # i => \E k \in DOMAIN entries' : entries'[k] = entries[n]
  BY <1>1, RemoveFacts DEF TypeInv, PageOK
<1>4. ASSUME NEW s \in Sequence, s \notin missed', s \notin dismissed'
      PROVE  Follows(s)'
  <2>1. Follows(s) /\ s # entries[i].seq
    BY <1>1, <1>2, <1>4 DEF FollowInv
  <2>2. SameEntries(s)
    <3>1. \A k \in IndexOf(s)' : \E j \in IndexOf(s) : entries'[k] = entries[j]
      BY <1>3 DEF IndexOf
    <3>2. ASSUME Known(s) PROVE Known(s)'
      <4>1. PICK n \in DOMAIN entries : entries[n].seq = s
        BY <3>2 DEF Known, IndexOf
      <4>2. PICK k \in DOMAIN entries' : entries'[k] = entries[n]
        BY <1>3, <2>1, <4>1
      <4>3. QED  BY <4>1, <4>2 DEF Known, IndexOf
    <3>3. QED  BY <3>1, <3>2 DEF SameEntries
  <2>3. AboutIn(inbox, s)' = AboutIn(inbox, s)
    BY <1>2 DEF AboutIn
  <2>4. QED  BY <1>2, <2>1, <2>2, <2>3, SilentFollows
<1>5. QED  BY <1>4 DEF FollowInv

\* Nothing the tab follows changes.
LEMMA StillFollows ==
  ASSUME FollowInv, UNCHANGED <<life, inbox, entries, missed, dismissed>>
  PROVE  FollowInv'
<1>1. ASSUME NEW s \in Sequence, Follows(s)
      PROVE  Follows(s)'
  <2>1. SameEntries(s) /\ AboutIn(inbox, s)' = AboutIn(inbox, s)
    BY DEF SameEntries, Known, IndexOf, AboutIn
  <2>2. QED  BY <1>1, <2>1, SilentFollows
<1>2. QED  BY <1>1 DEF FollowInv

\* What a step does that neither takes from the inbox nor changes the page: it tells all,
\* or a sequence is born.
LEMMA ServerIs ==
  ASSUME TypeInv, TypeInv', ServerStep
  PROVE  /\ entries' = entries /\ dismissed' = dismissed
         /\ \/ \E ms : TellsAll(ms)
            \/ /\ \E s \in Sequence, n \in 1..MaxSteps, auto \in BOOLEAN : Start(s, n, auto)
               /\ UNCHANGED <<inbox, missed>>
<1>1. entries' = entries /\ dismissed' = dismissed
  BY DEF ServerStep, ServeEnter, ServeComplete, ServeFinish, ServeFail, ServeAdvance, ServeEcho,
         OtherStarts, ServeNodeLost, UnchangedPage
<1>2. ASSUME NEW s \in Sequence, OtherStarts(s)
      PROVE  /\ \E u \in Sequence, n \in 1..MaxSteps, auto \in BOOLEAN : Start(u, n, auto)
             /\ UNCHANGED <<inbox, missed>>
  <2>1. PICK n \in 1..MaxQueue, auto \in BOOLEAN : Start(s, n, auto)
    BY <1>2 DEF OtherStarts
  <2>2. n \in 1..MaxSteps /\ inbox' = inbox /\ missed' = missed
    BY <1>2 DEF OtherStarts
  <2>3. QED  BY <2>1, <2>2
<1>3. QED  BY <1>1, <1>2, MoveTold, EchoTold, LossTold DEF ServerStep

LEMMA BuilderIs ==
  ASSUME TypeInv, Builder
  PROVE  /\ UNCHANGED <<inbox, entries, missed, dismissed>>
         /\ \/ \E s \in Sequence, n \in 1..MaxSteps, auto \in BOOLEAN : Start(s, n, auto)
            \/ UNCHANGED life
<1>1. CASE Edit
  BY <1>1, EditKeeps
<1>2. CASE HandleStart
  <2>1. /\ UNCHANGED <<inbox, entries, missed, dismissed>>
        /\ Len(queue) \in 1..MaxSteps
        /\ life' = life \/ \E s \in Here : Start(s, Len(queue), autoMode)
    BY <1>2, HandleStartIs
  <2>2. autoMode \in BOOLEAN
    BY DEF TypeInv, PageOK
  <2>3. QED  BY <2>1, <2>2
<1>3. QED  BY <1>1, <1>2 DEF Builder, Edit

\* A sequence that was started was started for good, and one that is over stays so.
LEMMA LifeStays ==
  ASSUME TypeInv, TypeInv', [PageNext]_pageVars, NEW s \in Sequence
  PROVE  /\ life[s].state # "none" => life'[s].state # "none"
         /\ life[s].state \in {"done", "error"} => life'[s] = life[s]
<1>0. LifeOK /\ LifeInv
  BY DEF TypeInv
<1>1. CASE life' = life
  BY <1>1
<1>2. ASSUME NEW u \in Sequence, NEW n, NEW auto, Start(u, n, auto)
      PROVE  /\ life[s].state # "none" => life'[s].state # "none"
             /\ life[s].state \in {"done", "error"} => life'[s] = life[s]
  <2>1. life[u].state = "none" /\ \A v \in Sequence : v # u => life'[v] = life[v]
    BY <1>0, <1>2 DEF Start, LifeOK, Unborn
  <2>2. QED  BY <2>1
<1>3. ASSUME NEW u \in Sequence, Moves(u)
      PROVE  /\ life[s].state # "none" => life'[s].state # "none"
             /\ life[s].state \in {"done", "error"} => life'[s] = life[s]
  <2>1. /\ \A v \in Sequence : v # u => life'[v] = life[v]
        /\ life[u].state \in Ongoing /\ life'[u].state # "none"
    BY <1>0, <1>3, MoveLife
  <2>2. QED  BY <2>1 DEF Ongoing
<1>4. CASE ServeNodeLost
  <2>1. FailAll
    BY <1>4 DEF ServeNodeLost
  <2>2. /\ life[s].state \in Ongoing => life'[s] = [life[s] EXCEPT !.state = "error"]
        /\ life[s].state \notin Ongoing => life'[s] = life[s]
    BY <1>0, <2>1, FailAllLife
  <2>3. PICK l : l = life[s] /\ l \in Life
    BY <1>0 DEF LifeOK
  <2>4. [l EXCEPT !.state = "error"].state = "error"
    BY <2>3 DEF Life
  <2>5. QED  BY <2>2, <2>3, <2>4 DEF Ongoing
<1>5. CASE ServerStep /\ ~ServeNodeLost
  <2>1. PICK u \in Sequence :
          ServeEnter(u) \/ ServeComplete(u) \/ ServeFinish(u) \/ ServeFail(u) \/ ServeAdvance(u)
            \/ ServeEcho(u) \/ OtherStarts(u)
    BY <1>5 DEF ServerStep
  <2>2. CASE ServeEcho(u)
    BY <1>1, <2>2 DEF ServeEcho
  <2>3. CASE OtherStarts(u)
    BY <1>2, <2>3 DEF OtherStarts
  <2>4. CASE ~ServeEcho(u) /\ ~OtherStarts(u)
    BY <1>3, <2>1, <2>4
    DEF Moves, ServeEnter, ServeComplete, ServeFinish, ServeFail, ServeAdvance
  <2>5. QED  BY <2>2, <2>3, <2>4
<1>6. CASE Builder
  BY <1>1, <1>2, <1>6, BuilderIs
<1>7. CASE Receive \/ SocketDies \/ SocketCloses \/ SocketOpens \/ ClickDismiss \/ UNCHANGED pageVars
  BY <1>1, <1>7 DEF Receive, SocketDies, SocketCloses, SocketOpens, ClickDismiss, server, pageVars
<1>8. QED  BY <1>4, <1>5, <1>6, <1>7, StepIs

\* An end, said or shown, that was true stays true.
LEMMA EndsKept ==
  ASSUME TypeInv, TypeInv', EndsTrue, [PageNext]_pageVars,
         \A i \in DOMAIN inbox' :
           \/ \E j \in DOMAIN inbox : inbox'[i] = inbox[j]
           \/ /\ life'[inbox'[i].seq].state # "none"
              /\ inbox'[i].kind \in {"done", "error"} => life'[inbox'[i].seq].state = inbox'[i].kind,
         \A i \in DOMAIN entries' :
           \/ \E j \in DOMAIN entries : entries'[i] = entries[j]
           \/ entries'[i].status \in {"done", "error"} =>
                life'[entries'[i].seq].state = entries'[i].status
  PROVE  EndsTrue'
<1>1. /\ \A j \in DOMAIN inbox : inbox[j].seq \in Sequence
      /\ \A j \in DOMAIN entries : entries[j].seq \in Sequence
  <2>1. inbox \in Seq(Broadcasts) /\ entries \in Seq(Shows)
    BY DEF TypeInv, ServerOK, PageOK
  <2>2. /\ \A j \in DOMAIN inbox : inbox[j] \in Broadcasts
        /\ \A j \in DOMAIN entries : entries[j] \in Shows
    BY <2>1
  <2>3. QED  BY <2>2 DEF Broadcasts, Shows
<1>2. ASSUME NEW i \in DOMAIN inbox'
      PROVE  /\ life'[inbox'[i].seq].state # "none"
             /\ inbox'[i].kind \in {"done", "error"} => life'[inbox'[i].seq].state = inbox'[i].kind
  <2>1. CASE \E j \in DOMAIN inbox : inbox'[i] = inbox[j]
    <3>1. PICK j \in DOMAIN inbox : inbox'[i] = inbox[j]
      BY <2>1
    <3>2. PICK s \in Sequence : s = inbox[j].seq
      BY <1>1
    <3>3. /\ life[s].state # "none"
          /\ inbox[j].kind \in {"done", "error"} => life[s].state = inbox[j].kind
      BY <3>2 DEF EndsTrue
    <3>4. QED  BY <3>1, <3>2, <3>3, LifeStays
  <2>2. QED  BY <2>1
<1>3. ASSUME NEW i \in DOMAIN entries', entries'[i].status \in {"done", "error"}
      PROVE  life'[entries'[i].seq].state = entries'[i].status
  <2>1. CASE \E j \in DOMAIN entries : entries'[i] = entries[j]
    <3>1. PICK j \in DOMAIN entries : entries'[i] = entries[j]
      BY <2>1
    <3>2. PICK s \in Sequence : s = entries[j].seq
      BY <1>1
    <3>3. life[s].state = entries[j].status /\ entries[j].status \in {"done", "error"}
      BY <1>3, <3>1, <3>2 DEF EndsTrue
    <3>4. QED  BY <3>1, <3>2, <3>3, LifeStays
  <2>2. QED  BY <1>3, <2>1
<1>4. QED  BY <1>2, <1>3 DEF EndsTrue

LEMMA EndsStep ==
  ASSUME TypeInv, TypeInv', EndsTrue, [PageNext]_pageVars
  PROVE  EndsTrue'
<1>0. inbox \in Seq(Broadcasts) /\ entries \in Seq(Shows)
  BY DEF TypeInv, ServerOK, PageOK
<1>1. CASE UNCHANGED <<inbox, entries>>
  BY <1>1, EndsKept
<1>2. CASE UNCHANGED entries /\ \E ms : TellsAll(ms)
  <2>1. PICK ms : TellsAll(ms)
    BY <1>2
  <2>2. ms \in Seq(Broadcasts) /\ Broadcast(ms) /\ Ends(ms)
    BY <2>1 DEF TellsAll
  <2>3. \A i \in DOMAIN ms : life'[ms[i].seq].state # "none"
    <3> SUFFICES ASSUME NEW i \in DOMAIN ms PROVE life'[ms[i].seq].state # "none"
      OBVIOUS
    <3>1. ms[i] \in Broadcasts
      BY <2>2
    <3>2. PICK u \in Sequence : u = ms[i].seq
      BY <3>1 DEF Broadcasts
    <3>3. i \in AboutIn(ms, u)
      BY <3>2 DEF AboutIn
    <3>4. Tells(ms, u)
      BY <2>1, <3>3 DEF TellsAll
    <3>5. QED  BY <3>2, <3>4 DEF Tells
  <2>4. PICK kept \in Seq(Broadcasts) :
           /\ inbox' = inbox \o kept
           /\ \A i \in DOMAIN kept : i \in DOMAIN ms /\ kept[i] = ms[i]
    BY <2>2, BroadcastIs
  <2>5. /\ \A i \in DOMAIN inbox : inbox'[i] = inbox[i]
        /\ \A i \in DOMAIN inbox' :
             i \in DOMAIN inbox \/ (i - Len(inbox) \in DOMAIN kept /\ inbox'[i] = kept[i - Len(inbox)])
    BY <1>0, <2>4, ConcatFacts
  <2>6. \A i \in DOMAIN inbox' :
         \/ \E j \in DOMAIN inbox : inbox'[i] = inbox[j]
         \/ /\ life'[inbox'[i].seq].state # "none"
            /\ inbox'[i].kind \in {"done", "error"} => life'[inbox'[i].seq].state = inbox'[i].kind
    BY <2>2, <2>3, <2>4, <2>5 DEF Ends
  <2>7. QED  BY <1>2, <2>6, EndsKept
<1>3. CASE Receive
  <2>1. inbox' = Tail(inbox) /\ inbox # <<>> /\ life' = life
    BY <1>3 DEF Receive, server
  <2>2. \A i \in DOMAIN inbox' : \E j \in DOMAIN inbox : inbox'[i] = inbox[j]
    BY <1>0, <2>1, TailFacts
  <2>3. PICK m : m = Head(inbox)
    OBVIOUS
  <2>4. m = inbox[1] /\ 1 \in DOMAIN inbox /\ m \in Broadcasts
    BY <1>3, <2>3, ReceiveIs
  <2>5. \/ \E e \in Shows : Put(e) /\ e.status \in {"running", "paused"}
        \/ UNCHANGED entries
        \/ m.kind \in {"done", "error"} /\ Update(m.seq, m.kind)
    BY <1>3, <2>3, ReceiveIs DEF ShownAs, StatusAfter
  <2>6. CASE \E e \in Shows : Put(e) /\ e.status \in {"running", "paused"}
    <3>1. PICK e \in Shows : Put(e) /\ e.status \in {"running", "paused"}
      BY <2>6
    <3>2. \A i \in DOMAIN entries' :
            IF entries'[i].seq = e.seq THEN entries'[i] = e
                                       ELSE i \in DOMAIN entries /\ entries'[i] = entries[i]
      BY <1>0, <3>1, PutFacts
    <3>3. QED  BY <2>2, <3>1, <3>2, EndsKept
  <2>7. CASE m.kind \in {"done", "error"} /\ Update(m.seq, m.kind)
    <3>1. life'[m.seq].state = m.kind
      BY <2>1, <2>4, <2>7 DEF EndsTrue
    <3>2. m.kind \in {"running", "paused", "done", "error"} /\ Update(m.seq, m.kind)
      BY <2>7
    <3>3. /\ DOMAIN entries' = DOMAIN entries
          /\ \A i \in DOMAIN entries :
               /\ entries'[i].seq = entries[i].seq
               /\ entries'[i].status = IF entries[i].seq = m.seq THEN m.kind ELSE entries[i].status
      BY <1>0, <3>2, UpdateFacts
    <3>4. \A i \in DOMAIN entries' :
            entries'[i].status \in {"done", "error"} =>
              life'[entries'[i].seq].state = entries'[i].status
      BY <2>1, <3>1, <3>3 DEF EndsTrue
    <3>5. QED  BY <2>2, <3>4, EndsKept
  <2>8. CASE UNCHANGED entries
    BY <2>2, <2>8, EndsKept
  <2>9. QED  BY <2>5, <2>6, <2>7, <2>8
<1>4. CASE SocketDies
  <2>1. inbox' = <<>> /\ entries' = entries
    BY <1>4 DEF SocketDies
  <2>2. DOMAIN inbox' = {}
    BY <2>1
  <2>3. QED  BY <2>1, <2>2, EndsKept
<1>5. CASE ClickDismiss
  <2>1. PICK i \in DOMAIN entries : entries' = RemoveAt(entries, i)
    BY <1>5, DismissIs
  <2>2. \A k \in DOMAIN entries' : \E n \in DOMAIN entries : entries'[k] = entries[n]
    BY <1>0, <2>1, RemoveFacts
  <2>3. inbox' = inbox
    BY <1>5 DEF ClickDismiss
  <2>4. QED  BY <2>2, <2>3, EndsKept
<1>6. CASE SocketCloses \/ SocketOpens \/ UNCHANGED pageVars
  BY <1>1, <1>6 DEF SocketCloses, SocketOpens, pageVars
<1>7. QED  BY <1>1, <1>2, <1>3, <1>4, <1>5, <1>6, StepIs, ServerIs, BuilderIs

LEMMA FollowStep ==
  ASSUME TypeInv, TypeInv', EndsTrue, FollowInv, [PageNext]_pageVars
  PROVE  FollowInv'
<1>1. CASE ServerStep
  BY <1>1, ServerIs, TellsFollow, BirthFollows
<1>2. CASE Builder
  BY <1>2, BuilderIs, StillFollows, BirthFollows
<1>3. CASE UNCHANGED pageVars
  BY <1>3, StillFollows DEF pageVars
<1>4. QED
  BY <1>1, <1>2, <1>3, StepIs, ReceiveFollows, SocketFollows, DismissFollows

LEMMA PageInitFollows == PageInit => EndsTrue /\ FollowInv
<1> SUFFICES ASSUME PageInit PROVE EndsTrue /\ FollowInv
  OBVIOUS
<1>1. inbox = <<>> /\ entries = <<>> /\ DOMAIN <<>> = {}
  BY DEF PageInit
<1>2. \A s \in Sequence : life[s].state = "none"
  BY DEF PageInit, LifeInit, Unborn
<1>3. \A s \in Sequence : AboutIn(inbox, s) = {} /\ StepsIn(inbox, s) = {} /\ IndexOf(s) = {}
  BY <1>1 DEF AboutIn, StepsIn, IndexOf
<1>4. EndsTrue
  BY <1>1 DEF EndsTrue
<1>5. FollowInv
  BY <1>2, <1>3 DEF FollowInv, Follows, KnownInv, StatusInv, StepInv, Unseen
<1>6. QED  BY <1>4, <1>5

LEMMA FollowImplies == TypeInv /\ EndsTrue /\ FollowInv => EntryFollows
<1> SUFFICES ASSUME TypeInv, EndsTrue, FollowInv PROVE EntryFollows
  OBVIOUS
<1>1. ASSUME NEW s \in Sequence, UpToDate(s)
      PROVE  IF Known(s)
             THEN Entry(s).status = life[s].state /\ Entry(s).step = life[s].step
             ELSE life[s].state \in {"none", "new", "error"}
  <2>1. Follows(s)
    BY <1>1 DEF UpToDate, FollowInv
  <2>2. AboutIn(inbox, s) = {}
    <3>1. \A i \in DOMAIN inbox : inbox[i] \in ToSet(inbox)
      BY DEF ToSet
    <3>2. QED  BY <1>1, <3>1 DEF UpToDate, Waiting, AboutIn
  <2>3. StepsIn(inbox, s) = {}
    BY <2>2 DEF StepsIn
  <2>4. CASE Known(s)
    <3>1. PICK e : e = CHOOSE i \in IndexOf(s) : TRUE
      OBVIOUS
    <3>2. e \in IndexOf(s)
      BY <2>4, <3>1 DEF Known
    <3>3. entries[e].status = life[s].state /\ entries[e].step = life[s].step
      BY <2>1, <2>2, <2>3, <3>2 DEF Follows, StatusInv, StepInv
    <3>4. QED  BY <2>4, <3>1, <3>3 DEF Entry
  <2>5. CASE ~Known(s)
    BY <2>1, <2>2, <2>5 DEF Follows, KnownInv, Unseen
  <2>6. QED  BY <2>4, <2>5
<1>2. ASSUME NEW e \in ToSet(entries), e.status \in {"done", "error"}
      PROVE  life[e.seq].state = e.status
  <2>1. PICK i \in DOMAIN entries : e = entries[i]
    BY DEF ToSet
  <2>2. QED  BY <1>2, <2>1 DEF EndsTrue
<1>3. QED  BY <1>1, <1>2 DEF EntryFollows

\* ShowsTheTruth: a tab that missed no broadcast, and has taken those on their way, shows
\* each sequence the user has not dismissed at its step and with its status on the server;
\* and no tab ever shows the end of a sequence that goes on.
THEOREM ShowsTheTruth == PageSpec => []EntryFollows
<1>1. TypeInv /\ EndsTrue /\ FollowInv /\ [PageNext]_pageVars => (TypeInv /\ EndsTrue /\ FollowInv)'
  BY TypeStep, EndsStep, FollowStep
<1>2. QED  BY <1>1, TypeInit, PageInitFollows, FollowImplies, PTL DEF PageSpec
=============================================================================
