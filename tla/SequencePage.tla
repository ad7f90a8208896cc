---------------------------- MODULE SequencePage ----------------------------
(***************************************************************************)
(* Auto mode in the browser: the toggle (AutoModeToggle), the queue of      *)
(* steps being built (SequenceBuilder), the store's picture of the node's   *)
(* sequences (wsStore) and the panel that shows one of them with its        *)
(* buttons (SequenceProgress), against a server that behaves as             *)
(* SequenceLife says, which is what Sequencer does.  One node with a        *)
(* project, one tab; sequences may also be started from another client.     *)
(***************************************************************************)
EXTENDS SequenceLife, GsdCommands, SequencesExt

CONSTANTS
  Here,          \* the sequences this tab may start
  Elsewhere,     \* those another client may start
  Owned,         \* those of this tab's user: the server obeys no other user
  Pickable,      \* the commands the user adds to the queue
  Clickable,     \* the presets the user clicks
  MaxQueue,      \* bound: steps are added to queues shorter than this
  MaxFaults,     \* bound: losses of the tab's socket, and full queues, together
  MaxLag         \* bound: broadcasts waiting for the tab when the server goes on

ASSUME SequencePageAssumption ==
  /\ Sequence = Here \cup Elsewhere /\ Here \cap Elsewhere = {} /\ IsFiniteSet(Sequence)
  /\ Here \subseteq Owned /\ Owned \subseteq Sequence
  /\ Pickable \subseteq DOMAIN Required /\ Clickable \subseteq DOMAIN Preset
  /\ MaxSteps \in Nat /\ MaxQueue \in 0..MaxSteps
  /\ \A p \in Clickable : Len(Preset[p]) <= MaxSteps
  /\ MaxFaults \in Nat

VARIABLES
  echo,       \* server: tasks that still report their cancellation
  inbox,      \* broadcasts on their way to the tab
  socket,     \* the tab's socket: open, dead (nobody noticed yet) or closed
  faults,     \* losses of the socket and full queues so far
  autoMode,   \* is the node in autoModeNodeIds?
  queue,      \* SequenceBuilder: steps
  selected,   \* SequenceBuilder: selectedPresetId
  entries,    \* the store's sequenceStates, in insertion order
  missed,     \* history: sequences of which the tab missed a broadcast
  dismissed,  \* history: sequences the user dismissed
  unfilled    \* history: placeholders left in the prompts of started sequences

server == <<life, echo>>
builder == <<autoMode, queue, selected>>
pageVars == <<life, echo, inbox, socket, faults, autoMode, queue, selected, entries,
              missed, dismissed, unfilled>>

None == "none"

PageTypeOK ==
  /\ life \in [Sequence -> [state : {"none", "done", "error"} \cup Ongoing,
                            step : 0..MaxSteps, total : 0..MaxSteps, auto : BOOLEAN]]
  /\ {echo, missed, dismissed} \subseteq SUBSET Sequence
  /\ inbox \in Seq([kind : {"started", "completed", "done", "error"}, seq : Sequence,
                    step : 0..MaxSteps, auto : BOOLEAN])
  /\ socket \in {"open", "dead", "closed"}
  /\ faults \in 0..MaxFaults
  /\ autoMode \in BOOLEAN
  /\ queue \in Seq([command : DOMAIN Required, filled : SUBSET UNION {Required[c] : c \in DOMAIN Required}])
  /\ selected \in DOMAIN Preset \cup {None}
  /\ entries \in Seq([seq : Sequence, step : 1..MaxSteps, status : {"running", "paused", "done", "error"}])
  /\ unfilled \subseteq {"phase", "plan", "task", "name"}

PageInit ==
  /\ LifeInit
  /\ echo = {} /\ inbox = <<>> /\ socket = "open" /\ faults = 0
  /\ autoMode = FALSE /\ queue = <<>> /\ selected = None
  /\ entries = <<>> /\ missed = {} /\ dismissed = {} /\ unfilled = {}

-----------------------------------------------------------------------------
(* The server (ws/sequencer.py, ws/frontend_manager.py).                     *)

\* Mutant: the step index of the protocol counts from zero, the page's from one.
Message_ZeroBased(kind, s) == [kind |-> kind, seq |-> s, step |-> life'[s].step - 1, auto |-> life[s].auto]
Message(kind, s) == [kind |-> kind, seq |-> s, step |-> life'[s].step, auto |-> life[s].auto]

Fault == faults < MaxFaults /\ faults' = faults + 1

\* broadcast_sequence_*: to every connection, in one go; a queue that is full (it holds
\* the tab's other messages too) drops what is left.
Broadcast(messages) ==
  /\ Len(inbox) <= MaxLag
  /\ \E k \in 0..Len(messages) :
       /\ \/ socket # "open" /\ k = 0 /\ UNCHANGED faults
          \/ socket = "open" /\ k = Len(messages) /\ UNCHANGED faults
          \/ socket = "open" /\ k < Len(messages) /\ Fault
       /\ inbox' = inbox \o [n \in 1..k |-> messages[n]]
       /\ missed' = missed \cup {messages[n].seq : n \in (k + 1)..Len(messages)}

UnchangedPage == UNCHANGED <<socket, builder, entries, dismissed, unfilled>>

ServeEnter(s) ==
  /\ Enter(s)
  /\ Broadcast(<<Message("started", s)>>)
  /\ UNCHANGED echo /\ UnchangedPage

\* sequence_step_completed of a step is about the step before the one entered next.
ServeComplete(s) ==
  /\ Complete(s)
  /\ LET completed == [Message("completed", s) EXCEPT !.step = life[s].step] IN
     Broadcast(IF life[s].auto THEN <<completed, Message("started", s)>> ELSE <<completed>>)
  /\ UNCHANGED echo /\ UnchangedPage

ServeFinish(s) ==
  /\ Finish(s)
  /\ Broadcast(<<Message("completed", s), Message("done", s)>>)
  /\ UNCHANGED echo /\ UnchangedPage

ServeFail(s) ==
  /\ Fail(s)
  /\ Broadcast(<<Message("error", s)>>)
  /\ UNCHANGED echo /\ UnchangedPage

\* The disconnect handler reports every sequence it cancels; the tasks that have
\* begun report it again when they are told.
ServeNodeLost ==
  /\ \E s \in Sequence : life[s].state \in Ongoing
  /\ FailAll
  /\ LET lost == {s \in Sequence : life[s].state \in Ongoing} IN
     /\ \E errors \in SetToSeqs({Message("error", s) : s \in lost}) : Broadcast(errors)
     /\ echo' = echo \cup {s \in lost : life[s].state # "new"}
  /\ UnchangedPage

ServeEcho(s) ==
  /\ s \in echo
  /\ echo' = echo \ {s}
  /\ UNCHANGED life
  /\ Broadcast(<<Message("error", s)>>)
  /\ UnchangedPage

\* Another client starts a sequence, or advances one of the user's.
OtherStarts(s) ==
  /\ s \in Elsewhere
  /\ \E n \in 1..MaxQueue, auto \in BOOLEAN : Start(s, n, auto)
  /\ UNCHANGED <<echo, inbox, missed, faults>> /\ UnchangedPage

ServeAdvance(s) ==
  /\ Advance(s)
  /\ Broadcast(<<Message("started", s)>>)
  /\ UNCHANGED echo /\ UnchangedPage

-----------------------------------------------------------------------------
(* The store.                                                               *)

IndexOf(s) == {i \in DOMAIN entries : entries[i].seq = s}
Known(s) == IndexOf(s) # {}

\* A new key goes to the end of the object, an old one keeps its place.
Put(e) ==
  IF Known(e.seq)
  THEN entries' = [i \in DOMAIN entries |-> IF entries[i].seq = e.seq THEN e ELSE entries[i]]
  ELSE entries' = Append(entries, e)

Update(s, status) ==
  entries' = [i \in DOMAIN entries |->
                IF entries[i].seq = s THEN [entries[i] EXCEPT !.status = status] ELSE entries[i]]

StatusAfter_Running(m) == "running"     \* mutant: auto_advance is taken for true
StatusAfter(m) == IF m.auto THEN "running" ELSE "paused"

\* handleMessage; step_completed, done and error change existing entries only.
Receive ==
  /\ inbox # <<>>
  /\ inbox' = Tail(inbox)
  /\ LET m == Head(inbox) IN
     CASE m.kind = "started" ->
            Put([seq |-> m.seq, step |-> m.step, status |-> "running"])
       [] m.kind = "completed" ->
            IF Known(m.seq) THEN Put([seq |-> m.seq, step |-> m.step, status |-> StatusAfter(m)])
                            ELSE UNCHANGED entries
       [] OTHER -> Update(m.seq, m.kind)
  /\ UNCHANGED <<server, socket, faults, builder, missed, dismissed, unfilled>>

\* The connection is lost with what is on its way; the tab notices later, opens a new
\* socket, and is told nothing of what it missed.
SocketDies ==
  /\ socket = "open" /\ Fault
  /\ socket' = "dead"
  /\ inbox' = <<>>
  /\ missed' = missed \cup {m.seq : m \in ToSet(inbox)}
  /\ UNCHANGED <<server, builder, entries, dismissed, unfilled>>

SocketCloses ==
  /\ socket = "dead"
  /\ socket' = "closed"
  /\ UNCHANGED <<server, inbox, faults, builder, entries, missed, dismissed, unfilled>>

SocketOpens ==
  /\ socket = "closed"
  /\ socket' = "open"
  /\ UNCHANGED <<server, inbox, faults, builder, entries, missed, dismissed, unfilled>>

-----------------------------------------------------------------------------
(* The panel and the builder.                                               *)

OfStatus(status) == SelectSeq(entries, LAMBDA e : e.status = status)

\* SequenceProgress: running before paused before the latest.
Shown ==
  CASE OfStatus("running") # <<>> -> OfStatus("running")[1]
    [] OfStatus("running") = <<>> /\ OfStatus("paused") # <<>> -> OfStatus("paused")[1]
    [] OTHER -> Last(entries)

\* SequenceBuilder: the first sequence that runs or is paused.
Cancellable == SelectSeq(entries, LAMBDA e : e.status \in {"running", "paused"})

Obeys(s) == socket = "open" /\ s \in Owned

\* The server advances a paused sequence; an early advance is forgotten.
ClickAdvance ==
  /\ entries # <<>> /\ Shown.status = "paused"
  /\ Obeys(Shown.seq)
  /\ ServeAdvance(Shown.seq)

\* CommandPalette: the builder, with its Start and Cancel buttons, replaces the list of
\* commands in auto mode.
BuilderShown == autoMode

ClickCancel ==
  /\ BuilderShown /\ Cancellable # <<>>
  /\ Obeys(Head(Cancellable).seq)
  /\ ServeFail(Head(Cancellable).seq)

ClickDismiss ==
  /\ entries # <<>> /\ Shown.status \in {"done", "error"}
  /\ \E i \in IndexOf(Shown.seq) : entries' = RemoveAt(entries, i)
  /\ dismissed' = dismissed \cup {Shown.seq}
  /\ UNCHANGED <<server, inbox, socket, faults, builder, missed, unfilled>>

UnchangedByEdit == UNCHANGED <<server, inbox, socket, faults, autoMode, entries, missed, dismissed, unfilled>>

\* Leaving auto mode unmounts the builder.
ToggleAutoMode ==
  /\ autoMode' = ~autoMode
  /\ queue' = <<>> /\ selected' = None
  /\ UNCHANGED <<server, inbox, socket, faults, entries, missed, dismissed, unfilled>>

PresetClick(p) ==
  /\ BuilderShown
  /\ IF selected = p
     THEN selected' = None /\ queue' = <<>>
     ELSE /\ selected' = p
          /\ queue' = [i \in DOMAIN Preset[p] |-> [command |-> Preset[p][i], filled |-> {}]]
  /\ UnchangedByEdit

AddStep(c) ==
  /\ BuilderShown /\ Len(queue) < MaxQueue
  /\ queue' = Append(queue, [command |-> c, filled |-> {}])
  /\ selected' = None
  /\ UnchangedByEdit

RemoveStep(i) ==
  /\ queue' = RemoveAt(queue, i)
  /\ selected' = None
  /\ UnchangedByEdit

Swapped(q, i) == [q EXCEPT ![i - 1] = q[i], ![i] = q[i - 1]]

MoveUp(i) ==
  /\ i > 1
  /\ queue' = Swapped(queue, i)
  /\ selected' = None
  /\ UnchangedByEdit

\* A parameter is filled, or emptied again; blanks count as empty.
ParamChange(i, key) ==
  /\ queue' = [queue EXCEPT ![i].filled = IF key \in @ THEN @ \ {key} ELSE @ \cup {key}]
  /\ UNCHANGED selected
  /\ UnchangedByEdit

\* Mutant: one step with its parameters is enough.
CanStart_SomeFilled(q) == q # <<>> /\ \E i \in DOMAIN q : Required[q[i].command] \subseteq q[i].filled
CanStart(q) == q # <<>> /\ \A i \in DOMAIN q : Required[q[i].command] \subseteq q[i].filled

\* handleStart: the queue is emptied whether or not the message arrives.
HandleStart ==
  /\ BuilderShown /\ CanStart(queue) /\ socket # "closed"
  /\ IF socket = "open"
     THEN /\ \E s \in Here : Start(s, Len(queue), autoMode)
          /\ unfilled' = unfilled \cup UNION {Expand(st.command, st.filled) : st \in ToSet(queue)}
     ELSE UNCHANGED <<life, unfilled>>
  /\ queue' = <<>> /\ selected' = None
  /\ UNCHANGED <<echo, inbox, socket, faults, autoMode, entries, missed, dismissed>>

-----------------------------------------------------------------------------
Builder ==
  \/ ToggleAutoMode \/ HandleStart
  \/ \E p \in Clickable : PresetClick(p)
  \/ \E c \in Pickable : AddStep(c)
  \/ \E i \in DOMAIN queue : \/ RemoveStep(i) \/ MoveUp(i)
                             \/ \E key \in Required[queue[i].command] : ParamChange(i, key)

PageNext ==
  \/ \E s \in Sequence :
       \/ ServeEnter(s) \/ ServeComplete(s) \/ ServeFinish(s) \/ ServeFail(s) \/ ServeEcho(s)
       \/ OtherStarts(s) \/ ServeAdvance(s)
  \/ ServeNodeLost
  \/ Receive \/ SocketDies \/ SocketCloses \/ SocketOpens
  \/ ClickAdvance \/ ClickCancel \/ ClickDismiss
  \/ Builder

PageSpec == PageInit /\ [][PageNext]_pageVars

-----------------------------------------------------------------------------
(* Properties.                                                              *)

Waiting(s) == \E m \in ToSet(inbox) : m.seq = s
UpToDate(s) == ~Waiting(s) /\ s \notin missed \cup dismissed
Entry(s) == entries[CHOOSE i \in IndexOf(s) : TRUE]

\* AUTO-05: a tab that missed no broadcast shows each sequence at its step, running,
\* paused or over as it is on the server (one that failed before its first step is
\* never shown), whatever else runs, is cancelled or dismissed; and even a tab that
\* missed some never shows the end of a sequence that goes on.
EntryFollows ==
  /\ \A s \in Sequence : UpToDate(s) =>
       IF Known(s)
       THEN Entry(s).status = life[s].state /\ Entry(s).step = life[s].step
       ELSE life[s].state \in {"none", "new", "error"}
  /\ \A e \in ToSet(entries) : e.status \in {"done", "error"} => life[e.seq].state = e.status

\* However the queue was built and edited, the sequences this page starts have no
\* placeholder left in a prompt, by the server's table of templates; and they all
\* advance by themselves, because the builder disappears with auto mode.
StartedAsBuilt ==
  /\ unfilled = {}
  /\ \A s \in Here : life[s].auto
=============================================================================
