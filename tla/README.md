# glsd-server in TLA+

GSD server is the hub between *nodes* (machines that run Claude CLI instances) and
*frontends* (browsers).  Nodes dial in over a WebSocket and report what they run; users
start instances on them, watch their output and answer their prompts.  This directory
holds TLA+ modules of the server's own logic and of the frontend that uses it, the TLC runs that check them on small
instances, and TLAPS proofs for every instance.

    tlc -workers 2 -config MCNodeSession_sequential.cfg MCNodeSession
    tlapm Sequencer_proofs.tla

## Inventory

Everything in `backend/app` runs on one asyncio event loop in one process (in-memory
registries require it).  Code between two `await`s is atomic; everything else interleaves.

| part | state | operations | what must hold |
|---|---|---|---|
| node endpoint `ws/router.py` | a coroutine per socket | first frame, message loop, unexpected disconnect | the session being served is the one commands go to |
| node handlers `ws/handlers.py` | open transactions | register and reconcile, ack, started, finished, error, stream, graceful and unexpected disconnect | the tables follow the node, whatever the order of events |
| connection manager `ws/manager.py` | registry, per-node locks, stream buffers | register, deregister, get_lock, send_to_node | one registration at a time; no entry of a dead session |
| command dispatch `ws/commands.py` | none (rows, registry) | execute, kill, status_request | a row before its command; no live row nobody will settle |
| stale scanner `ws/health.py` | none (heartbeats) | periodic scan, mark stale | it hits the session it found stale |
| sequencer `ws/sequencer.py` | active sequences, completion events | start, run, advance, cancel, cancel for a node | strict order, pauses, every sequence ends |
| frontend socket `ws/frontend_router.py`, `ws/frontend_manager.py` | connections, queues of 500, subscriptions, prompt claims | subscribe, replay, fan out, claim, answer | a claim is used once; a full queue drops what comes, and the rest stays in order |
| authentication `services/auth_service.py`, `routers/auth.py` | refresh tokens (families), one-time WebSocket tickets | login, refresh with rotation and reuse detection, logout, ticket | one usable token per family, whatever is refreshed at once |
| API client `lib/api.ts` | tokens in memory and in localStorage, the one refresh in flight | refresh on 401, timer, start-up refresh, sign out | waiters go on; nobody is signed out who kept to one tab |
| socket hook `hooks/useWebSocket.ts` | a socket, a delay | ticket, connect, reconnect | a dashboard keeps its socket when tokens expire |
| store `stores/wsStore.ts` | statuses, stream buffers, prompts, sequences, auto mode | apply broadcasts | what was told is what is shown |
| node page `routes/dashboard/$nodeId.tsx`, `components/execute`, `components/instances` | the selected instance, forms that wait for an acknowledgement | dispatch, select, subscribe, stream | the panel fits the row; no wait without a reason; no hole in the stream |
| task form `ExecuteForm.tsx`, `VoiceButton.tsx`, `useVoiceRecorder.ts` | prompt, session, recorder, microphone | type, presets, resume, dictate, dispatch | the microphone is on only behind a button that shows it; a take ends in the field |
| sequence page `SequenceBuilder.tsx`, `SequenceProgress.tsx`, `AutoModeToggle.tsx`, `gsdCommands.ts` | the queue of steps being built | add, move, fill, start, advance, cancel, dismiss | no placeholder reaches a node; progress shown is progress made |
| teams and nodes `services/team_service.py`, `services/node_service.py` | teams, members, node-team pairs | create, invite, remove, assign | a team keeps an owner; access follows membership |
| projects, audit log, admin bootstrap, transcription, notifications | rows, messages | CRUD, inserts, an HTTP proxy | little that interacts |

How they interact: a browser's `execute` reaches `dispatch_execute`, which stores a pending
row and sends a command through the registry; the node's frames come back through its
endpoint to the handlers, which update rows, broadcast to frontends and wake the sequencer;
a disconnect, found by the endpoint, or staleness, found by the scanner, errors rows,
cancels sequences and removes the registry entry.  Registry entry, lock and bulk updates
are all keyed by `node_id`, never by connection, which is where most of the hard behaviours
come from: a node that reconnects before its old session is over; a handler that resumes
after an `await` in a world that has changed; a lost terminal event; a crash of either side.
`PROJECT.json` lists these hazards at their lines.
In the browser everything runs on one event loop per tab: a handler and the
microtasks of the promises it settles are atomic, and state that outlives an `await`, a timer
or a socket is stale when it is used.  Tabs share nothing but localStorage and the server.

## Modules

| module | stands for | composed with |
|---|---|---|
| InstanceLifecycle | abstract: the instances table | implemented by NodeSession |
| NodeSession | node endpoint, handlers, registry, dispatch, scanner | |
| SequenceLife | abstract: the life of a sequence | implemented by Sequencer |
| Sequencer | `ws/sequencer.py` and its callers | |
| GsdCommands | the two tables of commands and templates | used by SequencePage |
| SequencePage | auto mode in the browser | extends SequenceLife and GsdCommands |
| PromptClaim | the questions of an instance, from server to tabs | |
| AuthTokens | tokens, tabs, guards, the socket hook; the server's token rows | |
| NodePage | one page of a node; the server's rows, buffers and broadcasts | |
| TaskForm | the form, its dictation | |

The `MC` module of each instantiates it for TLC; the `_proofs` modules hold its theorems.

### NodeSession

Endpoint, handlers, connection manager, dispatch and scanner, for one node (nothing in that
code relates two nodes).  The node program is the environment, as `protocol-spec.md`
describes it: it redials, acknowledges or refuses, starts, streams, ends, is killed, drops,
crashes, shuts down.

* An action is one stretch between awaits.  A transaction is one action for each read and one
  for its commit.  `OrmWrite` says what SQLAlchemy writes: a column whose value
  differs from the one *loaded*, so that `running -> running` leaves alone what another
  transaction has committed since.  Row locks of the database are not modelled: some
  interleavings of two transactions on one node row are possible here and not in PostgreSQL,
  so what holds here holds there.  The counterexamples below do not use them.
* `pc[c]` is where the endpoint of socket `c` is.  `first` waits for the first frame; `lock`
  waits for the node's lock; `close` (closing the old socket), `node`, `select`, `commit`,
  `announce` are inside it; `loop`, `write`, `after` receive and handle a frame; `bye`,
  `drop` are the two halves of `handle_unexpected_disconnect`.
* `lockQueue` is the fair asyncio lock: its head is the holder.
* `link[c]` is the socket.  `gone`: the peer dropped it, frames already received by the
  kernel can still be read.  `closing`: the server closed it while a `receive` was pending,
  which may still return one frame.  A socket identity is used again after its endpoint has
  returned, so that behaviours with any number of reconnects are finite-state.
* `nodeInst` is what the node knows of an instance; `Foreign` instances run although the
  database never had them (a server that lost its data), the case reconciliation inserts.
* `disp[i]` is where the `dispatch_execute` that created `i` is: between the
  connectivity check, the commit of the row, the send and the clean-up of a failed send.
* `told` and `toldNode` are the last broadcasts; `signalled` are the instances a sequence
  was woken for.
* Left out: access and project checks, audit rows, stream event rows and their numbering,
  rejected tokens and malformed frames, the contents of buffers, time (the scanner may find
  any registered node stale).

`InstanceLifecycle` is the abstract specification: the instances table as its readers see it,
six kinds of transition and nothing of sockets or transactions.  `NodeSession` implements it
with `row <- db` as long as the sessions of a node do not overlap, stale scans included: a
registration that commits behind a scan revives some of the rows it reports and leaves
others errored, which is why `Reconcile` confirms any reported row that is not finished.

### Sequencer

The coroutine `run_sequence`, one per sequence, the registry of completion events, the
frontend's start, cancel and advance, and the disconnect handler's `cancel_all_for_node`.
A cancellation is requested (`cancelling`) and delivered later, at the task's next resumption.
The dispatch is split where it matters: check, send, and the audit write that is still
awaited after the send.  `granted` is a history variable: the pauses a user ended.
Instances are identified by sequence, step and phase.

`SequenceLife` is the abstract specification: a sequence is started, enters its steps one by
one, pauses between them if it is manual, and ends once.  `Sequencer` implements it with
`LifeOf`: the first error that is reported ends a sequence for its users, although its task
may be cancelled later.

### PromptClaim

The questions of one instance, end to end: the server's connection registry, bounded
outgoing queues, subscriptions with replay, and the claim (`frontend_manager.py`), the reader
of each socket (`frontend_router.py`), and in each tab the socket, the store entries and the
prompt form.

* A socket is `fresh`, `open`, `cut` (lost, the server has not noticed) or `gone`
  (deregistered).  A tab that lost its socket keeps its store and opens another.
* `queue[c]` stands for `conn.queue`, the writer and the network behind it, so that a full
  queue drops what `put_nowait` drops; a cut loses any suffix of `inbox[c]`.
* The reader of a connection handles one message at a time; `access` and `dispatch` are its
  awaits.  Claim and broadcasts are atomic: none of those coroutines suspends.
* `handleSubmit` claims, awaits a REST request (`form`), and submits on the socket it began
  with, whatever it has been told of the claim since.
* A message names its question only to let properties say which one is answered; the code's
  messages name the instance.
* History variables: `lossy` (a message was dropped), `fresh` (the prompt entry came over the
  tab's present socket), `grants`, `accepted`, `sent`.
* Left out: tickets, `unsubscribe` (no page sends it), the "error" replies (no page handles
  them), freeform prompts (the classifier never reports one), other instances.

### AuthTokens

Every tab has its own access token, refresh token and refresh in flight; `stored` is the
localStorage they share, `row` and `family` the table.

* `promise` is `refreshPromise` of `lib/api.ts`: sent, answered with a token, or refused.
  `RefreshSettles` runs what awaits it in the same step: the call that got a 401, the guard of
  `/dashboard` and the hook are resumed together (`Resumed`).
* `hook` is the chain of `useWebSocket`: due, a ticket asked for (with an access token the
  server accepts or refuses), waiting for a refresh, a socket that is opening or open, or given
  up.  Close code 4001 (`SocketRefused`) refreshes first and connects only if that succeeds
  (`renewing`); any other close connects after a delay.  A ticket request that is under way when
  the user signs out goes on (`stray`), and its 401 refreshes before the hook looks at
  `unmounted`; if a new hook mounts first, that refresh is one that `TimedRefresh` also takes.
* `expired` holds the refresh tokens whose seven days are over (`expires_at`): the server refuses
  them, and a login deletes them with the revoked ones.  An older token expires before a younger
  one, and the access token of a page long before its refresh token; otherwise `Outlive` happens
  at any moment.  A refusal for this reason is the promise state `lapsed`, and the page field
  `lapsed` remembers that a dashboard lost its tokens that way.
* A page that is reloaded leaves its request behind (`orphans`), and the server may rotate
  for nobody.  `broken` remembers that this, or a lost refresh, has happened.
* There is no clock beyond that: the timer may fire and an access token expire at any moment.
* The branch that should revoke the family of a reused token binds a parameter its statement
  does not have (`auth_service.py:172`), the request ends in an error and is rolled back: the
  model does what the code does, nothing.

### NodePage

One page in one tab with the server's side of it.  `inbox` and `outbox` are the socket in its
two directions; a lost socket loses both.  The node may report, stream, end or disconnect at any time.

* The connection's outgoing queue holds 500 messages of every kind and every instance, so its
  length is not modelled: any `put_nowait` may find it full.  A status is then dropped
  (`BroadcastStatus`), an event is dropped (`NodeStreams`), a replay stops where it is
  (`SubscribeTo`).  A subscription may also be denied (`TakeSubscribe`).
* `faults` counts all that goes wrong: failed POSTs, a lost node or socket, messages a full queue
  refused, denied subscriptions.

* `post` follows every `POST /api/execute`; `pend` is `pendingInstanceId` of each form, cleared
  by the render that finds a status in the store.
* `Activate` holds the effects of a new `activeInstanceId`: the subscription and the query of
  the row.  A dispatch subscribes twice (the form and the page), as the code does.
* `missed`, `holed` and `preset` are history variables: instances whose last status could not
  reach the tab; those of whose stream the full queue took something since the last whole replay;
  and instances selected before their POST returned.
* Kill, the prompt form (see PromptClaim) and the node row's copy are left out.

### TaskForm

The fields of the form and the refs of the recorder hook.  A *take* is one call of `start()`:
it asks for the microphone, records, stops (by the user, by the limit, by leaving), uploads
and lands in the prompt.  `mic` and `timers` say which takes hold a live microphone and a
running interval, whatever the hook's refs point at by now.  `slipped` marks the three ways a
`start()` gets out of the hook's hands (below).  The buttons' `disabled` of a node that is not
connected (`ExecuteForm.tsx:215`) is left out: the model can do all that the page can, and more.

### SequencePage

The builder, the store's entries and the progress panel against a server that behaves as
`SequenceLife` says, which is what `Sequencer` is proved to do.  `inbox` holds the broadcasts;
`socket` is open, dead without anybody having noticed, or closed; a new socket is told nothing
of what was missed.  A broadcast that finds the queue of 500 full is dropped, and what the same
stretch of the sequencer sends after it, too, as nothing leaves the queue meanwhile.  A sequence may also be started by another client.  `GsdCommands` has the
parameters of every command and the placeholders of every template as two tables, because the
frontend's and the server's are kept by hand in two languages.

## Runs

Each `MC` module instantiates its module with small sets.  Symmetry is used in safety runs
only: sockets, instances where none is foreign, the two sockets of one tab.

| run | environment | properties |
|---|---|---|
| node_sequential | 2 sockets, a dispatched and a foreign instance, one stale scan, no overlap | `LiveRowsAccounted`, `SignalledIsSettled`, refinement `LifecycleSpec` |
| node_overlap | 2 sockets, 1 instance, sessions overlap, one stale scan | `RegistrationExclusive`, `FinishedIsReal`, `TypeOK`, `RowBeforeCommand` |
| node_lock | sessions overlap, fairness | `LockGranted` |
| node_settle | 2 sockets, 1 instance, no overlap, a restart, a kill or status_request, fairness | `EndedRowsSettle`, `ServedIsReachable`, `NodeStatusShown` |
| sequence_all | an automatic and a manual sequence of 2 steps, cancellation, drops, early terminal events in one | `TypeOK`, `StepsInOrder`, `PauseRespected`, `EventsConsumed`, `SequenceEnds`, `LostWaitEnds`, refinement `LifeSpec` |
| prompt_tabs | two tabs, three sockets, one of them lost, a question, two clicks | `TypeOK`, `ClaimHeldByLive`, `MineIsHeld`, `OneAnswerPerClaim`, `AnsweredIsTold` |
| auth_tabs | two tabs, three tokens, the first of which may expire, one orphaned request, lost requests, logins and sign-outs | `TypeOK`, `OneValidPerFamily`, `LoneNeverRefused`, `StoredIsUsable`, `LoneKeepsSocket`, `WaitersResume` |
| node_page | two dispatches from two forms, two stream events, one selection, one fault: a lost socket, answer or node, a full queue or a denied subscription | `TypeOK`, `StatusCatchesUp`, `AwaitingHasReason`, `StreamComplete`, `PanelShowsRow` |
| task_form | two takes, a limit of two ticks, two dispatches, one session to resume | `TypeOK`, `MicShown`, `TakeLands` |
| sequence_page | a sequence of the tab and one of another client, a queue of two, one lost socket or full queue | `PageTypeOK`, `EntryFollows`, `StartedAsBuilt` |

The two remaining runs, node_reachable_violated and auth_signout_violated, refute a claim of
the documents (next section).

Bounds, and why they are enough:

* *NodeSession.*  Two sockets give every pair of concurrent endpoints of a node (old and new); a
  third would only queue behind the lock, and the theorems cover any number.  Reconnects,
  frames, drops and crashes are not bounded at all.  Server restarts, scans and commands are
  bounded by one, because the effect of each on the state is over once it has been reacted to;
  a scan and a restart are taken in different runs, and together by the theorems.
  One instance id goes through its whole life; two show that handlers keep them apart.
* *Sequencer.*  Two steps give a first, a last and a pause in between; two sequences share a node.
* *PromptClaim.*  Two tabs give a holder and another; the third socket is the reconnect of one of
  them, and the loss strikes any of the three.  Two clicks are a claim and its competitor.
  Queues of four overflow.
* *AuthTokens.*  `MaxToken = 3` gives a login, a rotation and a competing login or rotation; a
  server that could issue no more fails instead, which counts as `broken`, so that no property
  holds for want of tokens.  One tab calls the API and has a socket; the other only competes for the
  token, which is all that two tabs share.  `Expiring = {1}`: the token of the first login
  may expire while it is stored, presented, rotated or deleted; that later ones may, too, is
  in the theorems.
* *NodePage.*  Two dispatches are the two forms, or one form twice; the second socket life
  replays the first one's events; one selection moves the panel back.  Only instance 1 streams;
  two events have an order, and can have a hole before, between or behind them.  One fault of
  any kind (`MaxFaults`), since each is over once it has been reacted to.  The server goes on
  only when at most two messages (`MaxLag`) wait for the tab, which a replay of two follows.  The
  theorems hold for any number of all of these.
* *TaskForm.*  A second take is the click after the first; a limit of two ticks lets a user stop
  before it, at it or never.
* *SequencePage.*  `MaxSteps = 3` is the length of the preset that is clicked.  Steps are added
  to queues shorter than two, so that there is a step to move and one to move over; the one
  that is added, `quick`, has a parameter to fill in.  One fault is a lost socket or a burst the
  full queue cut short.  The server goes on only when at most one
  broadcast (`MaxLag`) waits for the tab.

The runs of the pages and of PromptClaim do not check for deadlock: they stop when users have
used up their clicks; AuthTokens stops when the tokens are used up and everybody has signed out.

Each property is there for a hazard that `PROJECT.json` lists with its line, and each has a mutant:
one change of one definition (a dropped guard, a missing reset, a swapped order) that
makes its run fail.

### What the code does not keep

| run | what happens |
|---|---|
| node_reachable_violated | The old session's `handle_unexpected_disconnect` calls `deregister(node_id)` after the node has registered again: the node is connected and served, but every command is refused as "not connected". |
| auth_signout_violated | Two tabs present the same refresh token (each has its own `refreshPromise`, `api.ts:3`; localStorage is shared).  The second is refused, and its `clearTokens` (`api.ts:67`) removes the token the first has just stored: the user is signed out. |

Further properties are stated in the modules, are refuted by TLC in the instances above, and have
no run of their own:

* `NodeSession!RegistrationSucceeds`: an instance survives a drop; the disconnect errored its row,
  so that reconciliation takes it for new and INSERTs a key that exists, at every attempt.
* `NodeSession!OfflineHasNoLiveRow`: a dispatch that finds the node registered between the commit
  of the disconnect handler and its deregistration leaves a pending row.
* `Sequencer!WaitEnds`: the completion event is registered after the dispatch has returned; a
  terminal event handled before wakes nobody, and the sequence waits for ever.  Hence
  `SequenceEnds` speaks of the sequences that are not in `Early`.
* `Sequencer!NoEventLeak`: a cancelled wait leaves its completion event in the registry;
  `EventsConsumed` says that this is the only way.
* `NodeSession!LifecycleSpec` when sessions overlap: an acknowledgement that the old endpoint has
  loaded is committed after the new endpoint handled the end of the instance, and a finished row
  runs again.  Hence node_sequential.
* `PromptClaim!AnsweredOnce`: an answer releases the claim and the server forgets that the
  question was answered; a click made before its tab has seen `prompt_answered` answers again.
* `AuthTokens!ReuseRevokesFamily`: see above, `auth_service.py:172`.

What the models contain, and the properties are worded around:

* *Tokens.*  A refresh in flight survives a sign-out and signs in again; a refusal that arrives
  late clears a newer login; a reload during a refresh loses the rotated token; one network
  error during a refresh signs out.  The timer of `api.ts:46` fires when a fifth of the token's life is over,
  its comment says when four fifths are.  The hook gives up for good on an error status of the
  ticket request.  A page that comes back after the seven days of its refresh token is refused,
  signed out and left without a socket, as it should be: `LoneNeverRefused`, `StoredIsUsable` and
  `LoneKeepsSocket` allow exactly that.
* *Node page.*  "Awaiting ACK" stays for ever if the status was broadcast before the subscription
  or dropped on a full queue, or the instance was lost with its node; a dropped stream event is
  missing until the next subscription replays it; a command without parameters has no pending guard
  (`CommandPalette.tsx:110`); selecting an instance keeps the previous one's status until its own is known; the
  page subscribes twice, so that events are replayed twice (`StreamComplete` asks for a suffix).
* *Task form.*  A second click while the browser asks for the microphone, leaving while it asks, and a
  `MediaRecorder` that throws leave the microphone on behind an idle button: the exceptions of
  `MicShown`.  A transcript overwrites a preset; the success of a dispatch wipes what was
  dictated, typed or resumed while it was under way.
* *Sequence page.*  The builder is only shown in auto mode and starts with `auto_advance` true, so
  that a manual sequence cannot be started from it and Advance is for other clients' sequences;
  Start empties the queue even if the socket is gone; an entry left "running" by a lost socket
  hides the buttons of one that is paused; a message dropped on a full queue is never sent again.
* *Prompts.*  A tab told "another tab is responding" is not told when that tab goes away; the holder's
  own second click is refused in the same words; a failed dispatch leaves a question hidden in
  every tab.

### Fairness

* *NodeSession, Sequencer.*  Endpoints, dispatch steps, scanner steps and sequence tasks are weakly fair: the event loop
  runs every ready coroutine, database operations end, and the WebSocket keep-alive makes a lost
  peer raise in `receive`.  The node redials for ever (protocol-spec.md section 5) and notices a
  close; receiving a first frame is strongly fair, i.e. the network does not cut every single
  connection before its first frame.  In Sequencer an instance of a connected node ends at
  some time and a user who is asked presses Advance.
* *AuthTokens.*  In the tab that calls the API, the server answers a refresh or it fails, its
  continuation runs, and a call returns.  Nothing is assumed of the other tab and of orphaned
  requests.  Users who reload for ever are excluded by `WaitersResume` itself.
* *TaskForm.*  The interval fires, a stopped recorder reports it, an upload is answered or fails.

No fairness is assumed of users who dispatch or click, of failures, of scans or of restarts.
SequencePage, NodePage and PromptClaim have safety properties only.

## Proofs

All theorems hold for all constants that satisfy the `ASSUME` of their module; these only say
what a constant is (a natural number, a subset), and that null values differ from real ones.

* *NodeSession*: `TypeCorrect`, `MutualExclusion`, `RowFirst`, `FinishedTrue`, hence with
  overlapping sessions, scans, restarts and commands in any number.  `TypeOK` is not inductive alone, because releasing the
  lock takes the tail of a queue that must not be empty.  `LockInv` says that the queue holds
  exactly the endpoints that wait for or hold the lock, each once, and that one inside the
  `async with` is its head; three lemmas cover the ways a step can touch it (`JoinLock`,
  `LeaveLock`, `KeepLock`).  `RowInv` strengthens `RowBeforeCommand` to all places an instance
  can be named in: the progress of its dispatch, the node, both channels and the frame a handler
  holds.  Channels are typed by `RowFrame`, the frames whose instances have rows, a set that
  only grows, since rows are never removed (`RowStays`).  `FinishedTrue` types them by the frames
  that are true of the node (`RealInv`), which also only grow: an execute command is sent and
  taken at most once (`OnceInv`), so an instance that has ended does not come back.
* *NodeSession, one session after the other*: `SignalledSettled`, `RowsAccounted` and `RefinesLifecycle`
  assume `Sequential`, i.e. `~Overlap`: the server notices the end of a session before the node is back.
  Sockets, instances, stale scans, restarts and commands are any number, and drops, crashes,
  shutdowns and failed registrations happen anywhere.  `Reachable` and `StatusShown` also
  assume `NeverStale` (`MaxScans = 0`).  Neither is a convenience: a handler left over from an older
  session breaks `ServedIsReachable` (`node_reachable_violated`), and so does a scan, which
  deregisters whatever session it finds after its awaits; it also tells the tabs "stale" of a node
  in use.  `SessionInv`: at most one endpoint runs, and the registry keeps its session until the
  node has left or a scan has dropped it (`Alone`, `ScannerSteps`).  `StatusInv`: what a transaction has loaded
  of the node's row is what it finds when it commits.  `TableInv` says the same of the instances'
  rows, but for those a scan has errored meanwhile (`Suspected`); `EventCommitted` and `RegisterCommitted` say what a
  commit then makes of them.  `LineInv` keeps the frames of an instance in order: nothing behind the frame that ends it names
  it.  Together they give `EndInv`: an instance that is finished or was signalled is never heard of again.
  `LiveInv` follows a live row from its dispatch over the command and the node to the frame that
  ends it.  `RefinesLifecycle` shows that every step is one of `InstanceLifecycle` or a stutter; the hard
  cases are `Finish`, which asks that the row is no longer pending (`ConfirmInv`: the
  confirmation is ahead of the end on the line, or was handled), and a registration that
  commits behind a scan, a `Reconcile` of those reported rows that it sets to running.
* *PromptClaim*: `TypeCorrect` includes the bound of the outgoing queues: the replay stops at a
  full queue.  `ClaimLive`, `ClaimUsedOnce`, `ClaimPassed`: the holder is registered, answers do
  not outnumber grants, and the claim passes on only through a release.  `BeliefTrue`: `MineIsHeld`
  speaks of tabs that have received everything; `BeliefInv` says what holds before they have:
  behind every "mine" on its way to, or in, a tab of a connection without the claim there is a
  message that ends it.  `PutBelief` shows that a broadcast keeps this when it ends the belief of
  whoever loses the claim; `ReceiveBelief` that the tab does, for which no other tab may read its
  queue (`SocketInv`).
  `AnswerKnown`: questions are numbered as they are asked (`AskedInv`), a connection subscribes
  once and its replay comes before live questions (`JoinInv`), and behind every answered question
  that a connection without losses has pending or on its way there is a message that ends it
  (`ToldInv`).
* *Sequencer*: `TypeCorrect` needs that a task pauses only inside its steps (`PausedInside`), since
  resuming goes to the next one.  `PausesKept` needs that an advance event set during a pause was
  granted (`PauseInv`).  `OneWaitAtATime` is inductive.  `StrictOrder` rests on `OrderInv`: every
  instance before the current one is over, none after it exists, and a set completion
  event belongs to one that is over.  `KeepsThePromise` shows that every step is a step
  of `SequenceLife` or a stutter, from `LifeInv`: what a verdict, a pending cancellation and the
  place of the task say of each other (an entry of the registry is a task that goes on and has
  reported no end; one that goes on without an entry was cancelled and its error reported).
* *AuthTokens*: `TypeCorrect` needs `Holds`: a page with an access token, and a refresh on its way,
  have a token to present.  `OneValid` rests on `FamilyInv`: a token not yet issued names no
  family, so that a login begins a new one, and a rotation replaces the only valid token of
  the family it joins.  `StoredUsable` rests on `Secrets`: a token the server has issued and nobody
  has heard of is on its way to one tab only and nobody presents it, so it is still good (not used up, if
  perhaps out of date) when it arrives; and `Replaced`: when the stored token is used up, its successor is on its way.
  `LoneAccepted` and `LoneConnected` rest on `LoneInv`: what the only open page would present next
  is good or has expired, except between the server's answer and its arrival, when a pending promise keeps
  anybody from presenting it; and a hook that is on has an access token, so it can refresh, or is
  on a page that has just lost its tokens by age (`HookFit`).
* *NodePage*: `TypeCorrect` with `Dispatched` (what the page has selected or waits for has a row).
  `TabCatchesUp` from `CatchInv`: unless a broadcast was missed, the last status on its way is the
  row's, or none is on its way and the store has it; a status dropped on a full queue makes the
  instance a missed one until the next status that is delivered.  `WaitsForAReason` is a consequence of
  both: a form waits only while the store knows no status of its instance.  `PanelFitsRow`, too,
  with `Silent` (nobody was told of an instance that is not acknowledged yet) and `Shows` (the
  page shows the store's status or, failing that, the API's).  `StreamHasNoHole`: `StreamComplete` names the
  positions in the queue at which the events not yet received stand, instead of selecting
  them, since what `SelectSeq` returns is an induction over data.  `StreamInv` is that split of the
  events into received and queued; a new event is appended behind both, a receipt moves the
  boundary, and a whole replay begins the stream anew with nothing received, which closes the
  hole a full queue has left (`holed`).
* *TaskForm*: `MicBehindButton` from `MicInv`: as long as no `start()` slipped out of the hook's
  hands, at most one take is busy, and the microphone, the interval, the button and the refs
  are where that take is (`Around`).
* *SequencePage*: `TypeCorrect` needs that queues are no longer than `MaxSteps` and the invariants
  of the abstract life.  `BuiltAsAsked` from `TablesAgree`: every command of the frontend's
  catalogue is one of the server's templates and asks for the same parameters, so that a command
  that may be added is complete.  `ShowsTheTruth` from `FollowInv`: of a sequence of which nothing
  was missed, the last broadcast on its way, or else the page, has its status and its step.
  `TellsAll` shows that the server broadcasts whatever it does after a start; `EndsTrue`, that
  nobody is told an end of a sequence that goes on.

Leads-to under fairness is beyond the prover.  What a liveness property needs of safety, that nobody
waits for something that cannot come, is proved:

| liveness | kernel | what it says |
|---|---|---|
| `LockGranted` | `LockNeverOrphaned` | the head of the lock's queue is inside the registration or may enter it |
| `SequenceEnds`, `LostWaitEnds` | `EveryWaitHasReason` | a waiting sequence is being cancelled, was signalled, or waits for an instance that runs and whose event is registered; `Early` excepted |
| `WaitersResume` | `NobodyAwaitsNothing` | whoever awaits a refresh awaits one that is on its way or answered |
| `TakeLands` | `StopReachesTake` | a take that records is the one that Stop and the limit reach, slips excepted |

`RowsAccounted` does it for `EndedRowsSettle` while the node is served.  Model-checked only are thus the
liveness properties themselves: `LockGranted`, `EndedRowsSettle`, `SequenceEnds`,
`LostWaitEnds`, `WaitersResume` and `TakeLands`.

## Not modelled

* Teams and node access: rows behind access checks.  Their one race, two owners who leave at once
  (`team_service.py:201-244`), is listed as a hazard and would be the next module.
* Projects, the audit log, the start-up insert of the admin: single-row reads and writes that
  nothing else depends on.
* The transcription proxy: one stateless request; TaskForm sees its answer or failure.
* Registration, onboarding and audit pages, dialogs that send one request, notifications
  and alerts: they hold no state that another part reads.
* UI primitives, styling and the generated route tree.
* Inside modelled parts: the numbering of stream event rows, the scanner's clock (300 s, 90 s and
  the node's ping interval), the Kill button, the options of a question, JWT contents.

What is left to do: `TeamMembership`, and `Heartbeat`, the scanner with a clock.
