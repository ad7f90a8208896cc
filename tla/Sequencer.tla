------------------------------- MODULE Sequencer -------------------------------
(***************************************************************************)
(* Auto mode (ws/sequencer.py): one asyncio task per sequence runs its      *)
(* steps, each a /clear instance and a command instance, and waits for each *)
(* instance on a completion event that the terminal-event handlers set.     *)
(* Sequences are started, cancelled and advanced from the frontend socket   *)
(* (ws/frontend_router.py) and cancelled when their node disconnects        *)
(* (ws/handlers.py).  One node; dispatch_execute and the handlers appear    *)
(* only as far as the sequencer meets them (NodeSession has the rest).      *)
(***************************************************************************)
EXTENDS Naturals

CONSTANTS
  Sequence,       \* sequence ids
  Steps,          \* number of steps of every sequence
  Manual,         \* the sequences with auto_advance = False
  Early,          \* the sequences with an instance whose terminal event may be
                  \* handled while its dispatch still awaits the audit log write
  Cancels,        \* may users cancel sequences?
  Drops           \* may the node disconnect?

ASSUME SequencerAssumption ==
  /\ Steps \in Nat \ {0}
  /\ Manual \subseteq Sequence /\ Early \subseteq Sequence
  /\ {Cancels, Drops} \subseteq BOOLEAN

VARIABLES
  up,         \* is the node in the connection registry?
  pc,         \* where run_sequence is
  pos,        \* its current step and phase
  cancelling, \* tasks with a requested, not yet delivered cancellation
  active,     \* SequenceRegistry._active
  event,      \* SequenceRegistry._completion_events
  inst,       \* the instances the sequences started
  advance,    \* ActiveSequence.advance_event
  granted,    \* history: steps whose pause a user ended
  verdicts    \* sequence_done / sequence_error broadcasts so far

vars == <<up, pc, pos, cancelling, active, event, inst, advance, granted, verdicts>>

Phase == {"clear", "command"}
Inst == Sequence \X (1..Steps) \X Phase
Current(s) == <<s, pos[s][1], pos[s][2]>>
Busy == {"new", "check", "send", "audit", "wait", "pause"}

TypeOK ==
  /\ up \in BOOLEAN
  /\ pc \in [Sequence -> Busy \cup {"none", "ended"}]
  /\ pos \in [Sequence -> (1..Steps) \X Phase]
  /\ cancelling \subseteq Sequence
  /\ active \subseteq Sequence
  /\ event \in [Inst -> {"none", "unset", "set"}]
  /\ inst \in [Inst -> {"none", "running", "over", "lost"}]
  /\ advance \in [Sequence -> BOOLEAN]
  /\ granted \in [Sequence -> SUBSET (1..Steps)]
  /\ verdicts \in [Sequence -> SUBSET {"done", "error"}]

Init ==
  /\ up = TRUE
  /\ pc = [s \in Sequence |-> "none"]
  /\ pos = [s \in Sequence |-> <<1, "clear">>]
  /\ cancelling = {}
  /\ active = {}
  /\ event = [x \in Inst |-> "none"]
  /\ inst = [x \in Inst |-> "none"]
  /\ advance = [s \in Sequence |-> FALSE]
  /\ granted = [s \in Sequence |-> {}]
  /\ verdicts = [s \in Sequence |-> {}]

-----------------------------------------------------------------------------
(* The task.  A task with a pending cancellation does nothing else.          *)

At(s, where) == pc[s] = where /\ s \notin cancelling
Goto(s, where) == pc' = [pc EXCEPT ![s] = where]

\* End of the coroutine: broadcast, then "finally: sequence_registry.remove".
End(s, verdict) ==
  /\ Goto(s, "ended")
  /\ active' = active \ {s}
  /\ verdicts' = [verdicts EXCEPT ![s] = @ \cup {verdict}]

Begin(s) ==
  /\ At(s, "new")
  /\ Goto(s, "check")
  /\ UNCHANGED <<up, pos, cancelling, active, event, inst, advance, granted, verdicts>>

\* dispatch_execute: not connected raises ValueError; else the row is stored.
CheckConnected(s) ==
  /\ At(s, "check")
  /\ IF up THEN Goto(s, "send") /\ UNCHANGED <<active, verdicts>>
           ELSE End(s, "error")
  /\ UNCHANGED <<up, pos, cancelling, event, inst, advance, granted>>

\* The execute command is sent; the audit log write begins.
Send(s) ==
  /\ At(s, "send")
  /\ IF up THEN /\ inst' = [inst EXCEPT ![Current(s)] = "running"]
                /\ Goto(s, "audit")
                /\ UNCHANGED <<active, verdicts>>
           ELSE End(s, "error") /\ UNCHANGED inst
  /\ UNCHANGED <<up, pos, cancelling, event, advance, granted>>

\* dispatch_execute has returned; only now is the event registered.
RegisterInstance(s) ==
  /\ At(s, "audit")
  /\ event' = [event EXCEPT ![Current(s)] = "unset"]
  /\ Goto(s, "wait")
  /\ UNCHANGED <<up, pos, cancelling, active, inst, advance, granted, verdicts>>

CleanupInstance_Never(x) == UNCHANGED event    \* mutant: cleanup is forgotten
CleanupInstance(x) == event' = [event EXCEPT ![x] = "none"]

\* The /clear instance is over: on to the command.
Cleared(s) ==
  /\ At(s, "wait")
  /\ pos[s][2] = "clear"
  /\ event[Current(s)] = "set"
  /\ CleanupInstance(Current(s))
  /\ pos' = [pos EXCEPT ![s][2] = "command"]
  /\ Goto(s, "check")
  /\ UNCHANGED <<up, cancelling, active, inst, advance, granted, verdicts>>

NextStep(s) == pos' = [pos EXCEPT ![s] = <<@[1] + 1, "clear">>]

ClearAdvance_Never(s) == UNCHANGED advance     \* mutant: no advance_event.clear()
ClearAdvance(s) == advance' = [advance EXCEPT ![s] = FALSE]

LastStep_OffByOne(s) == pos[s][1] > Steps      \* mutant
LastStep(s) == pos[s][1] = Steps

\* The command instance is over: finish, pause, or go on.
StepCompleted(s) ==
  /\ At(s, "wait")
  /\ pos[s][2] = "command"
  /\ event[Current(s)] = "set"
  /\ CleanupInstance(Current(s))
  /\ \/ /\ LastStep(s)
        /\ End(s, "done")
        /\ UNCHANGED <<pos, advance>>
     \/ /\ ~LastStep(s) /\ s \in Manual
        /\ ClearAdvance(s)
        /\ Goto(s, "pause")
        /\ UNCHANGED <<pos, active, verdicts>>
     \/ /\ ~LastStep(s) /\ s \notin Manual
        /\ NextStep(s)
        /\ Goto(s, "check")
        /\ UNCHANGED <<active, verdicts, advance>>
  /\ UNCHANGED <<up, cancelling, inst, granted>>

Resume(s) ==
  /\ At(s, "pause")
  /\ advance[s]
  /\ NextStep(s)
  /\ Goto(s, "check")
  /\ UNCHANGED <<up, cancelling, active, event, inst, advance, granted, verdicts>>

\* CancelledError is raised in the task.  Before its first step the coroutine
\* body never runs, so nothing is broadcast.
Cancelled(s) ==
  /\ s \in cancelling
  /\ cancelling' = cancelling \ {s}
  /\ IF pc[s] = "new"
     THEN Goto(s, "ended") /\ UNCHANGED <<active, verdicts>>
     ELSE End(s, "error")
  /\ UNCHANGED <<up, pos, event, inst, advance, granted>>

Task(s) ==
  \/ Begin(s) \/ CheckConnected(s) \/ Send(s) \/ RegisterInstance(s)
  \/ Cleared(s) \/ StepCompleted(s) \/ Resume(s) \/ Cancelled(s)

-----------------------------------------------------------------------------
(* The frontend's messages.                                                 *)

StartSequence(s) ==
  /\ pc[s] = "none"
  /\ active' = active \cup {s}
  /\ Goto(s, "new")
  /\ UNCHANGED <<up, pos, cancelling, event, inst, advance, granted, verdicts>>

\* The user knows the id from sequence_started, so the task has begun.
CancelSequence(s) ==
  /\ Cancels
  /\ s \in active
  /\ pc[s] \in Busy \ {"new"}
  /\ cancelling' = cancelling \cup {s}
  /\ UNCHANGED <<up, pc, pos, active, event, inst, advance, granted, verdicts>>

\* advance_sequence may arrive at any time: an impatient or second tab.
AdvanceSequence(s) ==
  /\ s \in active \cap Manual
  /\ pc[s] # "new"
  /\ ~advance[s]
  /\ advance' = [advance EXCEPT ![s] = TRUE]
  /\ granted' = IF pc[s] = "pause" THEN [granted EXCEPT ![s] = @ \cup {pos[s][1]}]
                ELSE granted
  /\ UNCHANGED <<up, pc, pos, cancelling, active, event, inst, verdicts>>

-----------------------------------------------------------------------------
(* The handlers of node messages.                                           *)

\* Mutant: events are keyed by node, not by instance.
SignalCompletion_Node(x) ==
  event' = [y \in Inst |-> IF event[y] = "unset" THEN "set" ELSE event[y]]
\* Mutant: only handle_instance_finished signals.
SignalCompletion_FinishedOnly(x) ==
  \E finished \in BOOLEAN :
    event' = [event EXCEPT ![x] = IF finished /\ @ = "unset" THEN "set" ELSE @]
SignalCompletion(x) ==
  event' = [event EXCEPT ![x] = IF @ = "unset" THEN "set" ELSE @]

\* handle_instance_finished or handle_instance_error.
Terminal(x) ==
  /\ up
  /\ inst[x] = "running"
  /\ x[1] \in Early \/ ~(pc[x[1]] = "audit" /\ Current(x[1]) = x)
  /\ inst' = [inst EXCEPT ![x] = "over"]
  /\ SignalCompletion(x)
  /\ UNCHANGED <<up, pc, pos, cancelling, active, advance, granted, verdicts>>

\* Mutant: the entries are dropped, the tasks are left running.
CancelAllForNode_PopOnly ==
  /\ active' = {}
  /\ verdicts' = [s \in Sequence |->
                    IF s \in active THEN verdicts[s] \cup {"error"} ELSE verdicts[s]]
  /\ UNCHANGED cancelling

\* Pop every sequence, cancel its task, and broadcast one error for it.
CancelAllForNode ==
  /\ active' = {}
  /\ cancelling' = cancelling \cup {s \in active : pc[s] \in Busy}
  /\ verdicts' = [s \in Sequence |->
                    IF s \in active THEN verdicts[s] \cup {"error"} ELSE verdicts[s]]

\* handle_unexpected_disconnect; no terminal event of a running instance comes.
NodeDown ==
  /\ Drops
  /\ up
  /\ up' = FALSE
  /\ CancelAllForNode
  /\ inst' = [x \in Inst |-> IF inst[x] = "running" THEN "lost" ELSE inst[x]]
  /\ UNCHANGED <<pc, pos, event, advance, granted>>

NodeUp ==
  /\ ~up
  /\ up' = TRUE
  /\ UNCHANGED <<pc, pos, cancelling, active, event, inst, advance, granted, verdicts>>

\* Every sequence has ended: only the connection may still come and go.
Idle == (\A s \in Sequence : pc[s] = "ended") /\ UNCHANGED vars

Next ==
  \/ \E s \in Sequence : \/ Task(s) \/ StartSequence(s)
                         \/ CancelSequence(s) \/ AdvanceSequence(s)
  \/ \E x \in Inst : Terminal(x)
  \/ NodeDown \/ NodeUp \/ Idle

Spec == Init /\ [][Next]_vars

\* The loop runs ready tasks; an instance of the connected node ends some time;
\* users press Advance while a sequence is paused.
FairSpec ==
  /\ Spec
  /\ \A s \in Sequence :
       WF_vars(Task(s)) /\ WF_vars(pc[s] = "pause" /\ AdvanceSequence(s))
  /\ \A x \in Inst : WF_vars(Terminal(x))

-----------------------------------------------------------------------------
(* Safety.                                                                  *)

\* AUTO-02: strictly one after the other.  A command only starts when the /clear
\* before it is over, a step only when the command of the step before is over.
Over(x) == inst[x] = "over"
StepsInOrder ==
  \A s \in Sequence, k \in 1..Steps :
    /\ inst[<<s, k, "command">>] # "none" => Over(<<s, k, "clear">>)
    /\ k > 1 /\ inst[<<s, k, "clear">>] # "none" => Over(<<s, k - 1, "command">>)

\* AUTO-06: a manual sequence enters a step only when a user advanced it after
\* the step before was completed; an earlier or repeated advance does not count.
PauseRespected ==
  \A s \in Manual : \A k \in 1..(pos[s][1] - 1) : k \in granted[s]

\* A completion event outlives the wait it belongs to only when that wait was
\* cancelled; one wait at a time, for the instance the sequence is at.
EventsConsumed ==
  \A x \in Inst : event[x] # "none" =>
    /\ x = Current(x[1])
    /\ pc[x[1]] = "wait" \/ (pc[x[1]] = "ended" /\ "error" \in verdicts[x[1]])

\* sequencer.py:10, cleanup_instance is always called: an ended sequence leaves
\* no completion event behind.
NoEventLeak ==
  \A x \in Inst : pc[x[1]] = "ended" => event[x] = "none"

(* Refinement.                                                              *)

GoesOn(s) == s \notin Manual

\* How far a sequence is, for its users: the first error that is reported ends it.
LifeOf(s) ==
  IF pc[s] = "none" THEN [state |-> "none", step |-> 0, total |-> 0, auto |-> TRUE]
  ELSE [state |-> IF "error" \in verdicts[s] THEN "error"
                  ELSE IF verdicts[s] # {} THEN "done"
                  ELSE CASE pc[s] = "new" -> "new" [] pc[s] = "pause" -> "paused" [] OTHER -> "running",
        step |-> pos[s][1], total |-> Steps, auto |-> GoesOn(s)]

Life == INSTANCE SequenceLife WITH MaxSteps <- Steps, life <- [s \in Sequence |-> LifeOf(s)]

\* Tasks, completion events, cancellations and the disconnect handler together keep
\* the promise: steps one by one, a pause before each step of a manual sequence, one
\* end, and nothing after it.
LifeSpec == Life!LifeSpec

(* Liveness.                                                                *)

\* A sequence does not wait for ever for an instance that is over.
WaitEnds ==
  \A s \in Sequence :
    pc[s] = "wait" /\ inst[Current(s)] = "over" ~> pc[s] # "wait"

\* Every sequence that is started comes to an end, unless a terminal event was
\* handled too early.
SequenceEnds == \A s \in Sequence \ Early : pc[s] = "new" ~> pc[s] = "ended"

\* A sequence does not wait for ever for an instance whose terminal event will
\* never come: the disconnect handler ends it (handlers.py:367).
LostWaitEnds ==
  \A s \in Sequence :
    pc[s] = "wait" /\ inst[Current(s)] = "lost" ~> pc[s] = "ended"
=============================================================================
