--------------------------- MODULE Sequencer_proofs ---------------------------
(***************************************************************************)
(* Proofs about Sequencer, for any sequences and any number of steps: type  *)
(* correctness, strict order of the instances, the pauses of manual         *)
(* sequences, that the tasks, events, cancellations and the disconnect      *)
(* handler implement SequenceLife, and that no task waits without a reason. *)
(***************************************************************************)
EXTENDS Sequencer, TLAPS

USE SequencerAssumption DEF SequencerAssumption

-----------------------------------------------------------------------------
(* Type correctness.                                                          *)

LEMMA InstParts ==
  /\ \A s \in Sequence, k \in 1..Steps, ph \in Phase : <<s, k, ph>> \in Inst
  /\ \A x \in Inst : /\ x[1] \in Sequence /\ x[2] \in 1..Steps /\ x[3] \in Phase
                     /\ x = <<x[1], x[2], x[3]>>
BY DEF Inst

LEMMA CurrentInst ==
  ASSUME TypeOK, NEW s \in Sequence
  PROVE  /\ Current(s) \in Inst
         /\ pos[s][1] \in 1..Steps /\ pos[s][2] \in Phase
         /\ pos[s] = <<pos[s][1], pos[s][2]>>
         /\ Current(s)[1] = s /\ Current(s)[2] = pos[s][1] /\ Current(s)[3] = pos[s][2]
BY InstParts DEF TypeOK, Current

LEMMA TypeInit == Init => TypeOK
BY DEF Init, TypeOK, Phase

\* What a task does to its position and its end.
LEMMA EndType ==
  ASSUME TypeOK, NEW s \in Sequence, NEW v \in {"done", "error"}, End(s, v)
  PROVE  /\ pc' \in [Sequence -> Busy \cup {"none", "ended"}]
         /\ active' \subseteq Sequence
         /\ verdicts' \in [Sequence -> SUBSET {"done", "error"}]
BY DEF TypeOK, End, Goto

LEMMA NextStepType ==
  ASSUME TypeOK, NEW s \in Sequence, pos[s][1] < Steps, NextStep(s)
  PROVE  pos' \in [Sequence -> (1..Steps) \X Phase]
<1>1. <<pos[s][1] + 1, "clear">> \in (1..Steps) \X Phase
  BY CurrentInst DEF Phase
<1>2. QED  BY <1>1 DEF NextStep, TypeOK

LEMMA PhaseType ==
  ASSUME TypeOK, NEW s \in Sequence, pos' = [pos EXCEPT ![s][2] = "command"]
  PROVE  /\ pos' \in [Sequence -> (1..Steps) \X Phase]
         /\ pos'[s] = <<pos[s][1], "command">>
         /\ \A t \in Sequence \ {s} : pos'[t] = pos[t]
<1>1. [pos[s] EXCEPT ![2] = "command"] = <<pos[s][1], "command">>
  BY CurrentInst
<1>2. <<pos[s][1], "command">> \in (1..Steps) \X Phase
  BY CurrentInst DEF Phase
<1>3. QED  BY <1>1, <1>2 DEF TypeOK

\* A sequence pauses after the command of a step that is not the last.
PausedInside ==
  \A s \in Sequence : pc[s] = "pause" => pos[s][2] = "command" /\ pos[s][1] < Steps

LEMMA TaskType ==
  ASSUME TypeOK, PausedInside, NEW s \in Sequence, Task(s)
  PROVE  TypeOK'
<1>0. /\ pc' \in [Sequence -> Busy \cup {"none", "ended"}] /\ active' \subseteq Sequence
      /\ verdicts' \in [Sequence -> SUBSET {"done", "error"}]
  <2>1. CASE \E v \in {"done", "error"} : End(s, v)
    BY <2>1, EndType
  <2>2. CASE UNCHANGED <<active, verdicts>> /\ \E w \in Busy \cup {"ended"} : Goto(s, w)
    BY <2>2 DEF Goto, TypeOK
  <2>3. QED
    BY <2>1, <2>2 DEF Task, Begin, CheckConnected, Send, RegisterInstance, Cleared,
                      StepCompleted, Resume, Cancelled, Busy
<1>1. CASE Begin(s) \/ CheckConnected(s) \/ Cancelled(s)
  BY <1>0, <1>1 DEF Begin, CheckConnected, Cancelled, TypeOK
<1>2. CASE Send(s) \/ RegisterInstance(s)
  BY <1>0, <1>2, CurrentInst DEF Send, RegisterInstance, TypeOK
<1>3. CASE Cleared(s)
  <2>1. pos' \in [Sequence -> (1..Steps) \X Phase]
    BY <1>3, PhaseType DEF Cleared
  <2>2. event' \in [Inst -> {"none", "unset", "set"}]
    BY <1>3, CurrentInst DEF Cleared, CleanupInstance, TypeOK
  <2>3. UNCHANGED <<up, cancelling, inst, advance, granted>>
    BY <1>3 DEF Cleared
  <2>4. QED  BY <1>0, <2>1, <2>2, <2>3 DEF TypeOK
<1>4. CASE StepCompleted(s)
  <2>1. pos' \in [Sequence -> (1..Steps) \X Phase]
    <3>1. CASE LastStep(s) \/ s \in Manual
      BY <1>4, <3>1 DEF StepCompleted, TypeOK
    <3>2. CASE ~LastStep(s) /\ s \notin Manual
      <4>1. pos[s][1] < Steps
        BY <3>2, CurrentInst DEF LastStep
      <4>2. QED  BY <1>4, <3>2, <4>1, NextStepType DEF StepCompleted
    <3>3. QED  BY <3>1, <3>2
  <2>2. event' \in [Inst -> {"none", "unset", "set"}]
    BY <1>4, CurrentInst DEF StepCompleted, CleanupInstance, TypeOK
  <2>3. advance' \in [Sequence -> BOOLEAN]
    BY <1>4 DEF StepCompleted, ClearAdvance, TypeOK
  <2>4. UNCHANGED <<up, cancelling, inst, granted>>
    BY <1>4 DEF StepCompleted
  <2>5. QED  BY <1>0, <2>1, <2>2, <2>3, <2>4 DEF TypeOK
<1>5. CASE Resume(s)
  <2>1. pos' \in [Sequence -> (1..Steps) \X Phase]
    BY <1>5, NextStepType DEF Resume, At, PausedInside
  <2>2. QED  BY <1>0, <1>5, <2>1 DEF Resume, TypeOK
<1>6. QED  BY <1>1, <1>2, <1>3, <1>4, <1>5 DEF Task

\* What the rest of the system does.
Environment ==
  \/ \E s \in Sequence : StartSequence(s) \/ CancelSequence(s) \/ AdvanceSequence(s)
  \/ \E x \in Inst : Terminal(x)
  \/ NodeDown \/ NodeUp \/ UNCHANGED vars

LEMMA NextCases ==
  ASSUME [Next]_vars
  PROVE  Environment \/ \E s \in Sequence : Task(s)
BY DEF Next, Environment, Idle

LEMMA EnvironmentType ==
  ASSUME TypeOK, Environment
  PROVE  TypeOK'
<1>1. CASE \E s \in Sequence : StartSequence(s) \/ CancelSequence(s)
  BY <1>1 DEF StartSequence, CancelSequence, Goto, TypeOK, Busy
<1>2. CASE \E s \in Sequence : AdvanceSequence(s)
  BY <1>2, CurrentInst DEF AdvanceSequence, TypeOK
<1>3. ASSUME NEW x \in Inst, Terminal(x)
      PROVE  TypeOK'
  BY <1>3 DEF Terminal, SignalCompletion, TypeOK
<1>4. CASE NodeDown
  <2>1. verdicts' \in [Sequence -> SUBSET {"done", "error"}]
    BY <1>4 DEF NodeDown, CancelAllForNode, TypeOK
  <2>2. inst' \in [Inst -> {"none", "running", "over", "lost"}]
    BY <1>4 DEF NodeDown, TypeOK
  <2>3. QED  BY <1>4, <2>1, <2>2 DEF NodeDown, CancelAllForNode, TypeOK
<1>5. CASE NodeUp \/ UNCHANGED vars
  BY <1>5 DEF NodeUp, vars, TypeOK
<1>6. QED  BY <1>1, <1>2, <1>3, <1>4, <1>5 DEF Environment

\* A task moves only its own sequence.
LEMMA TaskIsLocal ==
  ASSUME TypeOK, NEW s \in Sequence, Task(s)
  PROVE  \A t \in Sequence \ {s} :
           /\ pc'[t] = pc[t] /\ pos'[t] = pos[t] /\ advance'[t] = advance[t]
           /\ verdicts'[t] = verdicts[t] /\ granted'[t] = granted[t]
           /\ (t \in active' <=> t \in active) /\ (t \in cancelling' <=> t \in cancelling)
<1>1. CASE Begin(s) \/ CheckConnected(s) \/ Send(s) \/ RegisterInstance(s) \/ Cancelled(s)
  BY <1>1 DEF TypeOK, Begin, CheckConnected, Send, RegisterInstance, Cancelled, End, Goto
<1>2. CASE Cleared(s)
  BY <1>2, PhaseType DEF TypeOK, Cleared, Goto
<1>3. CASE StepCompleted(s) \/ Resume(s)
  BY <1>3 DEF TypeOK, StepCompleted, Resume, End, Goto, NextStep, ClearAdvance
<1>4. QED  BY <1>1, <1>2, <1>3 DEF Task

LEMMA TaskPausedInside ==
  ASSUME TypeOK, PausedInside, NEW s \in Sequence, Task(s)
  PROVE  PausedInside'
<1>1. ASSUME pc'[s] = "pause"
      PROVE  pos'[s][2] = "command" /\ pos'[s][1] < Steps
  <2>1. StepCompleted(s)
    BY <1>1 DEF Task, TypeOK, Begin, CheckConnected, Send, RegisterInstance, Cleared, Resume,
                Cancelled, End, Goto, At
  <2>2. ~LastStep(s) /\ pos' = pos /\ pos[s][2] = "command"
    BY <1>1, <2>1 DEF StepCompleted, End, Goto, TypeOK
  <2>3. QED  BY <2>2, CurrentInst DEF LastStep
<1>2. QED  BY <1>1, TaskIsLocal DEF PausedInside

LEMMA EnvironmentPausedInside ==
  ASSUME TypeOK, PausedInside, Environment
  PROVE  PausedInside'
BY DEF Environment, StartSequence, CancelSequence, AdvanceSequence, Terminal, NodeDown,
       NodeUp, Goto, vars, PausedInside, TypeOK

Typed == TypeOK /\ PausedInside

LEMMA TypedInvariant == Spec => []Typed
<1>1. Init => Typed
  BY TypeInit DEF Init, Typed, PausedInside
<1>2. Typed /\ [Next]_vars => Typed'
  BY NextCases, TaskType, EnvironmentType, TaskPausedInside, EnvironmentPausedInside DEF Typed
<1>3. QED  BY <1>1, <1>2, PTL DEF Spec

\* Every variable keeps its type; a sequence never enters a step it does not have
\* (run_sequence's loop over its steps).
THEOREM TypeCorrect == Spec => []TypeOK
BY TypedInvariant, PTL DEF Typed

-----------------------------------------------------------------------------
(* The pauses.  While a manual sequence is paused, the flag that lets it go   *)
(* on was set by a user in this pause: it was cleared when the pause began.   *)

Granted(s) ==
  /\ \A k \in 1..(pos[s][1] - 1) : k \in granted[s]
  /\ pc[s] = "pause" /\ advance[s] => pos[s][1] \in granted[s]

PauseInv == \A s \in Manual : Granted(s)

LEMMA TaskPause ==
  ASSUME Typed, PauseInv, NEW s \in Sequence, Task(s)
  PROVE  PauseInv'
<1>0. TypeOK /\ PausedInside /\ pos[s][1] \in 1..Steps
  BY CurrentInst DEF Typed
<1>1. ASSUME NEW t \in Manual, t # s
      PROVE  Granted(t)'
  BY <1>0, <1>1, TaskIsLocal DEF PauseInv, Granted
<1>2. ASSUME s \in Manual
      PROVE  Granted(s)'
  <2>1. CASE Begin(s) \/ CheckConnected(s) \/ Send(s) \/ RegisterInstance(s) \/ Cancelled(s)
    <3>1. pos' = pos /\ granted' = granted /\ pc'[s] # "pause"
      BY <1>0, <2>1 DEF TypeOK, Begin, CheckConnected, Send, RegisterInstance, Cancelled, End, Goto
    <3>2. QED  BY <1>2, <3>1 DEF PauseInv, Granted
  <2>2. CASE Cleared(s)
    <3>1. pos'[s][1] = pos[s][1] /\ granted' = granted /\ pc'[s] # "pause"
      BY <1>0, <2>2, PhaseType DEF Cleared, Goto, TypeOK
    <3>2. QED  BY <1>2, <3>1 DEF PauseInv, Granted
  <2>3. CASE StepCompleted(s)
    <3>1. pos' = pos /\ granted' = granted
      BY <1>2, <2>3 DEF StepCompleted
    <3>2. pc'[s] = "pause" => ~advance'[s]
      BY <1>0, <2>3 DEF StepCompleted, ClearAdvance, End, Goto, TypeOK
    <3>3. QED  BY <1>2, <3>1, <3>2 DEF PauseInv, Granted
  <2>4. CASE Resume(s)
    <3>1. pos'[s][1] = pos[s][1] + 1 /\ granted' = granted /\ pc'[s] # "pause"
      BY <1>0, <2>4 DEF Resume, NextStep, Goto, TypeOK
    <3>2. pos[s][1] \in granted[s]
      BY <1>2, <2>4 DEF Resume, At, PauseInv, Granted
    <3>3. \A k \in 1..(pos'[s][1] - 1) : k = pos[s][1] \/ k \in 1..(pos[s][1] - 1)
      BY <1>0, <3>1
    <3>4. QED  BY <1>2, <3>1, <3>2, <3>3 DEF PauseInv, Granted
  <2>5. QED  BY <2>1, <2>2, <2>3, <2>4 DEF Task
<1>3. QED  BY <1>1, <1>2 DEF PauseInv

LEMMA EnvironmentPause ==
  ASSUME Typed, PauseInv, Environment
  PROVE  PauseInv'
<1>0. TypeOK
  BY DEF Typed
<1>1. ASSUME NEW s \in Sequence, StartSequence(s) \/ CancelSequence(s)
      PROVE  PauseInv'
  <2>1. UNCHANGED <<pos, granted, advance>> /\ \A t \in Sequence : pc'[t] = "pause" => pc[t] = "pause"
    BY <1>0, <1>1 DEF StartSequence, CancelSequence, Goto, TypeOK
  <2>2. QED  BY <2>1 DEF PauseInv, Granted
<1>2. ASSUME NEW s \in Sequence, AdvanceSequence(s)
      PROVE  PauseInv'
  <2>1. UNCHANGED <<pc, pos>> /\ \A t \in Sequence : granted[t] \subseteq granted'[t]
    BY <1>0, <1>2 DEF AdvanceSequence, TypeOK
  <2>2. \A t \in Sequence \ {s} : advance'[t] = advance[t]
    BY <1>0, <1>2 DEF AdvanceSequence, TypeOK
  <2>3. pc[s] = "pause" => pos[s][1] \in granted'[s]
    BY <1>0, <1>2 DEF AdvanceSequence, TypeOK
  <2>4. QED  BY <2>1, <2>2, <2>3 DEF PauseInv, Granted
<1>3. CASE NodeDown \/ NodeUp \/ (\E x \in Inst : Terminal(x)) \/ UNCHANGED vars
  <2>1. UNCHANGED <<pc, pos, granted, advance>>
    BY <1>3 DEF NodeDown, NodeUp, Terminal, vars
  <2>2. QED  BY <2>1 DEF PauseInv, Granted
<1>4. QED  BY <1>1, <1>2, <1>3 DEF Environment

LEMMA PauseInvariant == Spec => []PauseInv
<1>1. ASSUME Init, NEW s \in Manual
      PROVE  Granted(s)
  <2>1. s \in Sequence
    OBVIOUS
  <2>2. pos[s][1] = 1 /\ pc[s] = "none"
    BY <1>1, <2>1 DEF Init
  <2>3. 1..(pos[s][1] - 1) = {}
    BY <2>2
  <2>4. QED  BY <2>2, <2>3 DEF Granted
<1>2. Typed /\ PauseInv /\ [Next]_vars => PauseInv'
  BY NextCases, TaskPause, EnvironmentPause
<1>3. Init => PauseInv
  BY <1>1 DEF PauseInv
<1>4. QED  BY <1>2, <1>3, TypedInvariant, PTL DEF Spec

\* However often and whenever users press Advance, a manual sequence enters a step
\* only after an Advance in the pause before it (advance_event.clear() before the wait).
THEOREM PausesKept == Spec => []PauseRespected
<1>1. PauseInv => PauseRespected
  BY DEF PauseInv, Granted, PauseRespected
<1>2. QED  BY <1>1, PauseInvariant, PTL

-----------------------------------------------------------------------------
(* The order.  Everything before the current instance is over, nothing after  *)
(* it has begun, and a set event belongs to an instance that is over.         *)

Before(x) ==
  \/ x[2] < pos[x[1]][1]
  \/ x[2] = pos[x[1]][1] /\ x[3] = "clear" /\ pos[x[1]][2] = "command"

Ordered(x) ==
  /\ Before(x) => Over(x)
  /\ inst[x] # "none" => Before(x) \/ x = Current(x[1])
  /\ event[x] = "set" => Over(x)

OrderInv ==
  /\ \A x \in Inst : Ordered(x)
  /\ \A s \in Sequence : pc[s] = "pause" => Over(Current(s))

\* A sequence's only completion event is that of the instance it waits for.
LEMMA TaskEvents ==
  ASSUME Typed, EventsConsumed, NEW s \in Sequence, Task(s)
  PROVE  EventsConsumed'
<1>0. TypeOK
  BY DEF Typed
<1>1. ASSUME NEW x \in Inst, x[1] # s, event'[x] # "none"
      PROVE  /\ x = Current(x[1])'
             /\ pc'[x[1]] = "wait" \/ (pc'[x[1]] = "ended" /\ "error" \in verdicts'[x[1]])
  <2>1. event'[x] = event[x]
    BY <1>0, <1>1, CurrentInst DEF TypeOK, Task, Begin, CheckConnected, Send, RegisterInstance,
       Cleared, StepCompleted, Resume, Cancelled, CleanupInstance
  <2>2. QED  BY <1>0, <1>1, <2>1, TaskIsLocal, InstParts DEF EventsConsumed, Current
<1>2. ASSUME NEW x \in Inst, x[1] = s, event'[x] # "none"
      PROVE  /\ x = Current(s)'
             /\ pc'[s] = "wait" \/ (pc'[s] = "ended" /\ "error" \in verdicts'[s])
  <2>1. CASE Begin(s) \/ CheckConnected(s) \/ Send(s) \/ Resume(s)
    BY <1>0, <1>2, <2>1 DEF EventsConsumed, Begin, CheckConnected, Send, Resume, At
  <2>2. CASE RegisterInstance(s)
    BY <1>0, <1>2, <2>2, CurrentInst DEF EventsConsumed, RegisterInstance, At, Goto, Current, TypeOK
  <2>3. CASE Cleared(s) \/ StepCompleted(s)
    BY <1>0, <1>2, <2>3, CurrentInst DEF EventsConsumed, Cleared, StepCompleted, At, CleanupInstance, TypeOK
  <2>4. CASE Cancelled(s)
    BY <1>0, <1>2, <2>4 DEF EventsConsumed, Cancelled, End, Goto, Current, TypeOK
  <2>5. QED  BY <2>1, <2>2, <2>3, <2>4 DEF Task
<1>3. QED  BY <1>1, <1>2 DEF EventsConsumed

LEMMA EnvironmentEvents ==
  ASSUME Typed, EventsConsumed, Environment
  PROVE  EventsConsumed'
<1>0. TypeOK
  BY DEF Typed
<1>1. /\ UNCHANGED pos
      /\ \A x \in Inst : event'[x] # "none" => event[x] # "none"
    BY <1>0 DEF Environment, StartSequence, CancelSequence, AdvanceSequence, Terminal, NodeDown,
       NodeUp, SignalCompletion, vars, TypeOK
<1>2. \A s \in Sequence : pc[s] \in {"wait", "ended"} => pc'[s] = pc[s]
    BY <1>0 DEF Environment, StartSequence, CancelSequence, AdvanceSequence, Terminal, NodeDown,
       NodeUp, Goto, vars, TypeOK
<1>3. \A s \in Sequence : verdicts[s] \subseteq verdicts'[s]
    BY <1>0 DEF Environment, StartSequence, CancelSequence, AdvanceSequence, Terminal, NodeDown,
       NodeUp, CancelAllForNode, vars, TypeOK
<1>4. QED  BY <1>0, <1>1, <1>2, <1>3, InstParts DEF EventsConsumed, Current

\* A sequence keeps at most one completion event, of the instance it waits for, or of the
\* one it was cancelled at (SequenceRegistry.cleanup_instance).
THEOREM OneWaitAtATime == Spec => []EventsConsumed
<1>1. Init => EventsConsumed
  BY DEF Init, EventsConsumed
<1>2. Typed /\ EventsConsumed /\ [Next]_vars => EventsConsumed'
  BY NextCases, TaskEvents, EnvironmentEvents
<1>3. QED  BY <1>1, <1>2, TypedInvariant, PTL DEF Spec

\* A sequence that moves on past an instance that is over keeps the order.
LEMMA MovedOn ==
  ASSUME Typed, OrderInv, NEW s \in Sequence, Over(Current(s)), TypeOK',
         UNCHANGED inst,
         \A x \in Inst : x[1] = s => event'[x] \in {event[x], "none"},
         \/ pos[s][2] = "clear" /\ pos'[s] = <<pos[s][1], "command">>
         \/ pos[s][2] = "command" /\ pos'[s] = <<pos[s][1] + 1, "clear">>
  PROVE  \A x \in Inst : x[1] = s => Ordered(x)'
<1> SUFFICES ASSUME NEW x \in Inst, x[1] = s
             PROVE  Ordered(x)'
  OBVIOUS
<1>0. TypeOK
  BY DEF Typed
<1>1. x[2] \in 1..Steps /\ x[3] \in {"clear", "command"} /\ x = <<s, x[2], x[3]>>
  BY InstParts DEF Phase
<1>2. pos[s][1] \in 1..Steps /\ Current(s) = <<s, pos[s][1], pos[s][2]>>
  BY <1>0, CurrentInst DEF Current
<1>3. Before(x)' <=> Before(x) \/ x = Current(s)
  BY <1>1, <1>2 DEF Before
<1>4. Ordered(x)
  BY DEF OrderInv
<1>5. QED  BY <1>3, <1>4 DEF Ordered, Over

LEMMA TaskOrder ==
  ASSUME Typed, EventsConsumed, OrderInv, NEW s \in Sequence, Task(s)
  PROVE  OrderInv'
<1>0. TypeOK /\ PausedInside /\ TypeOK' /\ Current(s) \in Inst
  BY TaskType, CurrentInst DEF Typed
<1>1. ASSUME NEW x \in Inst, x[1] # s
      PROVE  Ordered(x)' /\ inst'[x] = inst[x]
  <2>1. inst'[x] = inst[x] /\ event'[x] = event[x]
    BY <1>0, <1>1, CurrentInst DEF TypeOK, Task, Begin, CheckConnected, Send, RegisterInstance,
       Cleared, StepCompleted, Resume, Cancelled, CleanupInstance
  <2>2. pos'[x[1]] = pos[x[1]]
    BY <1>0, <1>1, TaskIsLocal, InstParts
  <2>3. Ordered(x)
    BY DEF OrderInv
  <2>4. QED  BY <2>1, <2>2, <2>3 DEF Ordered, Before, Over, Current
<1>2. /\ \A x \in Inst : x[1] = s => Ordered(x)'
      /\ pc'[s] = "pause" => Over(Current(s))'
  <2>1. CASE Begin(s) \/ CheckConnected(s) \/ Cancelled(s)
    <3>1. UNCHANGED <<pos, inst, event>> /\ pc'[s] # "pause"
      BY <1>0, <2>1 DEF Begin, CheckConnected, Cancelled, End, Goto, TypeOK
    <3>2. QED  BY <3>1 DEF OrderInv, Ordered, Before, Over, Current
  <2>2. CASE Send(s)
    <3>1. event[Current(s)] # "set"
      BY <1>0, <2>2, CurrentInst DEF EventsConsumed, Send, At
    <3>2. ~Before(Current(s))
      BY <1>0, CurrentInst DEF Before
    <3>3. UNCHANGED <<pos, event>> /\ pc'[s] # "pause"
      BY <1>0, <2>2 DEF Send, End, Goto, TypeOK
    <3>4. \A x \in Inst : x # Current(s) => inst'[x] = inst[x]
      BY <1>0, <2>2 DEF Send, TypeOK
    <3>5. Ordered(Current(s))'
      <4>1. Current(s)' = Current(s) /\ Current(s)[1] = s
        BY <1>0, <3>3, CurrentInst DEF Current
      <4>2. Before(Current(s))' = Before(Current(s))
        BY <3>3, <4>1 DEF Before
      <4>3. event'[Current(s)] # "set"
        BY <3>1, <3>3
      <4>4. QED  BY <3>2, <4>1, <4>2, <4>3, <3>3 DEF Ordered, Over, Before
    <3>6. \A x \in Inst : x # Current(s) => Ordered(x)'
      BY <3>3, <3>4 DEF OrderInv, Ordered, Before, Over, Current
    <3>7. Current(s)' = Current(s)
      BY <3>3 DEF Current
    <3>8. QED  BY <3>3, <3>5, <3>6, <3>7
  <2>3. CASE RegisterInstance(s)
    <3>1. UNCHANGED <<pos, inst>> /\ pc'[s] # "pause"
      BY <1>0, <2>3 DEF RegisterInstance, Goto, TypeOK
    <3>2. \A x \in Inst : event'[x] = "set" => event[x] = "set"
      BY <1>0, <2>3 DEF RegisterInstance, TypeOK
    <3>3. QED  BY <3>1, <3>2 DEF OrderInv, Ordered, Before, Over, Current
  <2>4. CASE Cleared(s)
    <3>1. Over(Current(s)) /\ pos[s][2] = "clear"
      BY <1>0, <2>4 DEF Cleared, OrderInv, Ordered
    <3>2. pos'[s] = <<pos[s][1], "command">> /\ pc'[s] # "pause"
      BY <1>0, <2>4, PhaseType DEF Cleared, Goto, TypeOK
    <3>3. \A x \in Inst : event'[x] \in {event[x], "none"}
      BY <1>0, <2>4 DEF Cleared, CleanupInstance, TypeOK
    <3>4. UNCHANGED inst
      BY <2>4 DEF Cleared
    <3>5. QED  BY <1>0, <3>1, <3>2, <3>3, <3>4, MovedOn
  <2>5. CASE StepCompleted(s)
    <3>1. Over(Current(s)) /\ pos[s][2] = "command" /\ UNCHANGED inst
      BY <1>0, <2>5 DEF StepCompleted, OrderInv, Ordered
    <3>2. \A x \in Inst : event'[x] \in {event[x], "none"}
      BY <1>0, <2>5 DEF StepCompleted, CleanupInstance, TypeOK
    <3>3. CASE UNCHANGED pos
      BY <3>1, <3>2, <3>3 DEF OrderInv, Ordered, Before, Over, Current
    <3>4. CASE NextStep(s) /\ Goto(s, "check")
      <4>1. pos'[s] = <<pos[s][1] + 1, "clear">> /\ pc'[s] # "pause"
        BY <1>0, <3>4 DEF NextStep, Goto, TypeOK
      <4>2. QED  BY <1>0, <3>1, <3>2, <4>1, MovedOn
    <3>5. QED  BY <2>5, <3>3, <3>4 DEF StepCompleted
  <2>6. CASE Resume(s)
    <3>1. Over(Current(s)) /\ pos[s][2] = "command" /\ UNCHANGED <<inst, event>>
      BY <1>0, <2>6 DEF Resume, At, OrderInv, PausedInside
    <3>2. pos'[s] = <<pos[s][1] + 1, "clear">> /\ pc'[s] # "pause"
      BY <1>0, <2>6 DEF Resume, NextStep, Goto, TypeOK
    <3>3. QED  BY <1>0, <3>1, <3>2, MovedOn
  <2>7. QED  BY <2>1, <2>2, <2>3, <2>4, <2>5, <2>6 DEF Task
<1>3. ASSUME NEW t \in Sequence, t # s, pc'[t] = "pause"
      PROVE  Over(Current(t))'
  <2>1. pc[t] = "pause" /\ Current(t)' = Current(t)
    BY <1>0, <1>3, TaskIsLocal DEF Current
  <2>2. Current(t) \in Inst /\ Current(t)[1] # s
    BY <1>0, <1>3, CurrentInst
  <2>3. QED  BY <1>1, <2>1, <2>2 DEF OrderInv, Over
<1>4. QED  BY <1>1, <1>2, <1>3 DEF OrderInv

LEMMA EnvironmentOrder ==
  ASSUME Typed, OrderInv, Environment
  PROVE  OrderInv'
<1>0. TypeOK
  BY DEF Typed
<1>1. UNCHANGED pos /\ \A s \in Sequence : pc'[s] = "pause" => pc[s] = "pause"
  BY <1>0 DEF Environment, StartSequence, CancelSequence, AdvanceSequence, Terminal, NodeDown,
     NodeUp, Goto, vars, TypeOK
<1>2. \A x \in Inst : /\ Over(x) => Over(x)'
                      /\ inst'[x] # "none" => inst[x] # "none"
                      /\ event'[x] = "set" => event[x] = "set" \/ Over(x)'
  BY <1>0 DEF Environment, StartSequence, CancelSequence, AdvanceSequence, Terminal, NodeDown,
     NodeUp, SignalCompletion, Over, vars, TypeOK
<1>3. QED  BY <1>0, <1>1, <1>2, CurrentInst DEF OrderInv, Ordered, Before, Current

LEMMA OrderInvariant == Spec => []OrderInv
<1>1. Init => OrderInv
  BY InstParts DEF Init, OrderInv, Ordered, Before
<1>2. Typed /\ EventsConsumed /\ OrderInv /\ [Next]_vars => OrderInv'
  BY NextCases, TaskOrder, EnvironmentOrder
<1>3. QED  BY <1>1, <1>2, TypedInvariant, OneWaitAtATime, PTL DEF Spec

\* AUTO-02: a sequence of any length starts no command before the /clear before it is
\* over and no step before the command of the step before it is over (run_sequence),
\* whatever is cancelled, lost or signalled early.
THEOREM StrictOrder == Spec => []StepsInOrder
<1>1. ASSUME OrderInv, Typed
      PROVE  StepsInOrder
  <2> SUFFICES ASSUME NEW s \in Sequence, NEW k \in 1..Steps
               PROVE  /\ inst[<<s, k, "command">>] # "none" => Over(<<s, k, "clear">>)
                      /\ k > 1 /\ inst[<<s, k, "clear">>] # "none" => Over(<<s, k - 1, "command">>)
    BY DEF StepsInOrder
  <2>0. TypeOK /\ pos[s][1] \in 1..Steps /\ Current(s) = <<s, pos[s][1], pos[s][2]>>
    BY <1>1, CurrentInst DEF Typed, Current
  <2>1. <<s, k, "clear">> \in Inst /\ <<s, k, "command">> \in Inst
    BY InstParts DEF Phase
  <2>2. ASSUME inst[<<s, k, "command">>] # "none"
        PROVE  Before(<<s, k, "clear">>)
    BY <1>1, <2>0, <2>1, <2>2 DEF OrderInv, Ordered, Before
  <2>3. ASSUME k > 1, inst[<<s, k, "clear">>] # "none"
        PROVE  <<s, k - 1, "command">> \in Inst /\ Before(<<s, k - 1, "command">>)
    <3>1. k - 1 \in 1..Steps
      BY <2>3
    <3>2. k <= pos[s][1]
      BY <1>1, <2>0, <2>1, <2>3 DEF OrderInv, Ordered, Before
    <3>3. <<s, k - 1, "command">> \in Inst
      BY <3>1 DEF Inst, Phase
    <3>4. Before(<<s, k - 1, "command">>)
      BY <2>0, <3>1, <3>2 DEF Before
    <3>5. QED  BY <3>3, <3>4
  <2>4. QED  BY <1>1, <2>1, <2>2, <2>3 DEF OrderInv, Ordered
<1>2. QED  BY <1>1, OrderInvariant, TypedInvariant, PTL

-----------------------------------------------------------------------------
(* The promise.  An entry of the registry is a sequence that goes on and has  *)
(* reported no end; a task that goes on without an entry is one that the      *)
(* disconnect handler has cancelled and reported.                             *)

Lives(s) ==
  /\ pc[s] = "none" => pos[s] = <<1, "clear">> /\ verdicts[s] = {}
  /\ s \in active => pc[s] \in Busy /\ verdicts[s] = {}
  /\ pc[s] \in Busy /\ s \notin active => s \in cancelling /\ "error" \in verdicts[s]
  /\ s \in cancelling => pc[s] \in Busy
  /\ s \in cancelling /\ pc[s] = "new" => s \notin active
  /\ pc[s] = "ended" => verdicts[s] # {}

LifeInv == \A s \in Sequence : Lives(s)

LEMMA TaskLife ==
  ASSUME Typed, LifeInv, NEW s \in Sequence, Task(s)
  PROVE  LifeInv'
<1>0. TypeOK
  BY DEF Typed
<1>1. ASSUME NEW t \in Sequence, t # s
      PROVE  Lives(t)'
  BY <1>0, <1>1, TaskIsLocal DEF LifeInv, Lives
<1>2. Lives(s)'
  <2>0. Lives(s)
    BY DEF LifeInv
  <2>1. CASE Cancelled(s)
    <3>1. CASE pc[s] = "new"
      BY <1>0, <2>0, <2>1, <3>1 DEF Cancelled, Goto, Lives, Busy, TypeOK
    <3>2. CASE pc[s] # "new"
      <4>1. End(s, "error") /\ cancelling' = cancelling \ {s}
        BY <2>1, <3>2 DEF Cancelled
      <4>2. pc'[s] = "ended" /\ s \notin active' /\ s \notin cancelling' /\ "error" \in verdicts'[s]
        BY <1>0, <4>1 DEF End, Goto, TypeOK
      <4>3. QED  BY <4>2 DEF Lives, Busy
    <3>3. QED  BY <3>1, <3>2
  <2>2. CASE ~Cancelled(s)
    <3>1. s \notin cancelling /\ pc[s] \in Busy /\ UNCHANGED cancelling
      BY <2>2 DEF Task, Begin, CheckConnected, Send, RegisterInstance, Cleared, StepCompleted,
                  Resume, At, Busy
    <3>2. \/ \E v \in {"done", "error"} : End(s, v)
          \/ UNCHANGED <<active, verdicts>> /\ \E w \in Busy : Goto(s, w)
      BY <2>2 DEF Task, Begin, CheckConnected, Send, RegisterInstance, Cleared, StepCompleted,
                  Resume, Busy
    <3>3. CASE \E v \in {"done", "error"} : End(s, v)
      BY <1>0, <2>0, <3>1, <3>3 DEF End, Goto, Lives, Busy, TypeOK
    <3>4. CASE UNCHANGED <<active, verdicts>> /\ \E w \in Busy : Goto(s, w)
      BY <1>0, <2>0, <3>1, <3>4 DEF Goto, Lives, Busy, TypeOK
    <3>5. QED  BY <3>2, <3>3, <3>4
  <2>3. QED  BY <2>1, <2>2
<1>3. QED  BY <1>1, <1>2 DEF LifeInv

LEMMA EnvironmentLife ==
  ASSUME Typed, LifeInv, Environment
  PROVE  LifeInv'
<1>0. TypeOK
  BY DEF Typed
<1>1. ASSUME NEW s \in Sequence, StartSequence(s)
      PROVE  LifeInv'
  BY <1>0, <1>1 DEF StartSequence, Goto, LifeInv, Lives, Busy, TypeOK
<1>2. ASSUME NEW s \in Sequence, CancelSequence(s)
      PROVE  LifeInv'
  BY <1>0, <1>2 DEF CancelSequence, LifeInv, Lives, Busy
<1>3. CASE NodeDown
  BY <1>0, <1>3 DEF NodeDown, CancelAllForNode, LifeInv, Lives, Busy, TypeOK
<1>4. CASE NodeUp \/ UNCHANGED vars \/ (\E s \in Sequence : AdvanceSequence(s))
           \/ (\E x \in Inst : Terminal(x))
  <2>1. UNCHANGED <<pc, pos, verdicts, active, cancelling>>
    BY <1>4 DEF NodeUp, AdvanceSequence, Terminal, vars
  <2>2. QED  BY <2>1 DEF LifeInv, Lives
<1>5. QED  BY <1>1, <1>2, <1>3, <1>4 DEF Environment

LEMMA LifeInvariant == Spec => []LifeInv
<1>1. Init => LifeInv
  BY DEF Init, LifeInv, Lives, Busy
<1>2. Typed /\ LifeInv /\ [Next]_vars => LifeInv'
  BY NextCases, TaskLife, EnvironmentLife
<1>3. QED  BY <1>1, <1>2, TypedInvariant, PTL DEF Spec

Running(s) == [state |-> "running", step |-> pos[s][1], total |-> Steps, auto |-> GoesOn(s)]

\* What users see of a sequence, by where its task is.
LEMMA LifeByPlace ==
  ASSUME Typed, LifeInv, NEW s \in Sequence
  PROVE  /\ pc[s] # "none" => LifeOf(s) = [Running(s) EXCEPT !.state = LifeOf(s).state]
         /\ s \in active => LifeOf(s).state = CASE pc[s] = "new"   -> "new"
                                               [] pc[s] = "pause" -> "paused"
                                               [] OTHER           -> "running"
         /\ pc[s] # "none" /\ "error" \in verdicts[s] => LifeOf(s).state = "error"
         /\ s \notin active => LifeOf(s).state \notin Life!Ongoing
<1>0. pc[s] \in Busy \cup {"none", "ended"} /\ verdicts[s] \in SUBSET {"done", "error"} /\ Lives(s)
  BY DEF Typed, TypeOK, LifeInv
<1>1. ASSUME pc[s] # "none"
      PROVE  /\ LifeOf(s) = [Running(s) EXCEPT !.state = LifeOf(s).state]
             /\ LifeOf(s).state = IF "error" \in verdicts[s] THEN "error"
                  ELSE IF verdicts[s] # {} THEN "done"
                  ELSE CASE pc[s] = "new" -> "new" [] pc[s] = "pause" -> "paused" [] OTHER -> "running"
  BY <1>1 DEF LifeOf, Running
<1>2. ASSUME pc[s] = "none"
      PROVE  LifeOf(s).state = "none"
  BY <1>2 DEF LifeOf
<1>3. ASSUME s \in active
      PROVE  LifeOf(s).state = CASE pc[s] = "new"   -> "new"
                                 [] pc[s] = "pause" -> "paused"
                                 [] OTHER           -> "running"
  <2>1. verdicts[s] = {} /\ pc[s] # "none"
    BY <1>0, <1>3 DEF Lives, Busy
  <2>2. QED  BY <1>1, <2>1
<1>4. ASSUME s \notin active
      PROVE  LifeOf(s).state \notin Life!Ongoing
  <2>1. pc[s] = "none" \/ verdicts[s] # {}
    BY <1>0, <1>4 DEF Lives
  <2>2. CASE verdicts[s] # {} /\ pc[s] # "none"
    <3>1. "error" \in verdicts[s] \/ "done" \in verdicts[s]
      BY <1>0, <2>2
    <3>2. LifeOf(s).state \in {"error", "done"}
      BY <1>1, <2>2, <3>1
    <3>3. QED  BY <3>2 DEF Life!Ongoing
  <2>3. QED  BY <1>2, <2>1, <2>2 DEF Life!Ongoing
<1>5. pc[s] # "none" /\ "error" \in verdicts[s] => LifeOf(s).state = "error"
  BY <1>1
<1>6. QED  BY <1>1, <1>3, <1>4, <1>5

\* A task that is not cancelled is in the registry.
LEMMA TaskIsActive ==
  ASSUME Typed, LifeInv, NEW s \in Sequence, s \notin cancelling, pc[s] \in Busy
  PROVE  s \in active /\ verdicts[s] = {}
BY DEF LifeInv, Lives

Shown == [s \in Sequence |-> LifeOf(s)]

\* A task's step changes what is shown of its own sequence only.
LEMMA TaskShows ==
  ASSUME Typed, NEW s \in Sequence, Task(s)
  PROVE  Shown' = [Shown EXCEPT ![s] = LifeOf(s)']
<1>1. \A t \in Sequence \ {s} : LifeOf(t)' = LifeOf(t)
  BY TaskIsLocal DEF LifeOf, Typed
<1>2. QED  BY <1>1 DEF Shown

LEMMA TaskStep ==
  ASSUME Typed, LifeInv, LifeInv', Typed', NEW s \in Sequence, Task(s)
  PROVE  Life!LifeNext \/ UNCHANGED Shown
<1>0. TypeOK /\ PausedInside /\ TypeOK' /\ pos[s][1] \in 1..Steps
  BY CurrentInst DEF Typed
<1>1. /\ Shown' = [Shown EXCEPT ![s] = LifeOf(s)']
      /\ Shown[s] = LifeOf(s)
  BY TaskShows DEF Shown
<1>2. LifeOf(s)' = LifeOf(s) => UNCHANGED Shown
  BY <1>1 DEF Shown
<1>3. CASE s \notin cancelling
  <2>1. s \in active /\ verdicts[s] = {} /\ pc[s] \in Busy
    BY <1>3, TaskIsActive DEF Task, Begin, CheckConnected, Send, RegisterInstance, Cleared,
       StepCompleted, Resume, Cancelled, At, Busy
  <2>2. LifeOf(s) = [state |-> CASE pc[s] = "new" -> "new" [] pc[s] = "pause" -> "paused" [] OTHER -> "running",
                     step |-> pos[s][1], total |-> Steps, auto |-> GoesOn(s)]
    BY <2>1 DEF LifeOf, Busy
  <2>3. CASE Begin(s)
    <3>1. pc[s] = "new" /\ pc'[s] = "check" /\ UNCHANGED <<pos, verdicts>>
      BY <1>0, <2>3 DEF Begin, At, Goto, TypeOK
    <3>2. LifeOf(s).state = "new" /\ LifeOf(s)' = [LifeOf(s) EXCEPT !.state = "running"]
      BY <2>1, <2>2, <3>1 DEF LifeOf
    <3>3. Life!Enter(s)
      BY <1>1, <3>2 DEF Life!Enter, Shown
    <3>4. QED  BY <3>3 DEF Life!LifeNext
  <2>4. ASSUME End(s, "error"), UNCHANGED pos, pc[s] \in {"check", "send"}
        PROVE  Life!LifeNext
    <3>1. pc'[s] = "ended" /\ "error" \in verdicts'[s]
      BY <1>0, <2>4 DEF End, Goto, TypeOK
    <3>2. LifeOf(s).state = "running" /\ LifeOf(s)' = [LifeOf(s) EXCEPT !.state = "error"]
      BY <2>1, <2>2, <2>4, <3>1 DEF LifeOf
    <3>3. Life!Fail(s)
      BY <1>1, <3>2 DEF Life!Fail, Shown
    <3>4. QED  BY <3>3 DEF Life!LifeNext
  <2>5. ASSUME UNCHANGED verdicts, pos'[s][1] = pos[s][1], pc[s] \in {"check", "send", "audit", "wait"},
               pc'[s] \in {"check", "send", "audit", "wait"}
        PROVE  UNCHANGED Shown
    <3>1. LifeOf(s)' = LifeOf(s)
      BY <2>1, <2>2, <2>5 DEF LifeOf
    <3>2. QED  BY <1>2, <3>1
  <2>6. CASE CheckConnected(s) \/ Send(s)
    BY <1>0, <2>4, <2>5, <2>6 DEF CheckConnected, Send, At, Goto, TypeOK
  <2>7. CASE RegisterInstance(s)
    BY <1>0, <2>5, <2>7 DEF RegisterInstance, At, Goto, TypeOK
  <2>8. CASE Cleared(s)
    <3>1. pos'[s][1] = pos[s][1]
      BY <1>0, <2>8, PhaseType DEF Cleared
    <3>2. QED  BY <1>0, <2>5, <2>8, <3>1 DEF Cleared, At, Goto, TypeOK
  <2>9. CASE StepCompleted(s)
    <3>1. LifeOf(s).state = "running" /\ LifeOf(s).step = pos[s][1] /\ LifeOf(s).total = Steps
          /\ LifeOf(s).auto = GoesOn(s)
      BY <2>2, <2>9 DEF StepCompleted, At
    <3>2. CASE LastStep(s)
      <4>1. pc'[s] = "ended" /\ verdicts'[s] = {"done"} /\ UNCHANGED pos
        BY <1>0, <2>1, <2>9, <3>2 DEF StepCompleted, End, Goto, TypeOK
      <4>2. LifeOf(s)' = [LifeOf(s) EXCEPT !.state = "done"]
        BY <2>1, <2>2, <4>1 DEF LifeOf
      <4>3. Life!Finish(s)
        BY <1>1, <3>1, <3>2, <4>2 DEF Life!Finish, Shown, LastStep
      <4>4. QED  BY <4>3 DEF Life!LifeNext
    <3>3. CASE ~LastStep(s) /\ s \in Manual
      <4>1. pc'[s] = "pause" /\ UNCHANGED <<pos, verdicts>>
        BY <1>0, <2>9, <3>3 DEF StepCompleted, Goto, TypeOK
      <4>2. LifeOf(s)' = [LifeOf(s) EXCEPT !.state = "paused"]
        BY <2>1, <2>2, <4>1 DEF LifeOf
      <4>a. GoesOn(s) = FALSE
        BY <3>3 DEF GoesOn
      <4>3. Shown[s].state = "running" /\ Shown[s].step < Shown[s].total /\ Shown[s].auto = FALSE
        BY <1>0, <1>1, <3>1, <3>3, <4>a DEF LastStep
      <4>4. Shown' = [Shown EXCEPT ![s] = [Shown[s] EXCEPT !.state = "paused"]]
        BY <1>1, <4>2
      <4>5. Life!Complete(s)
        BY <4>3, <4>4 DEF Life!Complete, Shown
      <4>6. QED  BY <4>5 DEF Life!LifeNext
    <3>4. CASE ~LastStep(s) /\ s \notin Manual
      <4>1. pc'[s] = "check" /\ pos'[s][1] = pos[s][1] + 1 /\ UNCHANGED verdicts /\ pc[s] = "wait"
        BY <1>0, <2>9, <3>4 DEF StepCompleted, NextStep, At, Goto, TypeOK
      <4>2. LifeOf(s)' = [LifeOf(s) EXCEPT !.step = @ + 1]
        BY <2>1, <2>2, <4>1 DEF LifeOf
      <4>a. GoesOn(s) = TRUE
        BY <3>4 DEF GoesOn
      <4>3. Shown[s].state = "running" /\ Shown[s].step < Shown[s].total /\ Shown[s].auto = TRUE
        BY <1>0, <1>1, <3>1, <3>4, <4>a DEF LastStep
      <4>4. Shown' = [Shown EXCEPT ![s] = [Shown[s] EXCEPT !.step = @ + 1]]
        BY <1>1, <4>2
      <4>5. Life!Complete(s)
        BY <4>3, <4>4 DEF Life!Complete, Shown
      <4>6. QED  BY <4>5 DEF Life!LifeNext
    <3>5. QED  BY <3>2, <3>3, <3>4
  <2>10. CASE Resume(s)
    <3>1. pc[s] = "pause" /\ pc'[s] = "check" /\ pos'[s][1] = pos[s][1] + 1 /\ UNCHANGED verdicts
      BY <1>0, <2>10 DEF Resume, NextStep, At, Goto, TypeOK
    <3>2. LifeOf(s)' = [state |-> "running", step |-> pos[s][1] + 1, total |-> Steps, auto |-> GoesOn(s)]
      BY <2>1, <3>1 DEF LifeOf
    <3>3. LifeOf(s) = [state |-> "paused", step |-> pos[s][1], total |-> Steps, auto |-> GoesOn(s)]
      BY <2>2, <3>1
    <3>5. Life!Advance(s)
      <4>1. Shown[s].state = "paused" /\ Shown[s].step = pos[s][1]
        BY <1>1, <3>3
      <4>2. LifeOf(s)' = [[LifeOf(s) EXCEPT !.state = "running"] EXCEPT !.step = pos[s][1] + 1]
        <5> DEFINE r == [state |-> "running", step |-> pos[s][1], total |-> Steps, auto |-> GoesOn(s)]
        <5>1. [LifeOf(s) EXCEPT !.state = "running"] = r
          BY <3>3
        <5>2. LifeOf(s)' = [r EXCEPT !.step = pos[s][1] + 1]
          BY <3>2
        <5> HIDE DEF r
        <5>3. QED  BY <5>1, <5>2
      <4>3. Shown' = [Shown EXCEPT ![s].state = "running", ![s].step = @ + 1]
        BY <1>1, <4>1, <4>2 DEF Shown
      <4>4. QED  BY <4>1, <4>3 DEF Life!Advance, Shown
    <3>6. QED  BY <3>5 DEF Life!LifeNext
  <2>11. ~Cancelled(s)
    BY <1>3 DEF Cancelled
  <2>12. QED  BY <2>3, <2>6, <2>7, <2>8, <2>9, <2>10, <2>11 DEF Task
<1>4. CASE s \in cancelling
  <2>1. Cancelled(s) /\ UNCHANGED pos
    BY <1>4 DEF Task, Begin, CheckConnected, Send, RegisterInstance, Cleared, StepCompleted,
                Resume, Cancelled, At
  <2>2. Lives(s) /\ pc[s] \in Busy
    BY <1>4 DEF LifeInv, Lives
  <2>3. pc'[s] = "ended"
    BY <1>0, <2>1 DEF Cancelled, End, Goto, TypeOK
  <2>4. CASE "error" \in verdicts[s]
    <3>1. "error" \in verdicts'[s]
      BY <1>0, <2>1, <2>4 DEF Cancelled, End, TypeOK
    <3>2. LifeOf(s)' = LifeOf(s)
      BY <2>1, <2>2, <2>3, <2>4, <3>1 DEF LifeOf, Busy
    <3>3. QED  BY <1>2, <3>2
  <2>5. CASE "error" \notin verdicts[s]
    <3>1. s \in active /\ verdicts[s] = {} /\ pc[s] # "new"
      BY <1>4, <2>2, <2>5 DEF Lives
    <3>2. "error" \in verdicts'[s]
      BY <1>0, <2>1, <3>1 DEF Cancelled, End, TypeOK
    <3>3. LifeOf(s).state \in {"running", "paused"} /\ LifeOf(s)' = [LifeOf(s) EXCEPT !.state = "error"]
      BY <2>1, <2>2, <2>3, <3>1, <3>2 DEF LifeOf, Busy
    <3>4. Life!Fail(s)
      BY <1>1, <3>3 DEF Life!Fail, Shown
    <3>5. QED  BY <3>4 DEF Life!LifeNext
  <2>6. QED  BY <2>4, <2>5
<1>5. QED  BY <1>3, <1>4

LEMMA EnvironmentStep ==
  ASSUME Typed, LifeInv, LifeInv', Environment
  PROVE  Life!LifeNext \/ UNCHANGED Shown
<1>0. TypeOK
  BY DEF Typed
<1>1. ASSUME NEW s \in Sequence, StartSequence(s)
      PROVE  Life!LifeNext
  <2>1. pc[s] = "none" /\ pc'[s] = "new" /\ UNCHANGED <<pos, verdicts>>
    BY <1>0, <1>1 DEF StartSequence, Goto, TypeOK
  <2>2. pos[s][1] = 1 /\ verdicts[s] = {}
    BY <2>1 DEF LifeInv, Lives
  <2>3. LifeOf(s) = Life!Unborn
    BY <2>1 DEF LifeOf, Life!Unborn
  <2>4. LifeOf(s)' = [state |-> "new", step |-> 1, total |-> Steps, auto |-> GoesOn(s)]
    BY <2>1, <2>2 DEF LifeOf
  <2>5. \A t \in Sequence \ {s} : LifeOf(t)' = LifeOf(t)
    BY <1>0, <1>1 DEF StartSequence, Goto, LifeOf, TypeOK
  <2>6. Shown' = [Shown EXCEPT ![s] = LifeOf(s)']
    BY <2>5 DEF Shown
  <2>7. Life!Start(s, Steps, GoesOn(s))
    BY <2>3, <2>4, <2>6 DEF Life!Start, Shown
  <2>8. GoesOn(s) \in BOOLEAN /\ Steps \in 1..Steps
    BY DEF GoesOn
  <2>9. QED  BY <2>7, <2>8 DEF Life!LifeNext
<1>2. CASE NodeDown
  <2>1. UNCHANGED <<pc, pos>>
    BY <1>2 DEF NodeDown
  <2>2. ASSUME NEW s \in Sequence
        PROVE  LifeOf(s)' = IF Shown[s].state \in Life!Ongoing THEN [Shown[s] EXCEPT !.state = "error"] ELSE Shown[s]
    <3>1. Shown[s] = LifeOf(s)
      BY DEF Shown
    <3>2. CASE s \in active
      <4>1. pc[s] \in Busy /\ verdicts[s] = {}
        BY <3>2 DEF LifeInv, Lives
      <4>2. "error" \in verdicts'[s]
        BY <1>0, <1>2, <3>2 DEF NodeDown, CancelAllForNode, TypeOK
      <4>3. LifeOf(s).state \in Life!Ongoing /\ LifeOf(s)' = [LifeOf(s) EXCEPT !.state = "error"]
        BY <2>1, <4>1, <4>2 DEF LifeOf, Busy, Life!Ongoing
      <4>4. QED  BY <3>1, <4>3
    <3>3. CASE s \notin active
      <4>1. verdicts'[s] = verdicts[s]
        BY <1>0, <1>2, <3>3 DEF NodeDown, CancelAllForNode, TypeOK
      <4>2. LifeOf(s)' = LifeOf(s)
        BY <2>1, <4>1 DEF LifeOf
      <4>3. QED  BY <3>1, <3>3, <4>2, LifeByPlace
    <3>4. QED  BY <3>2, <3>3
  <2>3. Life!FailAll
    BY <2>2 DEF Life!FailAll, Shown
  <2>4. QED  BY <2>3 DEF Life!LifeNext
<1>3. CASE NodeUp \/ UNCHANGED vars \/ (\E x \in Inst : Terminal(x))
           \/ \E s \in Sequence : CancelSequence(s) \/ AdvanceSequence(s)
  <2>1. UNCHANGED <<pc, pos, verdicts>>
    BY <1>3 DEF NodeUp, AdvanceSequence, CancelSequence, Terminal, vars
  <2>2. QED  BY <2>1 DEF Shown, LifeOf
<1>4. QED  BY <1>1, <1>2, <1>3 DEF Environment

\* For any sequences and any number of steps, the asyncio tasks with their completion
\* events, cancellations and the disconnect handler (run_sequence, cancel_all_for_node)
\* implement the abstract life of a sequence.
THEOREM KeepsThePromise == Spec => LifeSpec
<1>1. Init => Life!LifeInit
  BY DEF Init, LifeOf, Life!LifeInit, Life!Unborn
<1>2. Typed /\ Typed' /\ LifeInv /\ LifeInv' /\ [Next]_vars => [Life!LifeNext]_Shown
  BY NextCases, TaskStep, EnvironmentStep
<1>3. QED  BY <1>1, <1>2, TypedInvariant, LifeInvariant, PTL DEF Spec, LifeSpec, Life!LifeSpec, Shown

-----------------------------------------------------------------------------
(* Nobody is stuck: a task that waits is about to be cancelled, has been       *)
(* signalled, or will be by an instance that runs on a connected node.  It is *)
(* the safety part of SequenceEnds, whose liveness is left to TLC.            *)

NobodyStuck ==
  \A s \in Sequence \ Early :
    /\ pc[s] = "wait" =>
         \/ s \in cancelling
         \/ event[Current(s)] = "set"
         \/ up /\ inst[Current(s)] = "running" /\ event[Current(s)] = "unset"
    /\ pc[s] = "pause" => s \in cancelling \/ s \in active \cap Manual

Reasoned(s) ==
  /\ pc[s] = "audit" => s \in cancelling \/ (up /\ inst[Current(s)] = "running")
  /\ pc[s] = "wait" => \/ s \in cancelling
                       \/ event[Current(s)] = "set"
                       \/ up /\ inst[Current(s)] = "running" /\ event[Current(s)] = "unset"
  /\ pc[s] = "pause" => s \in Manual

ReasonInv == \A s \in Sequence \ Early : Reasoned(s)

LEMMA TaskReasoned ==
  ASSUME Typed, ReasonInv, NEW s \in Sequence, Task(s)
  PROVE  ReasonInv'
<1>0. TypeOK
  BY DEF Typed
<1>1. ASSUME NEW t \in Sequence \ Early, t # s
      PROVE  Reasoned(t)'
  <2>1. Current(t)' = Current(t) /\ pc'[t] = pc[t] /\ (t \in cancelling' <=> t \in cancelling)
    BY <1>0, <1>1, TaskIsLocal DEF Current
  <2>2. Current(t) \in Inst /\ Current(t) # Current(s)
    BY <1>0, <1>1, CurrentInst
  <2>3. inst'[Current(t)] = inst[Current(t)] /\ event'[Current(t)] = event[Current(t)] /\ up' = up
    BY <1>0, <2>2 DEF Task, Begin, CheckConnected, Send, RegisterInstance, Cleared, StepCompleted,
       Resume, Cancelled, CleanupInstance, TypeOK
  <2>4. Reasoned(t)
    BY DEF ReasonInv
  <2>5. QED  BY <2>1, <2>3, <2>4 DEF Reasoned
<1>2. ASSUME s \notin Early
      PROVE  Reasoned(s)'
  <2>0. Reasoned(s) /\ Current(s) \in Inst
    BY <1>0, <1>2, CurrentInst DEF ReasonInv
  <2>1. CASE Send(s)
    <3>1. pc'[s] \in {"audit", "ended"} /\ Current(s)' = Current(s)
      BY <1>0, <2>1 DEF Send, End, Goto, Current, TypeOK
    <3>2. pc'[s] = "audit" => up' /\ inst'[Current(s)] = "running"
      BY <1>0, <2>0, <2>1 DEF Send, End, Goto, TypeOK
    <3>3. QED  BY <3>1, <3>2 DEF Reasoned
  <2>2. CASE RegisterInstance(s)
    <3>1. pc'[s] = "wait" /\ Current(s)' = Current(s) /\ UNCHANGED <<up, inst>>
          /\ event'[Current(s)] = "unset" /\ pc[s] = "audit" /\ s \notin cancelling
      BY <1>0, <2>0, <2>2 DEF RegisterInstance, At, Goto, Current, TypeOK
    <3>2. QED  BY <2>0, <3>1 DEF Reasoned
  <2>3. CASE StepCompleted(s)
    <3>1. pc'[s] \in {"ended", "check"} \/ (pc'[s] = "pause" /\ s \in Manual)
      BY <1>0, <2>3 DEF StepCompleted, End, Goto, TypeOK
    <3>2. QED  BY <3>1 DEF Reasoned
  <2>4. CASE Begin(s) \/ CheckConnected(s) \/ Cleared(s) \/ Resume(s) \/ Cancelled(s)
    <3>1. pc'[s] \in {"ended", "check", "send"}
      BY <1>0, <2>4 DEF Begin, CheckConnected, Cleared, Resume, Cancelled, End, Goto, TypeOK
    <3>2. QED  BY <3>1 DEF Reasoned
  <2>5. QED  BY <2>1, <2>2, <2>3, <2>4 DEF Task
<1>3. QED  BY <1>1, <1>2 DEF ReasonInv

LEMMA EnvironmentReasoned ==
  ASSUME Typed, LifeInv, ReasonInv, Environment
  PROVE  ReasonInv'
<1>0. TypeOK
  BY DEF Typed
<1>1. ASSUME NEW s \in Sequence, StartSequence(s) \/ CancelSequence(s) \/ AdvanceSequence(s)
      PROVE  ReasonInv'
  <2>1. UNCHANGED <<up, pos, event, inst>> /\ cancelling \subseteq cancelling'
    BY <1>1 DEF StartSequence, CancelSequence, AdvanceSequence
  <2>2. \A t \in Sequence : pc'[t] = pc[t] \/ pc'[t] = "new"
    BY <1>0, <1>1 DEF StartSequence, CancelSequence, AdvanceSequence, Goto, TypeOK
  <2>3. QED  BY <2>1, <2>2 DEF ReasonInv, Reasoned, Current
<1>2. ASSUME NEW x \in Inst, Terminal(x)
      PROVE  ReasonInv'
  <2>1. UNCHANGED <<up, pc, pos, cancelling>> /\ up
    BY <1>2 DEF Terminal
  <2>2. ASSUME NEW s \in Sequence \ Early
        PROVE  Reasoned(s)'
    <3>0. Reasoned(s) /\ Current(s)' = Current(s) /\ Current(s) \in Inst /\ Current(s)[1] = s
      BY <1>0, <2>1, CurrentInst DEF ReasonInv, Current
    <3>1. CASE x = Current(s)
      <4>1. pc[s] # "audit"
        BY <1>2, <3>0, <3>1 DEF Terminal
      <4>2. event[x] # "none" => event'[x] = "set"
        BY <1>0, <1>2 DEF Terminal, SignalCompletion, TypeOK
      <4>3. QED  BY <2>1, <3>0, <3>1, <4>1, <4>2 DEF Reasoned
    <3>2. CASE x # Current(s)
      <4>1. inst'[Current(s)] = inst[Current(s)] /\ event'[Current(s)] = event[Current(s)]
        BY <1>0, <1>2, <3>0, <3>2 DEF Terminal, SignalCompletion, TypeOK
      <4>2. QED  BY <2>1, <3>0, <4>1 DEF Reasoned
    <3>3. QED  BY <3>1, <3>2
  <2>3. QED  BY <2>2 DEF ReasonInv
<1>3. CASE NodeDown
  <2>1. UNCHANGED pc /\ cancelling' = cancelling \cup {s \in active : pc[s] \in Busy}
    BY <1>3 DEF NodeDown, CancelAllForNode
  <2>2. \A s \in Sequence : pc[s] \in Busy => s \in cancelling'
    BY <2>1 DEF LifeInv, Lives
  <2>3. QED  BY <2>1, <2>2 DEF ReasonInv, Reasoned, Busy
<1>4. CASE NodeUp \/ UNCHANGED vars
  <2>1. UNCHANGED <<pc, pos, cancelling, event, inst>> /\ (up => up')
    BY <1>4 DEF NodeUp, vars
  <2>2. QED  BY <2>1 DEF ReasonInv, Reasoned, Current
<1>5. QED  BY <1>1, <1>2, <1>3, <1>4 DEF Environment

\* A task that waits for a completion event is about to be cancelled, has been signalled,
\* or waits for an instance that runs on the connected node, whose terminal event will
\* signal it; a paused one has its entry in the registry, where an Advance finds it
\* (run_sequence, signal_completion, cancel_all_for_node).  The exception are the
\* instances whose terminal event comes before the registration.
THEOREM EveryWaitHasReason == Spec => []NobodyStuck
<1>1. Init => ReasonInv
  BY DEF Init, ReasonInv, Reasoned
<1>2. Typed /\ LifeInv /\ ReasonInv /\ [Next]_vars => ReasonInv'
  BY NextCases, TaskReasoned, EnvironmentReasoned
<1>3. LifeInv /\ ReasonInv => NobodyStuck
  BY DEF LifeInv, Lives, Busy, ReasonInv, Reasoned, NobodyStuck
<1>4. QED  BY <1>1, <1>2, <1>3, TypedInvariant, LifeInvariant, PTL DEF Spec
=============================================================================
