----------------------------- MODULE SequenceLife -----------------------------
(***************************************************************************)
(* What auto mode promises about a sequence, without tasks, events and      *)
(* instances: it is started, enters its steps one by one, pauses between    *)
(* them unless it advances by itself, and is done after the last step or    *)
(* fails on the way.  Sequencer implements it (the property LifeSpec        *)
(* there), and SequencePage shows it to a user.                             *)
(***************************************************************************)
EXTENDS Naturals

CONSTANTS
  Sequence,   \* sequence ids
  MaxSteps    \* bound: the longest sequence

VARIABLE life

Unborn == [state |-> "none", step |-> 0, total |-> 0, auto |-> TRUE]
Ongoing == {"new", "running", "paused"}

LifeInit == life = [s \in Sequence |-> Unborn]

\* start_sequence: the coroutine is created, it has not run yet.
Start(s, n, auto) ==
  /\ life[s] = Unborn
  /\ life' = [life EXCEPT ![s] = [state |-> "new", step |-> 1, total |-> n, auto |-> auto]]

\* The first step is entered.
Enter(s) ==
  /\ life[s].state = "new"
  /\ life' = [life EXCEPT ![s].state = "running"]

\* A step other than the last is complete: go on, or wait for the user.
Complete(s) ==
  /\ life[s].state = "running"
  /\ life[s].step < life[s].total
  /\ IF life[s].auto THEN life' = [life EXCEPT ![s].step = @ + 1]
                     ELSE life' = [life EXCEPT ![s].state = "paused"]

\* The user let a paused sequence go on.
Advance(s) ==
  /\ life[s].state = "paused"
  /\ life' = [life EXCEPT ![s].state = "running", ![s].step = @ + 1]

Finish(s) ==
  /\ life[s].state = "running"
  /\ life[s].step = life[s].total
  /\ life' = [life EXCEPT ![s].state = "done"]

\* A dispatch fails or the user cancels.
Fail(s) ==
  /\ life[s].state \in {"running", "paused"}
  /\ life' = [life EXCEPT ![s].state = "error"]

\* The node is lost: every ongoing sequence fails.
FailAll ==
  life' = [s \in Sequence |->
             IF life[s].state \in Ongoing THEN [life[s] EXCEPT !.state = "error"] ELSE life[s]]

LifeNext ==
  \/ \E s \in Sequence :
       \/ \E n \in 1..MaxSteps, auto \in BOOLEAN : Start(s, n, auto)
       \/ Enter(s) \/ Complete(s) \/ Advance(s) \/ Finish(s) \/ Fail(s)
  \/ FailAll

LifeSpec == LifeInit /\ [][LifeNext]_life
=============================================================================
