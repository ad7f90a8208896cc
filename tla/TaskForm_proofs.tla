---------------------------- MODULE TaskForm_proofs ----------------------------
(***************************************************************************)
(* Proofs about TaskForm, for any number of takes, any time limit and any   *)
(* sessions: type correctness, that a microphone is only on behind a button *)
(* that shows it, and that the take behind that button can be stopped.      *)
(***************************************************************************)
EXTENDS TaskForm, TLAPS

USE DEF vars, voiceVars, formVars, None

-----------------------------------------------------------------------------
(* Type correctness.                                                          *)

LEMMA TypeInit == Init => TypeOK
<1>1. Blank \in Text
  BY DEF Blank, Text
<1>2. 0 \in 0..Limit /\ 0 \in 0..MaxPosts
  BY TaskFormAssumption
<1>3. QED  BY <1>1, <1>2 DEF Init, TypeOK, Phases

LEMMA StoppingType ==
  ASSUME TypeOK, NEW takes
  PROVE  Stopping(takes) \in [Take -> Phases]
BY DEF TypeOK, Stopping, Phases

LEMMA StopType ==
  ASSUME TypeOK, NEW takes, Stop(takes)
  PROVE  /\ take' \in [Take -> Phases]
         /\ timers' \subseteq Take
         /\ recorderRef' \in Take \cup {None}
         /\ timerRef' \in timers' \cup {None}
BY StoppingType DEF TypeOK, Stop, StopTimer

LEMMA VoiceType ==
  ASSUME TypeOK,
         ClickVoice \/ Tick \/ Leave \/ \E n \in Take : \/ Granted(n) \/ Denied(n) \/ RecorderRefused(n) \/ RecorderStops(n)
                     \/ Transcribed(n) \/ TranscriptionFails(n)
  PROVE  TypeOK'
<1>1. CASE ClickVoice
  <2>1. CASE state = "idle" /\ Start
    BY <1>1, <2>1 DEF ClickVoice, Start, Asking, TypeOK, Phases
  <2>2. CASE state = "recording" /\ Stop({}) /\ UNCHANGED <<state, elapsed, mic, streamRef, slipped>>
    BY <1>1, <2>2, StopType DEF ClickVoice, TypeOK
  <2>3. QED  BY <1>1, <2>1, <2>2 DEF ClickVoice
<1>2. CASE Tick
  <2>1. elapsed' \in 0..Limit
    BY <1>2, TaskFormAssumption DEF Tick, TypeOK
  <2>2. CASE Stop({})
    BY <1>2, <2>1, <2>2, StopType DEF Tick, TypeOK
  <2>3. CASE UNCHANGED <<take, timers, recorderRef, timerRef>>
    BY <1>2, <2>1, <2>3 DEF Tick, TypeOK
  <2>4. QED  BY <1>2, <2>2, <2>3 DEF Tick
<1>3. CASE Leave
  BY <1>3, StopType DEF Leave, TracksStopped, TypeOK
<1>4. ASSUME NEW n \in Take, Granted(n)
      PROVE  TypeOK'
  BY <1>4, TaskFormAssumption DEF Granted, Set, TypeOK, Phases
<1>5. ASSUME NEW n \in Take, Denied(n) \/ RecorderRefused(n)
      PROVE  TypeOK'
  <2>1. take' \in [Take -> Phases]
    BY <1>5 DEF Denied, RecorderRefused, TypeOK, Phases
  <2>2. mic' \subseteq Take /\ streamRef' \in Take \cup {None}
    BY <1>5 DEF Denied, RecorderRefused, TypeOK
  <2>3. QED  BY <1>5, <2>1, <2>2 DEF Denied, RecorderRefused, TypeOK
<1>6. ASSUME NEW n \in Take, RecorderStops(n)
      PROVE  TypeOK'
  <2>1. Stopping({streamRef}) \in [Take -> Phases]
    BY StoppingType
  <2>2. [Stopping({streamRef}) EXCEPT ![n] = "uploading"] \in [Take -> Phases]
    BY <2>1 DEF Phases
  <2>3. QED  BY <1>6, <2>2 DEF RecorderStops, TracksStopped, Set, TypeOK
<1>7. ASSUME NEW n \in Take, Transcribed(n) \/ TranscriptionFails(n)
      PROVE  TypeOK'
  <2>1. [by |-> "voice", of |-> n] \in Text
    BY DEF Text
  <2>2. prompt' \in Text
    BY <1>7, <2>1 DEF Transcribed, TranscriptionFails, Set, TypeOK
  <2>3. take' \in [Take -> Phases]
    BY <1>7 DEF Transcribed, TranscriptionFails, Uploaded, TypeOK, Phases
  <2>4. elapsed' \in 0..Limit
    BY <1>7, TaskFormAssumption DEF Transcribed, TranscriptionFails, Uploaded, Set, TypeOK
  <2>5. QED  BY <1>7, <2>2, <2>3, <2>4 DEF Transcribed, TranscriptionFails, Uploaded, Set, TypeOK
<1>8. QED  BY <1>1, <1>2, <1>3, <1>4, <1>5, <1>6, <1>7

Fields ==
  \/ Type \/ ChoosePreset \/ EditSession \/ ClickRun \/ PostReturns \/ PostFails \/ Acknowledged
  \/ \E s \in Session : ClickResume(s)

LEMMA FieldsType ==
  ASSUME TypeOK, Fields
  PROVE  TypeOK'
<1>1. Blank \in Text /\ [by |-> "user", of |-> None] \in Text /\ [by |-> "preset", of |-> None] \in Text
  BY DEF Blank, Text
<1>2. CASE ClickRun
  BY <1>2, TaskFormAssumption DEF ClickRun, FormOnly, TypeOK
<1>3. CASE Type \/ ChoosePreset \/ PostReturns
  BY <1>1, <1>3 DEF Type, ChoosePreset, PostReturns, FormOnly, TypeOK
<1>4. CASE EditSession \/ PostFails \/ Acknowledged \/ \E s \in Session : ClickResume(s)
  BY <1>4 DEF EditSession, PostFails, Acknowledged, ClickResume, FormOnly, TypeOK
<1>5. QED  BY <1>2, <1>3, <1>4 DEF Fields

LEMMA TypeNext == TypeOK /\ [Next]_vars => TypeOK'
<1>1. TypeOK /\ UNCHANGED vars => TypeOK'
  BY DEF TypeOK
<1>2. QED  BY <1>1, VoiceType, FieldsType DEF Next, Fields

\* Every variable keeps its type, and the timer the hook remembers is running
\* (useVoiceRecorder.ts).
THEOREM TypeCorrect == Spec => []TypeOK
BY TypeInit, TypeNext, PTL DEF Spec

-----------------------------------------------------------------------------
(* The microphone.  As long as every start() stayed in the hook's hands, at   *)
(* most one take is under way, the refs are its own, and the button shows    *)
(* where it is.                                                               *)

Busy == {"asking", "recording", "stopping", "uploading"}

\* What the hook looks like around take n.
Around(n) ==
  /\ take[n] = "asking" => mounted /\ state = "idle" /\ mic = {} /\ timers = {}
  /\ take[n] = "recording" =>
       /\ mounted /\ state = "recording"
       /\ mic = {n} /\ streamRef = n /\ timers = {n} /\ timerRef = n /\ recorderRef = n
  /\ take[n] = "stopping" =>
       /\ timers = {} /\ streamRef = n /\ mic \subseteq {n}
       /\ IF mounted THEN state = "recording" ELSE mic = {}
  /\ take[n] = "uploading" => mic = {} /\ timers = {} /\ (mounted => state = "processing")

Idle == mic = {} /\ timers = {} /\ (mounted => state = "idle")

MicInv ==
  ~slipped =>
    /\ \A m, n \in Take : take[m] \in Busy /\ take[n] \in Busy => m = n
    /\ \A n \in Take : Around(n)
    /\ (\A n \in Take : take[n] \notin Busy) => Idle

LEMMA MicInit == Init => MicInv
BY DEF Init, MicInv, Around, Idle, Busy

\* The refs lead to the one take that records; without one there is nothing to stop.
LEMMA StopsTake ==
  ASSUME TypeOK, MicInv, ~slipped, NEW takes, Stop(takes),
         \A n \in takes : n \in Take => n = streamRef
  PROVE  /\ timers' = {}
         /\ \A n \in Take : take'[n] = IF take[n] = "recording" THEN "stopping" ELSE take[n]
<1>1. ASSUME NEW n \in Take, take[n] = "recording"
      PROVE  timers = {n} /\ timerRef = n /\ recorderRef = n
  BY <1>1 DEF MicInv, Around
<1>2. ASSUME \A n \in Take : take[n] # "recording"
      PROVE  timers = {}
  <2>1. CASE \E n \in Take : take[n] \in Busy
    BY <1>2, <2>1 DEF MicInv, Around, Busy
  <2>2. CASE \A n \in Take : take[n] \notin Busy
    BY <2>2 DEF MicInv, Idle
  <2>3. QED  BY <2>1, <2>2
<1>3. \A n \in Take : take'[n] = IF take[n] = "recording" THEN "stopping" ELSE take[n]
  BY <1>1 DEF Stop, Stopping
<1>4. timers' = {}
  BY <1>1, <1>2 DEF Stop, StopTimer
<1>5. QED  BY <1>3, <1>4

\* After the recording take was told to stop.
LEMMA StopMic ==
  ASSUME TypeOK, MicInv, ~slipped, ~slipped',
         timers' = {}, UNCHANGED <<mounted, state, mic, streamRef>>,
         \A n \in Take : take'[n] = IF take[n] = "recording" THEN "stopping" ELSE take[n]
  PROVE  MicInv'
<1>1. \A n \in Take : take'[n] \in Busy <=> take[n] \in Busy
  BY DEF Busy
<1>2. ASSUME NEW n \in Take
      PROVE  Around(n)'
  BY DEF MicInv, Around
<1>3. (\A n \in Take : take'[n] \notin Busy) => Idle'
  BY <1>1 DEF MicInv, Idle
<1>4. QED  BY <1>1, <1>2, <1>3 DEF MicInv

LEMMA ClickMic ==
  ASSUME TypeOK, MicInv, ~slipped, ~slipped', ClickVoice
  PROVE  MicInv'
<1>1. CASE state = "recording" /\ Stop({}) /\ UNCHANGED <<state, elapsed, mic, streamRef, slipped>>
  BY <1>1, StopsTake, StopMic DEF ClickVoice
<1>2. CASE state = "idle" /\ Start
  <2>1. PICK n \in Take : take[n] = "unused" /\ take' = [take EXCEPT ![n] = "asking"]
    BY <1>2 DEF Start
  <2>2. \A m \in Take : take[m] \notin Busy
    <3>1. \A m \in Take : take[m] # "asking"
      BY <1>2 DEF Start, Asking
    <3>2. mounted
      BY DEF ClickVoice
    <3>3. QED  BY <1>2, <3>1, <3>2 DEF MicInv, Around, Busy
  <2>3. mic = {} /\ timers = {} /\ mounted
    BY <2>2 DEF MicInv, Idle, ClickVoice
  <2>4. \A m \in Take : take'[m] = IF m = n THEN "asking" ELSE take[m]
    BY <2>1 DEF TypeOK
  <2>5. UNCHANGED <<mounted, state, mic, timers>>
    BY <1>2 DEF Start, ClickVoice
  <2>6. QED  BY <1>2, <2>2, <2>3, <2>4, <2>5 DEF MicInv, Around, Busy
<1>3. QED  BY <1>1, <1>2 DEF ClickVoice

LEMMA LeaveMic ==
  ASSUME TypeOK, MicInv, ~slipped, ~slipped', Leave
  PROVE  MicInv'
<1>1. /\ timers' = {}
      /\ \A n \in Take : take'[n] = IF take[n] = "recording" THEN "stopping" ELSE take[n]
  BY StopsTake DEF Leave
<1>2. \A n \in Take : take[n] # "asking"
  BY DEF Leave, Asking
<1>3. \A n \in Take : take'[n] \in Busy <=> take[n] \in Busy
  BY <1>1 DEF Busy
<1>4. mic' = {} /\ ~mounted' /\ UNCHANGED <<state, streamRef>>
  <2>1. mic' = mic \ {streamRef} /\ ~mounted' /\ UNCHANGED <<state, streamRef>>
    BY DEF Leave, TracksStopped
  <2>2. CASE \E n \in Take : take[n] \in Busy
    BY <1>2, <2>1, <2>2 DEF MicInv, Around, Busy
  <2>3. CASE \A n \in Take : take[n] \notin Busy
    BY <2>1, <2>3 DEF MicInv, Idle
  <2>4. QED  BY <2>1, <2>2, <2>3
<1>5. ASSUME NEW n \in Take
      PROVE  Around(n)'
  BY <1>1, <1>2, <1>4 DEF MicInv, Around
<1>6. QED  BY <1>1, <1>3, <1>4, <1>5 DEF MicInv, Idle

\* The steps of one take.
LEMMA TakeMic ==
  ASSUME TypeOK, MicInv, ~slipped, ~slipped', NEW n \in Take,
         Granted(n) \/ Denied(n) \/ RecorderRefused(n) \/ RecorderStops(n)
           \/ Transcribed(n) \/ TranscriptionFails(n)
  PROVE  MicInv'
<1>1. take[n] \in Busy /\ \A m \in Take \ {n} : take[m] \notin Busy
  BY DEF Granted, Denied, RecorderRefused, RecorderStops, Transcribed, TranscriptionFails,
         Uploaded, MicInv, Busy
<1>2. Around(n)
  BY DEF MicInv
<1>3. CASE Granted(n)
  <2>1. \A m \in Take : take'[m] = IF m = n THEN "recording" ELSE take[m]
    BY <1>3 DEF Granted, TypeOK
  <2>2. mounted' /\ mic' = {n} /\ streamRef' = n /\ timers' = {n} /\ timerRef' = n /\ recorderRef' = n
    BY <1>2, <1>3 DEF Granted, Around
  <2>3. state' = "recording"
    BY <1>2, <1>3 DEF Granted, Around, Set
  <2>4. QED  BY <1>1, <2>1, <2>2, <2>3 DEF MicInv, Around, Busy
<1>4. CASE Denied(n)
  <2>1. \A m \in Take : take'[m] = IF m = n THEN "failed" ELSE take[m]
    BY <1>4 DEF Denied, TypeOK
  <2>2. mounted' /\ mic' = {} /\ timers' = {} /\ state' = "idle"
    BY <1>2, <1>4 DEF Denied, Around
  <2>3. QED  BY <1>1, <2>1, <2>2 DEF MicInv, Around, Idle, Busy
<1>5. CASE RecorderRefused(n)
  BY <1>5 DEF RecorderRefused
<1>6. CASE RecorderStops(n)
  <2>1. take[n] = "stopping" /\ streamRef = n /\ mic \subseteq {n} /\ timers = {}
    BY <1>2, <1>6 DEF RecorderStops, Around
  <2>2. \A m \in Take : take'[m] = IF m = n THEN "uploading" ELSE take[m]
    BY <1>1, <1>6, <2>1 DEF RecorderStops, Stopping, TypeOK, Busy
  <2>3. mic' = {} /\ timers' = {} /\ mounted' = mounted
    BY <1>6, <2>1 DEF RecorderStops, TracksStopped
  <2>4. mounted' => state' = "processing"
    BY <1>6 DEF RecorderStops, Set
  <2>5. QED  BY <1>1, <2>2, <2>3, <2>4 DEF MicInv, Around, Busy
<1>7. CASE Transcribed(n) \/ TranscriptionFails(n)
  <2>1. PICK end \in {"done", "failed"} : Uploaded(n, end)
    BY <1>7 DEF Transcribed, TranscriptionFails
  <2>2. \A m \in Take : take'[m] = IF m = n THEN end ELSE take[m]
    BY <2>1 DEF Uploaded, TypeOK
  <2>3. mic' = {} /\ timers' = {} /\ (mounted' => state' = "idle")
    BY <1>2, <2>1 DEF Uploaded, Around, Set
  <2>4. QED  BY <1>1, <2>2, <2>3 DEF MicInv, Around, Idle, Busy
<1>8. QED  BY <1>3, <1>4, <1>5, <1>6, <1>7

LEMMA MicNext == TypeOK /\ MicInv /\ [Next]_vars => MicInv'
<1> SUFFICES ASSUME TypeOK, MicInv, [Next]_vars
             PROVE  MicInv'
  OBVIOUS
<1>1. slipped => slipped'
  BY DEF Next, ClickVoice, Start, Tick, Leave, Granted, Denied, RecorderRefused, RecorderStops,
         Transcribed, TranscriptionFails, Uploaded, Type, ChoosePreset, EditSession, ClickRun,
         PostReturns, PostFails, Acknowledged, ClickResume, FormOnly
<1>2. CASE slipped'
  BY <1>2 DEF MicInv
<1>3. CASE ~slipped /\ ~slipped'
  <2>1. CASE UNCHANGED <<mounted, voiceVars, slipped>>
    BY <2>1 DEF MicInv, Around, Idle
  <2>2. CASE Tick
    <3>1. CASE Stop({})
      BY <1>3, <2>2, <3>1, StopsTake, StopMic DEF Tick
    <3>2. CASE UNCHANGED <<take, timers, recorderRef, timerRef>>
      BY <1>3, <2>2, <3>2 DEF Tick, MicInv, Around, Idle
    <3>3. QED  BY <2>2, <3>1, <3>2 DEF Tick
  <2>3. QED
    BY <1>3, <2>1, <2>2, ClickMic, LeaveMic, TakeMic
    DEF Next, Type, ChoosePreset, EditSession, ClickRun, PostReturns, PostFails, Acknowledged,
        ClickResume, FormOnly
<1>4. QED  BY <1>1, <1>2, <1>3

\* The microphone is on, and the interval runs, only while the button of a mounted
\* form shows a recording, unless a start() went out of the hook's hands
\* (useVoiceRecorder.ts, start and stop).
THEOREM MicBehindButton == Spec => []MicShown
<1>1. TypeOK /\ MicInv => MicShown
  <2> SUFFICES ASSUME TypeOK, MicInv, ~slipped
               PROVE  (mic # {} => mounted /\ state = "recording") /\ (timers # {} => mounted /\ state = "recording")
    BY DEF MicShown
  <2>1. CASE \A n \in Take : take[n] \notin Busy
    BY <2>1 DEF MicInv, Idle
  <2>2. CASE \E n \in Take : take[n] \in Busy
    BY <2>2 DEF MicInv, Around, Busy
  <2>3. QED  BY <2>1, <2>2
<1>2. QED  BY <1>1, TypeInit, TypeNext, MicInit, MicNext, PTL DEF Spec

\* The recorder and the stream of a take in the hook's hands are those the refs
\* hold, so that the button and the time limit stop it.
TakeReachable ==
  ~slipped => \A n \in Take :
                /\ take[n] = "recording" => mounted /\ state = "recording" /\ recorderRef = n
                                               /\ streamRef = n /\ timerRef = n /\ timers = {n}
                /\ take[n] = "stopping" => streamRef = n /\ timers = {}

\* Unless start() has slipped: whenever a take records, stop() called by the button or
\* by the limit stops that take and its interval and no other's, and while its stop
\* event is due onstop will end its tracks: what "a take ends in the prompt" needs of
\* safety (useVoiceRecorder.ts, start, stop and onstop).
THEOREM StopReachesTake == Spec => []TakeReachable
<1>1. MicInv => TakeReachable
  BY DEF MicInv, Around, TakeReachable
<1>2. QED  BY <1>1, TypeInit, TypeNext, MicInit, MicNext, PTL DEF Spec
=============================================================================
