--------------------------------- MODULE TaskForm --------------------------------
(***************************************************************************)
(* The task form of the node page as the user fills it: the prompt, its     *)
(* presets, the session to resume, the Run Task button                      *)
(* (components/execute/ExecuteForm.tsx), and dictation into the prompt      *)
(* (components/execute/VoiceButton.tsx, hooks/useVoiceRecorder.ts).  A take *)
(* is one call of start(); the hook keeps the latest one in its refs.       *)
(* Continuations of a settled promise run in the step that settles it, and  *)
(* the state updates of one step are rendered together.                     *)
(***************************************************************************)
EXTENDS Naturals

CONSTANTS
  MaxTakes,   \* takes the user starts
  Limit,      \* MAX_DURATION_S, in ticks of the timer
  MaxPosts,   \* dispatches of the form
  Session,    \* the sessions the user may resume
  Faults      \* may a MediaRecorder be refused, and an HTTP request fail?

ASSUME TaskFormAssumption ==
  /\ MaxTakes \in Nat /\ MaxPosts \in Nat /\ Limit \in Nat \ {0}
  /\ 0 \notin Session
  /\ Faults \in BOOLEAN

VARIABLES
  mounted,     \* is the form on the page?
  \* useVoiceRecorder
  state,       \* what the button shows
  elapsed,     \* seconds shown, in ticks; Limit stands for every value beyond
  take,        \* where every take is
  mic,         \* the takes whose microphone tracks are live
  timers,      \* the takes whose interval is running
  recorderRef, streamRef, timerRef,
  \* ExecuteForm
  prompt,      \* where the text of the prompt field comes from
  session,     \* the session field
  resume,      \* resumeSessionId of the page
  dispatch,    \* executeMutation, and the ACK of the instance it made
  posts,       \* dispatches so far
  slipped      \* history: a start() went out of the hook's hands, see MicShown

voiceVars == <<state, elapsed, take, mic, timers, recorderRef, streamRef, timerRef>>
formVars == <<prompt, session, resume, dispatch, posts>>
vars == <<mounted, voiceVars, formVars, slipped>>

Take == 1..MaxTakes
None == 0

\* stopping: stop() was called or the tracks ended, and the stop event is due.
Phases == {"unused", "asking", "recording", "stopping", "uploading", "done", "failed"}

\* A prompt: empty, what the user typed, a preset, or the transcript of a take.
Text == [by : {"nobody", "user", "preset"}, of : {None}] \cup [by : {"voice"}, of : Take]
Blank == [by |-> "nobody", of |-> None]

TypeOK ==
  /\ mounted \in BOOLEAN /\ slipped \in BOOLEAN
  /\ state \in {"idle", "recording", "processing"}
  /\ elapsed \in 0..Limit
  /\ take \in [Take -> Phases]
  /\ mic \subseteq Take /\ timers \subseteq Take
  /\ {recorderRef, streamRef} \subseteq Take \cup {None}
  /\ timerRef \in timers \cup {None}
  /\ prompt \in Text
  /\ session \in Session \cup {None} /\ resume \in Session \cup {None}
  /\ dispatch \in {"none", "sent", "unacknowledged"}
  /\ posts \in 0..MaxPosts

Init ==
  /\ mounted = TRUE /\ slipped = FALSE
  /\ state = "idle" /\ elapsed = 0
  /\ take = [n \in Take |-> "unused"]
  /\ mic = {} /\ timers = {}
  /\ recorderRef = None /\ streamRef = None /\ timerRef = None
  /\ prompt = Blank /\ session = None /\ resume = None
  /\ dispatch = "none" /\ posts = 0

-----------------------------------------------------------------------------
(* The hook.                                                                  *)

\* setState of a component: ignored once it is unmounted.
Set(value, old) == IF mounted THEN value ELSE old

Asking == {n \in Take : take[n] = "asking"}

StopTimer_RefKept == timers' = timers \ {timerRef} /\ UNCHANGED timerRef   \* mutant
StopTimer == timers' = timers \ {timerRef} /\ timerRef' = None

\* A recorder stops by its stop() or because its tracks ended.
Stopping(takes) == [n \in Take |-> IF n \in takes /\ take[n] = "recording" THEN "stopping" ELSE take[n]]

\* stop(), with the takes whose tracks end in the same step.
Stop(takes) == StopTimer /\ take' = Stopping(takes \cup {recorderRef}) /\ recorderRef' = None

TracksStopped_Never == mic          \* mutant: the tracks are left to the garbage collector
TracksStopped == mic \ {streamRef}

\* start() up to the permission prompt.
Start ==
  /\ \E n \in Take :
       /\ take[n] = "unused" /\ \A m \in 1..(n - 1) : take[m] # "unused"
       /\ take' = [take EXCEPT ![n] = "asking"]
  /\ slipped' = (slipped \/ Asking # {})
  /\ UNCHANGED <<state, elapsed, mic, timers, recorderRef, streamRef, timerRef>>

\* handleClick of the button, which is disabled while a transcript is awaited.
ClickVoice ==
  /\ mounted
  /\ \/ state = "idle" /\ Start
     \/ /\ state = "recording"
        /\ Stop({})
        /\ UNCHANGED <<state, elapsed, mic, streamRef, slipped>>
  /\ UNCHANGED <<mounted, formVars>>

\* getUserMedia resolves: record, whether or not the page is still there.
Granted(n) ==
  /\ take[n] = "asking"
  /\ take' = [take EXCEPT ![n] = "recording"]
  /\ mic' = mic \cup {n} /\ streamRef' = n
  /\ timers' = timers \cup {n} /\ timerRef' = n
  /\ recorderRef' = n
  /\ state' = Set("recording", state) /\ elapsed' = Set(0, elapsed)
  /\ UNCHANGED <<mounted, formVars, slipped>>

Denied(n) ==
  /\ take[n] = "asking"
  /\ take' = [take EXCEPT ![n] = "failed"]
  /\ UNCHANGED <<mounted, state, elapsed, mic, timers, recorderRef, streamRef, timerRef, formVars, slipped>>

\* new MediaRecorder throws (the browser has no audio/webm): the tracks stay live.
RecorderRefused(n) ==
  /\ Faults
  /\ take[n] = "asking"
  /\ take' = [take EXCEPT ![n] = "failed"]
  /\ mic' = mic \cup {n} /\ streamRef' = n
  /\ slipped' = TRUE
  /\ UNCHANGED <<mounted, state, elapsed, timers, recorderRef, timerRef, formVars>>

TimeUp_Over(e) == e > Limit         \* mutant
TimeUp(e) == e >= Limit
\* The interval, and the effect of elapsed.
Tick ==
  LET next == IF elapsed < Limit THEN elapsed + 1 ELSE Limit IN
  /\ mounted /\ timers # {}
  /\ elapsed' = next
  /\ IF TimeUp(next) THEN Stop({}) ELSE UNCHANGED <<take, timers, recorderRef, timerRef>>
  /\ UNCHANGED <<mounted, state, mic, streamRef, formVars, slipped>>

\* onstop: it stops the tracks of the latest stream, whoever's recorder stopped.
RecorderStops(n) ==
  /\ take[n] = "stopping"
  /\ take' = [Stopping({streamRef}) EXCEPT ![n] = "uploading"]
  /\ mic' = TracksStopped /\ streamRef' = None
  /\ state' = Set("processing", state)
  /\ UNCHANGED <<mounted, elapsed, timers, recorderRef, timerRef, formVars, slipped>>

\* sendForTranscription returns: onTranscript or onError, and idle again.
Uploaded(n, end) ==
  /\ take[n] = "uploading"
  /\ take' = [take EXCEPT ![n] = end]
  /\ state' = Set("idle", state) /\ elapsed' = Set(0, elapsed)
  /\ UNCHANGED <<mounted, mic, timers, recorderRef, streamRef, timerRef, session, resume, dispatch, posts, slipped>>
Transcribed(n) == Uploaded(n, "done") /\ prompt' = Set([by |-> "voice", of |-> n], prompt)
TranscriptionFails(n) == Faults /\ Uploaded(n, "failed") /\ UNCHANGED prompt

\* The user leaves the page: the cleanup effect stops the recorder and the tracks.
Leave ==
  /\ mounted
  /\ mounted' = FALSE
  /\ Stop({streamRef})
  /\ mic' = TracksStopped
  /\ slipped' = (slipped \/ Asking # {})
  /\ UNCHANGED <<state, elapsed, streamRef, formVars>>

-----------------------------------------------------------------------------
(* The form.                                                                  *)

FormOnly == mounted /\ UNCHANGED <<mounted, voiceVars, slipped>>

\* isTranscribing follows the recorder's state, and disables the field.
IsTranscribing == state = "processing"

Type ==
  /\ FormOnly
  /\ ~IsTranscribing
  /\ prompt' \in {Blank, [by |-> "user", of |-> None]}
  /\ UNCHANGED <<session, resume, dispatch, posts>>

\* "Custom prompt" empties the field.
ChoosePreset ==
  /\ FormOnly
  /\ prompt' \in {Blank, [by |-> "preset", of |-> None]}
  /\ UNCHANGED <<session, resume, dispatch, posts>>

EditSession ==
  /\ FormOnly
  /\ session' \in Session \cup {None}
  /\ UNCHANGED <<prompt, resume, dispatch, posts>>

\* Resume in the instance list: the form's effect runs when the page's value changes.
ClickResume(s) ==
  /\ FormOnly
  /\ resume' = s
  /\ session' = IF s # resume THEN s ELSE session
  /\ UNCHANGED <<prompt, dispatch, posts>>

\* Run Task: enabled while a take is recorded or transcribed, too.
ClickRun ==
  /\ FormOnly
  /\ prompt # Blank /\ dispatch = "none" /\ posts < MaxPosts
  /\ dispatch' = "sent" /\ posts' = posts + 1
  /\ UNCHANGED <<prompt, session, resume>>

\* onSuccess empties both fields, whatever they hold by now.
PostReturns ==
  /\ FormOnly
  /\ dispatch = "sent"
  /\ dispatch' = "unacknowledged" /\ prompt' = Blank /\ session' = None
  /\ UNCHANGED <<resume, posts>>

PostFails ==
  /\ FormOnly
  /\ Faults /\ dispatch = "sent"
  /\ dispatch' = "none"
  /\ UNCHANGED <<prompt, session, resume, posts>>

\* The store learns a status of the dispatched instance.
Acknowledged ==
  /\ FormOnly
  /\ dispatch = "unacknowledged"
  /\ dispatch' = "none"
  /\ UNCHANGED <<prompt, session, resume, posts>>

Next ==
  \/ ClickVoice \/ Tick \/ Leave
  \/ \E n \in Take : \/ Granted(n) \/ Denied(n) \/ RecorderRefused(n) \/ RecorderStops(n)
                     \/ Transcribed(n) \/ TranscriptionFails(n)
  \/ Type \/ ChoosePreset \/ EditSession \/ ClickRun \/ PostReturns \/ PostFails \/ Acknowledged
  \/ \E s \in Session : ClickResume(s)

Spec == Init /\ [][Next]_vars

\* Timers fire, a stopped recorder reports it, and an upload is answered or fails.
FairSpec ==
  /\ Spec
  /\ WF_vars(Tick)
  /\ \A n \in Take : WF_vars(RecorderStops(n)) /\ WF_vars(Transcribed(n) \/ TranscriptionFails(n))

-----------------------------------------------------------------------------
(* Properties.                                                                *)

\* A microphone that is on, and a running interval, belong to the recording the
\* button shows: stopping, the time limit and leaving the page release both
\* (useVoiceRecorder.ts).  Not so once a start() went out of the hook's hands: a
\* second click while the browser asks for permission, a page left while it asks, or
\* a MediaRecorder refused leave the microphone on behind an idle button.
MicShown ==
  ~slipped => /\ mic # {} => mounted /\ state = "recording"
              /\ timers # {} => mounted /\ state = "recording"

\* VOICE-04: whether the user or the time limit stops a take, its transcript reaches
\* the prompt field, unless the transcription fails or the page is left first.
TakeLands ==
  \A n \in Take :
    take[n] = "recording" ~> \/ prompt.of = n \/ take[n] = "failed"
                             \/ ~mounted \/ slipped
=============================================================================
