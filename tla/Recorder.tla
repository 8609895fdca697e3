---- MODULE Recorder ----
(***************************************************************************)
(* The capture side of RecordViewModel: permissions, the audio recorder,   *)
(* the repeating one-second timer behind the clock on screen, the prompt   *)
(* that offers to save or delete the take, and the delegate call in which  *)
(* the recorder reports how it finished.                                   *)
(*                                                                         *)
(* Everything runs on the main thread; what interleaves are taps, timer    *)
(* fires, permission answers and delegate calls.                           *)
(***************************************************************************)
EXTENDS Naturals

CONSTANTS
    Radix,       \* seconds in a minute and minutes in an hour (60 in the code)
    Names,       \* names a user may type
    NoName,      \* the empty name
    MaxTakes,    \* recordings started, at most
    MaxClock,    \* timers fire while the clock shows less than this
    MaxFailures, \* recorders that fail in one launch, at most
    MaxLate      \* stopped recorders that still owe their delegate call, at most

ASSUME RadixAssumption == Radix \in Nat \ {0}
ASSUME NoNameAssumption == NoName \notin Names
ASSUME RecorderBoundsAssumption ==
    MaxTakes \in Nat /\ MaxClock \in Nat /\ MaxFailures \in Nat /\ MaxLate \in Nat

VARIABLES
    canRecord,      \* @AppStorage flags; survive a relaunch
    canTranscribe,
    asked,          \* permissions whose answer is still to come
    audioRecorder,  \* whether the implicitly unwrapped recorder is "set" or "nil"
    late,           \* stopped recorders whose delegate call is still to come
    isRecording,
    promptAction,
    recordName,
    hours, minutes, seconds,
    time,           \* what the last stopped recording took, as the view model has it
    timer,          \* whether the handle of the last scheduled timer is kept
    timers,         \* repeating timers on the run loop, kept or not
    take,           \* recordings started so far: the number of the current one
    audio,          \* the take whose sound is in recording.m4a; the file survives
    elapsed,        \* history: fires of the current take's own timer
    failures,       \* history: recordings ended by a failure in this launch
    crashed         \* why the process died, "none" while it runs

permissions == <<canRecord, canTranscribe, asked>>
clock == <<hours, minutes, seconds>>
tape == <<take, audio>>
ticking == <<clock, timer, timers, elapsed>>
recorderVars == <<permissions, audioRecorder, late, isRecording, promptAction, recordName,
                  time, ticking, tape, failures, crashed>>

Permissions == {"record", "transcribe"}

Init ==
    /\ canRecord \in BOOLEAN
    /\ canTranscribe \in BOOLEAN
    /\ asked = {}
    /\ audioRecorder = "nil"
    /\ late = 0
    /\ isRecording = FALSE
    /\ promptAction = FALSE
    /\ recordName = NoName
    /\ hours = 0
    /\ minutes = 0
    /\ seconds = 0
    /\ time = 0
    /\ timer = FALSE
    /\ timers = 0
    /\ take = 0
    /\ audio = 0
    /\ elapsed = 0
    /\ failures = 0
    /\ crashed = "none"

\* A new process: only the permissions and the file on disk are kept.
Relaunch ==
    /\ asked' = {}
    /\ audioRecorder' = "nil"
    /\ late' = 0
    /\ isRecording' = FALSE
    /\ promptAction' = FALSE
    /\ recordName' = NoName
    /\ hours' = 0
    /\ minutes' = 0
    /\ seconds' = 0
    /\ time' = 0
    /\ timer' = FALSE
    /\ timers' = 0
    /\ elapsed' = 0
    /\ failures' = 0
    /\ crashed' = "none"
    /\ UNCHANGED <<canRecord, canTranscribe, take, audio>>

Running == crashed = "none"

(***************************************************************************)
(* Recording.                                                              *)
(***************************************************************************)

\* The Record button asks for what is missing; setting up the audio session for
\* the microphone can fail, and then nothing is asked.
AskPermissions ==
    /\ ~(canRecord /\ canTranscribe)
    /\ \E missing \in SUBSET Permissions :
        /\ "transcribe" \in missing <=> ~canTranscribe
        /\ "record" \in missing => ~canRecord
        /\ asked' = asked \cup missing
    /\ UNCHANGED <<canRecord, canTranscribe, audioRecorder, late, isRecording, promptAction,
                   recordName, time, ticking, tape, failures, crashed>>

\* The recorder opens recording.m4a; record() may still refuse, which the code
\* does not notice: the file keeps an older take.  The timer is scheduled on top of any that still runs.
RecorderOpens ==
    /\ take < MaxTakes
    /\ take' = take + 1
    /\ audioRecorder' = "set"
    /\ audio' \in {take', audio}
    /\ isRecording' = TRUE
    /\ recordName' = NoName
    /\ timer' = TRUE
    /\ timers' = timers + 1
    /\ elapsed' = 0
    /\ UNCHANGED <<permissions, late, promptAction, clock, time, failures, crashed>>

\* The recorder cannot be made: the handler finishes a recording there is not.
RecorderRefusesToOpen ==
    /\ audioRecorder = "nil"
    /\ crashed' = "start failed"
    /\ UNCHANGED <<permissions, audioRecorder, late, isRecording, promptAction, recordName,
                   time, ticking, tape, failures>>

OnStartRecordingTap ==
    /\ Running
    /\ ~promptAction
    /\ ~isRecording
    /\ \/ AskPermissions
       \/ /\ canRecord
          /\ canTranscribe
          /\ audioRecorder = "nil"
          /\ RecorderOpens \/ RecorderRefusesToOpen

\* Mutant: after a failure the Stop button stays.
FinishRecordingHalfway(success, why) ==
    IF audioRecorder = "nil"
    THEN /\ crashed' = why
         /\ UNCHANGED <<audioRecorder, isRecording, promptAction>>
    ELSE /\ audioRecorder' = "nil"
         /\ isRecording' = ~success
         /\ promptAction' = success
         /\ UNCHANGED crashed

\* finishRecording unwraps the recorder by force.
FinishRecording(success, why) ==
    IF audioRecorder = "nil"
    THEN /\ crashed' = why
         /\ UNCHANGED <<audioRecorder, isRecording, promptAction>>
    ELSE /\ audioRecorder' = "nil"
         /\ isRecording' = FALSE
         /\ promptAction' = success
         /\ UNCHANGED crashed

\* Mutant: the handle is forgotten but the timer runs on.
StopTimerByName ==
    /\ timer' = FALSE
    /\ UNCHANGED timers

StopTimer ==
    /\ timer' = FALSE
    /\ timers' = IF timer THEN timers - 1 ELSE timers

\* Mutant: the time is read when the clock is back at zero.
TimeOnTheClockLate == 0

\* The hours are left out.
TimeOnTheClock == seconds + Radix * minutes

\* Mutant: the minutes are not set back.
ResetSeconds ==
    /\ seconds' = 0
    /\ hours' = 0
    /\ UNCHANGED minutes

ResetClock ==
    /\ seconds' = 0
    /\ minutes' = 0
    /\ hours' = 0

\* The kept timer is invalidated, the time is read off the clock without its
\* hours, and the clock is set back.  The stopped recorder may report later.
OnStopRecordingTap ==
    /\ Running
    /\ ~promptAction
    /\ isRecording
    /\ StopTimer
    /\ FinishRecording(TRUE, "stop without recorder")
    /\ time' = TimeOnTheClock
    /\ ResetClock
    /\ \/ UNCHANGED late
       \/ late < MaxLate /\ late' = late + 1
    /\ UNCHANGED <<permissions, recordName, tape, elapsed, failures>>

\* audioRecorderDidFinishRecording with a failure: neither the timer nor the
\* clock is touched, and nothing says which recorder it was that failed.
FailureReported ==
    /\ failures < MaxFailures
    /\ failures' = failures + 1
    /\ FinishRecording(FALSE, "late failure")
    /\ UNCHANGED <<permissions, recordName, time, ticking, tape>>

\* The recorder of the running take fails, or one that was stopped reports.
RecorderDidFinish ==
    /\ Running
    /\ \/ /\ audioRecorder = "set"
          /\ FailureReported
          /\ UNCHANGED late
       \/ /\ late > 0
          /\ late' = late - 1
          /\ \/ FailureReported
             \/ UNCHANGED <<permissions, audioRecorder, isRecording, promptAction, recordName,
                            time, ticking, tape, failures, crashed>>

(***************************************************************************)
(* The timer, the permission answers and the prompt.                       *)
(***************************************************************************)

Shown == Radix * Radix * hours + Radix * minutes + seconds

\* Mutant: a minute has one second too many.
MinuteIsFullLate == seconds = Radix

MinuteIsFull == seconds = Radix - 1

\* Any of the repeating timers fires; only the last one belongs to the take.
TimerFires ==
    /\ Running
    /\ timers > 0
    /\ Shown < MaxClock
    /\ seconds' = IF MinuteIsFull THEN 0 ELSE seconds + 1
    /\ minutes' = IF ~MinuteIsFull THEN minutes
                  ELSE IF minutes = Radix - 1 THEN 0 ELSE minutes + 1
    /\ hours' = IF MinuteIsFull /\ minutes = Radix - 1 THEN hours + 1 ELSE hours
    /\ \/ isRecording /\ elapsed' = elapsed + 1
       \/ (isRecording => timers > 1) /\ UNCHANGED elapsed
    /\ UNCHANGED <<permissions, audioRecorder, late, isRecording, promptAction, recordName,
                   time, timer, timers, tape, failures, crashed>>

\* An answer arrives; the user may have changed it in the meantime.
PermissionAnswered ==
    /\ Running
    /\ \/ /\ "record" \in asked
          /\ asked' = asked \ {"record"}
          /\ canRecord' \in BOOLEAN
          /\ UNCHANGED canTranscribe
       \/ /\ "transcribe" \in asked
          /\ asked' = asked \ {"transcribe"}
          /\ canTranscribe' \in BOOLEAN
          /\ UNCHANGED canRecord
    /\ UNCHANGED <<audioRecorder, late, isRecording, promptAction, recordName, time, ticking,
                   tape, failures, crashed>>

EnterName ==
    /\ Running
    /\ promptAction
    /\ recordName' \in Names
    /\ UNCHANGED <<permissions, audioRecorder, late, isRecording, promptAction, time, ticking,
                   tape, failures, crashed>>

\* Save and Delete both close the prompt; Delete does nothing else, and leaves
\* the file.  What Save starts is in module Convey.
ClosePrompt ==
    /\ Running
    /\ promptAction
    /\ promptAction' = FALSE
    /\ UNCHANGED <<permissions, audioRecorder, late, isRecording, recordName, time, ticking,
                   tape, failures, crashed>>

Next == OnStartRecordingTap \/ OnStopRecordingTap \/ RecorderDidFinish \/ TimerFires
        \/ PermissionAnswered \/ EnterName \/ ClosePrompt \/ Relaunch

Spec == Init /\ [][Next]_recorderVars

----
\* Type invariant of the recorder.
TypeOK ==
    /\ canRecord \in BOOLEAN
    /\ canTranscribe \in BOOLEAN
    /\ asked \in SUBSET Permissions
    /\ audioRecorder \in {"nil", "set"}
    /\ late \in 0..MaxLate
    /\ isRecording \in BOOLEAN
    /\ promptAction \in BOOLEAN
    /\ recordName \in Names \cup {NoName}
    /\ hours \in Nat
    /\ minutes \in 0..(Radix - 1)
    /\ seconds \in 0..(Radix - 1)
    /\ time \in Nat
    /\ timer \in BOOLEAN
    /\ timers \in Nat
    /\ take \in Nat
    /\ audio \in Nat
    /\ elapsed \in Nat
    /\ failures \in Nat
    /\ crashed \in {"none", "start failed", "stop without recorder", "late failure"}

\* The Stop button is on the screen exactly while there is a recorder to stop,
\* and never together with the prompt: stopping unwraps no nil, although the
\* recorder may go away on its own at any moment.
StopFindsRecorder ==
    /\ isRecording <=> audioRecorder = "set"
    /\ promptAction => ~isRecording
    /\ crashed # "stop without recorder"

\* A recording that ends in a failure leaves at most its own timer behind;
\* stopping a recording, and nothing else, removes the timer of that recording.
OneTimerLostPerFailure ==
    LET own == IF isRecording THEN 1 ELSE 0 IN
    Running => own <= timers /\ timers <= own + failures

\* While no recorder has failed, the clock on the screen shows the seconds of
\* this take, starts every take from zero, and does not run between takes.
ClockShowsTheTake ==
    failures = 0 => Shown = IF isRecording THEN elapsed ELSE 0

\* While no recorder has failed, the time of a take that is offered for saving
\* is how long it took, for takes shorter than an hour.
TimeOfThePromptedTake ==
    promptAction /\ failures = 0 /\ elapsed < Radix * Radix => time = elapsed

\* The comment in finishRecording speaks of letting the user know that the
\* recording did not go through and offering to record again: a failure to
\* start must leave the app running.
FailedStartIsSurvived == crashed # "start failed"
====
