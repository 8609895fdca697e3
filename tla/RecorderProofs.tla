---- MODULE RecorderProofs ----
(***************************************************************************)
(* What is proved about Recorder for every radix of the clock and every    *)
(* bound: the types, that the Stop button has a recorder to stop, that a   *)
(* failure costs one timer at most, and that the clock and the time of an  *)
(* offered take are those of that take while no recorder has failed.       *)
(***************************************************************************)
EXTENDS Recorder, TLAPS

(***************************************************************************)
(* The clock.                                                              *)
(***************************************************************************)

\* A carry into the next digit is worth one unit of it.
LEMMA Carry ==
    ASSUME NEW n \in Nat
    PROVE Radix * (n + 1) = Radix * n + Radix
BY RadixAssumption

\* When a timer fires the clock goes on by one second and stays in its digits.
LEMMA ClockGoesOn ==
    ASSUME TypeOK, TimerFires
    PROVE /\ Shown' = Shown + 1
          /\ hours' \in Nat
          /\ minutes' \in 0..(Radix - 1)
          /\ seconds' \in 0..(Radix - 1)
<1> DEFINE S == Radix * Radix
<1>0. Radix \in Nat \ {0} /\ S \in Nat
  BY RadixAssumption
<1>1. hours \in Nat /\ minutes \in 0..(Radix - 1) /\ seconds \in 0..(Radix - 1)
  BY DEF TypeOK
<1>2. CASE ~MinuteIsFull
  <2>1. hours' = hours /\ minutes' = minutes /\ seconds' = seconds + 1
    BY <1>2 DEF TimerFires
  <2>2. seconds' \in 0..(Radix - 1)
    BY <1>0, <1>1, <1>2, <2>1 DEF MinuteIsFull
  <2>3. S * hours \in Nat /\ Radix * minutes \in Nat
    BY <1>0, <1>1
  <2> QED BY <1>1, <2>1, <2>2, <2>3 DEF Shown
<1>3. CASE MinuteIsFull /\ minutes # Radix - 1
  <2>1. hours' = hours /\ minutes' = minutes + 1 /\ seconds' = 0
    BY <1>3 DEF TimerFires
  <2>2. minutes' \in 0..(Radix - 1)
    BY <1>0, <1>1, <1>3, <2>1
  <2>3. Radix * minutes' = Radix * minutes + seconds + 1
    BY <1>0, <1>1, <1>3, <2>1, Carry DEF MinuteIsFull
  <2>4. S * hours \in Nat /\ Radix * minutes \in Nat
    BY <1>0, <1>1
  <2> QED BY <1>0, <1>1, <2>1, <2>2, <2>3, <2>4 DEF Shown
<1>4. CASE MinuteIsFull /\ minutes = Radix - 1
  <2>1. hours' = hours + 1 /\ minutes' = 0 /\ seconds' = 0
    BY <1>4 DEF TimerFires
  <2>2. S = Radix * minutes + seconds + 1
    <3>1. Radix = minutes + 1 /\ seconds + 1 = Radix
      BY <1>0, <1>1, <1>4 DEF MinuteIsFull
    <3>2. S = Radix * minutes + Radix
      BY <1>1, <3>1, Carry
    <3>3. Radix * minutes \in Nat
      BY <1>0, <1>1
    <3> QED BY <1>1, <3>1, <3>2, <3>3
  <2>3. S * hours' = S * hours + S
    BY <1>0, <1>1, <2>1
  <2>4. S * hours \in Nat /\ Radix * minutes \in Nat
    BY <1>0, <1>1
  <2> QED BY <1>0, <1>1, <2>1, <2>2, <2>3, <2>4 DEF Shown
<1> QED BY <1>2, <1>3, <1>4

\* What the types say of the numbers.
LEMMA NumbersAreTyped ==
    ASSUME TypeOK
    PROVE /\ hours \in Nat /\ minutes \in Nat /\ seconds \in Nat
          /\ timers \in Nat /\ failures \in Nat /\ elapsed \in Nat
          /\ take \in Nat /\ audio \in Nat
<1>1. minutes \in 0..(Radix - 1) /\ seconds \in 0..(Radix - 1)
  BY DEF TypeOK
<1>2. minutes \in Nat /\ seconds \in Nat
  BY <1>1, RadixAssumption
<1> QED BY <1>2 DEF TypeOK

\* Zero is a digit and within every bound.
LEMMA ZeroIsTyped ==
    /\ 0 \in Nat
    /\ 0 \in 0..(Radix - 1)
    /\ 0 \in 0..MaxLate
BY RadixAssumption, RecorderBoundsAssumption

\* A clock that is set back shows nothing.
LEMMA ClockSetBack == ASSUME ResetClock PROVE Shown' = 0
BY RadixAssumption DEF ResetClock, Shown

\* Below an hour the time read off the clock is all the clock shows.
LEMMA NoHoursBelowAnHour ==
    ASSUME TypeOK, Shown < Radix * Radix
    PROVE TimeOnTheClock = Shown
<1> DEFINE S == Radix * Radix
<1>0. Radix \in Nat \ {0} /\ S \in Nat
  BY RadixAssumption
<1>1. hours \in Nat /\ minutes \in Nat /\ seconds \in Nat
  BY NumbersAreTyped
<1>3. Radix * minutes \in Nat
  BY <1>0, <1>1
<1>2. hours = 0
  <2>1. SUFFICES ASSUME hours # 0 PROVE S * hours >= S
    BY <1>0, <1>1, <1>3 DEF Shown
  <2>2. PICK h \in Nat : hours = h + 1
    BY <1>1, <2>1
  <2>3. S * hours = S * h + S /\ S * h \in Nat
    BY <1>0, <2>2
  <2> QED BY <1>0, <2>3
<1> QED BY <1>0, <1>1, <1>2, <1>3 DEF Shown, TimeOnTheClock

(***************************************************************************)
(* The invariant.  A running take keeps the handle of its timer, so that   *)
(* stopping it takes a timer off the run loop; without that neither the    *)
(* number of timers nor the clock could be followed from step to step.     *)
(***************************************************************************)

Own == IF isRecording THEN 1 ELSE 0

Timers == Own <= timers /\ timers <= Own + failures

Handle == isRecording => timer

IInv ==
    /\ TypeOK
    /\ StopFindsRecorder
    /\ Handle
    /\ Timers
    /\ ClockShowsTheTake
    /\ TimeOfThePromptedTake

\* A launch has the invariant.
LEMMA InvInit == Init => IInv
<1> SUFFICES ASSUME Init PROVE IInv
  OBVIOUS
<1>1. Shown = 0
  BY RadixAssumption DEF Init, Shown
<1>2. TypeOK
  BY ZeroIsTyped DEF Init, TypeOK
<1> QED BY <1>1, <1>2 DEF Init, IInv, StopFindsRecorder, Handle, Timers, Own, ClockShowsTheTake,
                         TimeOfThePromptedTake

\* Starting a take on a clock that shows nothing.
LEMMA InvStart == IInv /\ OnStartRecordingTap => IInv'
<1> SUFFICES ASSUME IInv, OnStartRecordingTap PROVE IInv'
  OBVIOUS
<1>0. TypeOK /\ ~promptAction /\ ~isRecording
  BY DEF IInv, OnStartRecordingTap
<1>1. CASE AskPermissions
  <2>1. asked' \in SUBSET Permissions
    BY <1>0, <1>1 DEF AskPermissions, TypeOK
  <2>2. TypeOK'
    BY <1>0, <1>1, <2>1 DEF AskPermissions, ticking, clock, tape, TypeOK
  <2> QED BY <1>1, <2>2 DEF AskPermissions, ticking, clock, tape, IInv, StopFindsRecorder, Handle,
                           Timers, Own, ClockShowsTheTake, TimeOfThePromptedTake, Shown
<1>2. CASE RecorderOpens
  <2>0. /\ take \in Nat /\ take' \in Nat /\ audio' \in Nat
        /\ timers \in Nat /\ timers' \in Nat
    BY <1>0, <1>2, NumbersAreTyped DEF RecorderOpens
  <2>1. TypeOK'
    BY <1>0, <1>2, <2>0, ZeroIsTyped DEF RecorderOpens, permissions, clock, TypeOK
  <2>2. Shown' = Shown
    BY <1>2 DEF RecorderOpens, clock, Shown
  <2>3. timers \in Nat /\ failures \in Nat
    BY <1>0 DEF TypeOK
  <2>4. Timers'
    BY <1>0, <1>2, <2>3 DEF RecorderOpens, IInv, Timers, Own
  <2>5. ClockShowsTheTake'
    BY <1>0, <1>2, <2>2 DEF RecorderOpens, IInv, ClockShowsTheTake
  <2> QED BY <1>0, <1>2, <2>1, <2>4, <2>5
          DEF RecorderOpens, IInv, StopFindsRecorder, Handle, TimeOfThePromptedTake
<1>3. CASE RecorderRefusesToOpen
  <2>1. TypeOK'
    BY <1>0, <1>3 DEF RecorderRefusesToOpen, permissions, ticking, clock, tape, TypeOK
  <2> QED BY <1>3, <2>1 DEF RecorderRefusesToOpen, ticking, clock, tape, IInv, StopFindsRecorder,
                           Handle, Timers, Own, ClockShowsTheTake, TimeOfThePromptedTake, Shown
<1> QED BY <1>1, <1>2, <1>3 DEF OnStartRecordingTap

\* Stopping a take finds its recorder and its timer.
LEMMA InvStop == IInv /\ OnStopRecordingTap => IInv'
<1> SUFFICES ASSUME IInv, OnStopRecordingTap PROVE IInv'
  OBVIOUS
<1>0. TypeOK /\ isRecording /\ audioRecorder = "set" /\ timer
  BY DEF IInv, OnStopRecordingTap, StopFindsRecorder, Handle
<1>1. /\ audioRecorder' = "nil" /\ ~isRecording' /\ promptAction'
      /\ isRecording' \in BOOLEAN /\ promptAction' \in BOOLEAN
      /\ crashed' = crashed
  BY <1>0 DEF OnStopRecordingTap, FinishRecording
<1>2. timers \in Nat /\ failures \in Nat /\ timers >= 1 /\ timers' = timers - 1 /\ timer' = FALSE
  BY <1>0 DEF OnStopRecordingTap, StopTimer, IInv, Timers, Own, TypeOK
<1>3. TimeOnTheClock \in Nat
  <2>1. seconds \in Nat /\ minutes \in Nat
    BY <1>0, NumbersAreTyped
  <2>2. Radix * minutes \in Nat
    BY <2>1, RadixAssumption
  <2> QED BY <2>1, <2>2 DEF TimeOnTheClock
<1>4. hours' = 0 /\ minutes' = 0 /\ seconds' = 0 /\ Shown' = 0
  BY ClockSetBack DEF OnStopRecordingTap, ResetClock
<1>5. late' \in 0..MaxLate
  <2>1. late' = late \/ (late < MaxLate /\ late' = late + 1)
    BY DEF OnStopRecordingTap
  <2>2. late \in 0..MaxLate
    BY <1>0 DEF TypeOK
  <2> QED BY <2>1, <2>2, RecorderBoundsAssumption
<1>10. /\ UNCHANGED <<permissions, recordName, tape, elapsed, failures>>
       /\ time' = TimeOnTheClock
  BY DEF OnStopRecordingTap
<1>6. TypeOK'
  <2>1. timers' \in Nat
    BY <1>2
  <2> QED BY <1>0, <1>1, <1>2, <1>3, <1>4, <1>5, <1>10, <2>1, ZeroIsTyped DEF permissions, tape, TypeOK
<1>7. failures = 0 /\ elapsed < Radix * Radix => TimeOnTheClock = elapsed
  BY <1>0, NoHoursBelowAnHour DEF IInv, ClockShowsTheTake
<1>8. TimeOfThePromptedTake'
  BY <1>7, <1>10 DEF TimeOfThePromptedTake
<1>9. Timers'
  BY <1>0, <1>1, <1>2, <1>10 DEF IInv, Timers, Own
<1> QED BY <1>0, <1>1, <1>4, <1>6, <1>8, <1>9
        DEF IInv, StopFindsRecorder, Handle, ClockShowsTheTake

\* A failure, of this recorder or of one stopped before, is counted.
LEMMA InvFinish == IInv /\ RecorderDidFinish => IInv'
<1> SUFFICES ASSUME IInv, RecorderDidFinish PROVE IInv'
  OBVIOUS
<1>0. TypeOK /\ timers \in Nat /\ failures \in Nat
  BY DEF IInv, TypeOK
<1>1. late' \in 0..MaxLate
  <2>1. late' = late \/ (late > 0 /\ late' = late - 1)
    BY DEF RecorderDidFinish
  <2>2. late \in 0..MaxLate
    BY <1>0 DEF TypeOK
  <2> QED BY <2>1, <2>2, RecorderBoundsAssumption
<1>2. CASE FailureReported
  <2>1. failures' = failures + 1 /\ failures' \in Nat /\ failures' # 0
    <3>1. failures' = failures + 1
      BY <1>2 DEF FailureReported
    <3> QED BY <1>0, <3>1
  <2>2. UNCHANGED <<permissions, recordName, time, ticking, tape>>
    BY <1>2 DEF FailureReported
  <2>3. CASE audioRecorder = "nil"
    <3>1. crashed' = "late failure" /\ UNCHANGED <<audioRecorder, isRecording, promptAction>>
      BY <1>2, <2>3 DEF FailureReported, FinishRecording
    <3>2. TypeOK'
      BY <1>0, <1>1, <2>1, <2>2, <3>1 DEF permissions, ticking, clock, tape, TypeOK
    <3>3. timers' = timers /\ Own' = Own /\ Own \in Nat /\ Timers
      BY <2>2, <3>1 DEF ticking, IInv, Own
    <3>4. Timers'
      BY <1>0, <2>1, <3>3 DEF Timers
    <3> QED BY <3>4, <2>1, <2>2, <3>1, <3>2, <3>3
            DEF ticking, IInv, StopFindsRecorder, Handle, ClockShowsTheTake, TimeOfThePromptedTake
  <2>4. CASE audioRecorder # "nil"
    <3>1. /\ audioRecorder' = "nil" /\ isRecording' = FALSE /\ promptAction' = FALSE
          /\ crashed' = crashed
      BY <1>2, <2>4 DEF FailureReported, FinishRecording
    <3>2. TypeOK'
      BY <1>0, <1>1, <2>1, <2>2, <3>1 DEF permissions, ticking, clock, tape, TypeOK
    <3>3. Timers'
      BY <1>0, <2>1, <2>2, <3>1 DEF ticking, IInv, Timers, Own
    <3> QED BY <2>1, <3>1, <3>2, <3>3
            DEF IInv, StopFindsRecorder, Handle, ClockShowsTheTake, TimeOfThePromptedTake
  <2> QED BY <2>3, <2>4
<1>3. CASE UNCHANGED <<permissions, audioRecorder, isRecording, promptAction, recordName,
                       time, ticking, tape, failures, crashed>>
  <2>1. TypeOK'
    BY <1>0, <1>1, <1>3 DEF permissions, ticking, clock, tape, TypeOK
  <2> QED BY <1>3, <2>1 DEF ticking, clock, IInv, StopFindsRecorder, Handle, Timers, Own,
                           ClockShowsTheTake, TimeOfThePromptedTake, Shown
<1> QED BY <1>2, <1>3 DEF RecorderDidFinish

\* A timer that fires is the take's own while no recorder has failed.
LEMMA InvTimer == IInv /\ TimerFires => IInv'
<1> SUFFICES ASSUME IInv, TimerFires PROVE IInv'
  OBVIOUS
<1>0. TypeOK /\ timers \in Nat /\ failures \in Nat /\ elapsed \in Nat /\ timers > 0
  BY DEF IInv, TypeOK, TimerFires
<1>1. /\ Shown' = Shown + 1
      /\ hours' \in Nat /\ minutes' \in 0..(Radix - 1) /\ seconds' \in 0..(Radix - 1)
  BY <1>0, ClockGoesOn
<1>2. elapsed' \in Nat
  BY <1>0 DEF TimerFires
<1>3. UNCHANGED <<permissions, audioRecorder, late, isRecording, promptAction, recordName,
                  time, timer, timers, tape, failures, crashed>>
  BY DEF TimerFires
<1>4. TypeOK'
  BY <1>0, <1>1, <1>2, <1>3 DEF permissions, tape, TypeOK
<1>5. failures = 0 => isRecording /\ timers = 1
  BY <1>0 DEF IInv, Timers, Own
<1>6. failures = 0 => Shown' = elapsed' /\ isRecording'
  BY <1>0, <1>1, <1>3, <1>5 DEF TimerFires, IInv, ClockShowsTheTake
<1> QED BY <1>3, <1>4, <1>5, <1>6 DEF IInv, StopFindsRecorder, Handle, Timers, Own,
                                    ClockShowsTheTake, TimeOfThePromptedTake

\* Every step keeps the invariant.
LEMMA InvStep == IInv /\ [Next]_recorderVars => IInv'
<1> SUFFICES ASSUME IInv, [Next]_recorderVars PROVE IInv'
  OBVIOUS
<1>0. TypeOK
  BY DEF IInv
<1>1. CASE PermissionAnswered
  <2>1. TypeOK'
    BY <1>0, <1>1 DEF PermissionAnswered, ticking, clock, tape, TypeOK
  <2> QED BY <1>1, <2>1 DEF PermissionAnswered, ticking, clock, IInv, StopFindsRecorder, Handle,
                           Timers, Own, ClockShowsTheTake, TimeOfThePromptedTake, Shown
<1>2. CASE EnterName
  <2>1. TypeOK'
    BY <1>0, <1>2 DEF EnterName, permissions, ticking, clock, tape, TypeOK
  <2> QED BY <1>2, <2>1 DEF EnterName, ticking, clock, IInv, StopFindsRecorder, Handle, Timers,
                           Own, ClockShowsTheTake, TimeOfThePromptedTake, Shown
<1>3. CASE ClosePrompt
  <2>1. TypeOK'
    BY <1>0, <1>3 DEF ClosePrompt, permissions, ticking, clock, tape, TypeOK
  <2> QED BY <1>3, <2>1 DEF ClosePrompt, ticking, clock, IInv, StopFindsRecorder, Handle, Timers,
                           Own, ClockShowsTheTake, TimeOfThePromptedTake, Shown
<1>4. CASE Relaunch
  <2>1. TypeOK'
    BY <1>0, <1>4, ZeroIsTyped DEF Relaunch, TypeOK
  <2>2. Shown' = 0
    BY <1>4, RadixAssumption DEF Relaunch, Shown
  <2>3. Timers'
    BY <1>4 DEF Relaunch, Timers, Own
  <2> QED BY <1>4, <2>1, <2>2, <2>3 DEF Relaunch, IInv, StopFindsRecorder, Handle,
                                       ClockShowsTheTake, TimeOfThePromptedTake
<1>5. CASE UNCHANGED recorderVars
  <2>1. TypeOK'
    BY <1>0, <1>5 DEF recorderVars, permissions, ticking, clock, tape, TypeOK
  <2> QED BY <1>5, <2>1 DEF recorderVars, ticking, clock, IInv, StopFindsRecorder, Handle, Timers,
                           Own, ClockShowsTheTake, TimeOfThePromptedTake, Shown
<1> QED BY <1>1, <1>2, <1>3, <1>4, <1>5, InvStart, InvStop, InvFinish, InvTimer DEF Next

\* The invariant implies the properties.
LEMMA InvImplies ==
    IInv => TypeOK /\ StopFindsRecorder /\ OneTimerLostPerFailure /\ ClockShowsTheTake
            /\ TimeOfThePromptedTake
BY DEF IInv, Timers, Own, OneTimerLostPerFailure

\* The variables of the recorder keep their types: in particular no stop takes a
\* timer off the run loop that is not there.
THEOREM RecorderTypeCorrect == Spec => []TypeOK
BY InvInit, InvStep, InvImplies, PTL DEF Spec

\* The Stop button never unwraps a recorder that is gone.
THEOREM StopAlwaysFindsRecorder == Spec => []StopFindsRecorder
BY InvInit, InvStep, InvImplies, PTL DEF Spec

\* Each failure leaks its own timer at most.
THEOREM FailureCostsOneTimer == Spec => []OneTimerLostPerFailure
BY InvInit, InvStep, InvImplies, PTL DEF Spec

\* The clock on the screen is that of the take, for any radix.
THEOREM ClockIsTrue == Spec => []ClockShowsTheTake
BY InvInit, InvStep, InvImplies, PTL DEF Spec

\* The time offered for saving is that of the take, below an hour.
THEOREM OfferedTimeIsTrue == Spec => []TimeOfThePromptedTake
BY InvInit, InvStep, InvImplies, PTL DEF Spec
====
