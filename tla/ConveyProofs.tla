---- MODULE ConveyProofs ----
(***************************************************************************)
(* What is proved about the whole app for every set of users, names and    *)
(* bounds.  The session's lemmas are those of AuthSessionProofs, whose     *)
(* main queue may hold blocks of others; here are the blocks: a step of    *)
(* the app is one of the session's, or one beside it that leaves the       *)
(* session alone.  The rest follows a Save from the tap to its document:   *)
(* which flow is under way, what was on the screen, who recorded it.       *)
(***************************************************************************)
EXTENDS Convey, FiniteSetTheorems, TLAPS

AP == INSTANCE AuthSessionProofs
      WITH OtherBlocks <- SpeechBlocks \cup WrittenBlocks, OtherCrashes <- Crashes

(***************************************************************************)
(* The session of the app is the one AuthSessionProofs is about, with the  *)
(* blocks of the recognizer and of Firestore between its own.              *)
(***************************************************************************)

\* AuthSession's assumptions hold of it.
LEMMA SessionAssumptions ==
    /\ NoUser \notin Users
    /\ Revocable \in BOOLEAN
    /\ MaxQueue \in Nat
    /\ \A b \in SpeechBlocks \cup WrittenBlocks : b.kind \notin AP!Kinds
<1>1. \A b \in SpeechBlocks \cup WrittenBlocks : b.kind \notin AP!Kinds
  BY DEF SpeechBlocks, WrittenBlocks, AP!Kinds, AP!Requests
<1> QED BY <1>1, NoUserAssumption, RevocableAssumption, MaxQueueAssumption

LEMMA SameInit == A!Init => AP!Init
BY DEF A!Init, AP!Init, A!LaunchQueues, AP!LaunchQueues, A!Block, AP!Block, A!Requests, AP!Requests

LEMMA SameTypes == A!TypeOK <=> AP!TypeOK
BY DEF A!TypeOK, AP!TypeOK, A!Blocks, AP!Blocks, A!Kinds, AP!Kinds, A!Requests, AP!Requests,
       A!MaybeUser, AP!MaybeUser

LEMMA SameQueue ==
    /\ \A kinds : A!Pending(kinds) <=> AP!Pending(kinds)
    /\ \A kinds : A!MainTakes(kinds) <=> AP!MainTakes(kinds)
    /\ A!Running <=> AP!Running
    /\ A!Touchable <=> AP!Touchable
BY DEF A!Pending, AP!Pending, A!MainTakes, AP!MainTakes, A!Running, AP!Running, A!Touchable,
       AP!Touchable

\* The work queue's steps are the session's.
LEMMA SameWork ==
    A!LoadStoredUser \/ A!Answers \/ A!RefreshToken \/ A!RevokeSession
        => AP!Ongoing /\ AP!Untold
<1>1. A!LoadStoredUser => AP!LoadStoredUser
  BY DEF A!LoadStoredUser, AP!LoadStoredUser, A!Block, AP!Block, A!Running, AP!Running, A!stored,
         AP!stored, A!filter, AP!filter, A!screen, AP!screen
<1>2. \A r : A!Answered(r) => AP!Answered(r)
  BY DEF A!Answered, AP!Answered, A!Due, AP!Due, A!Running, AP!Running, A!filter, AP!filter,
         A!screen, AP!screen
<1>3. \A r : A!RequestSucceeds(r) => AP!RequestSucceeds(r)
  BY <1>2 DEF A!RequestSucceeds, AP!RequestSucceeds, A!Eligible, AP!Eligible, A!Outcome,
         AP!Outcome, A!Block, AP!Block
<1>4. \A r : A!RequestFails(r) => AP!RequestFails(r)
  BY <1>2 DEF A!RequestFails, AP!RequestFails, A!Eligible, AP!Eligible, A!Block, AP!Block
<1>5. A!RefreshToken => AP!RefreshToken
  BY DEF A!RefreshToken, AP!RefreshToken, A!Block, AP!Block, A!Running, AP!Running, A!stored,
         AP!stored, A!filter, AP!filter, A!screen, AP!screen
<1>6. A!RevokeSession => AP!RevokeSession
  BY DEF A!RevokeSession, AP!RevokeSession, A!Block, AP!Block, A!Running, AP!Running, A!filter,
         AP!filter, A!screen, AP!screen
<1> QED BY <1>1, <1>3, <1>4, <1>5, <1>6
        DEF A!Answers, AP!Answers, A!Requests, AP!Requests, AP!Ongoing, AP!Untold

\* A notification is run as in the session.
LEMMA SameNotify == A!RunNotify => AP!RunNotify
BY DEF A!RunNotify, AP!RunNotify, A!MainTakes, AP!MainTakes, A!FilterUser, AP!FilterUser,
       A!Running, AP!Running, A!stored, AP!stored, A!filter, AP!filter, A!screen, AP!screen

\* So are the other blocks of the session on the main queue.
LEMMA SameMain ==
    A!RunInitial \/ A!ListenerChecks \/ A!ListenerStarts \/ A!SignInCompletes
        \/ A!SignUpCompletes => AP!Ongoing /\ AP!Untold
<1>1. A!RunInitial => AP!RunInitial
  BY DEF A!RunInitial, AP!RunInitial, A!MainTakes, AP!MainTakes, A!FilterUser, AP!FilterUser,
         A!Running, AP!Running, A!stored, AP!stored, A!screen, AP!screen
<1>2. A!ListenerChecks => AP!ListenerChecks
  BY DEF A!ListenerChecks, AP!ListenerChecks, A!Running, AP!Running, A!stored, AP!stored,
         A!filter, AP!filter, A!screen, AP!screen
<1>3. A!ListenerStarts => AP!ListenerStarts
  BY DEF A!ListenerStarts, AP!ListenerStarts, A!StartFor, AP!StartFor, A!Running, AP!Running,
         A!stored, AP!stored, A!filter, AP!filter, A!screen, AP!screen
<1>4. A!SignInCompletes => AP!SignInCompletes
  BY DEF A!SignInCompletes, AP!SignInCompletes, A!FinishRequest, AP!FinishRequest, A!MainTakes,
         AP!MainTakes, A!Running, AP!Running, A!stored, AP!stored, A!filter, AP!filter
<1>5. A!SignUpCompletes => AP!SignUpCompletes
  BY DEF A!SignUpCompletes, AP!SignUpCompletes, A!FinishRequest, AP!FinishRequest, A!MainTakes,
         AP!MainTakes, A!CreateUser, AP!CreateUser, A!Running, AP!Running, A!filter, AP!filter,
         A!screen, AP!screen
<1> QED BY <1>1, <1>2, <1>3, <1>4, <1>5 DEF AP!Ongoing, AP!Untold, AP!MainRuns

\* And the user's taps.
LEMMA SameTaps ==
    A!OnSignInTap \/ A!OnSignUpTap \/ A!DismissAlert \/ A!SignOutTap => AP!Ongoing /\ AP!Untold
<1>1. A!OnSignInTap => AP!OnSignInTap
  BY DEF A!OnSignInTap, AP!OnSignInTap, A!Touchable, AP!Touchable, A!Send, AP!Send, A!Pending,
         AP!Pending, A!Running, AP!Running, A!stored, AP!stored, A!filter, AP!filter
<1>2. A!OnSignUpTap => AP!OnSignUpTap
  BY DEF A!OnSignUpTap, AP!OnSignUpTap, A!Touchable, AP!Touchable, A!Send, AP!Send, A!Pending,
         AP!Pending, A!Running, AP!Running, A!FinishRequest, AP!FinishRequest, A!stored,
         AP!stored, A!filter, AP!filter
<1>3. A!DismissAlert => AP!DismissAlert
  BY DEF A!DismissAlert, AP!DismissAlert, A!Running, AP!Running, A!stored, AP!stored, A!filter,
         AP!filter
<1>4. A!SignOutTap => AP!SignOutTap
  BY DEF A!SignOutTap, AP!SignOutTap, A!Touchable, AP!Touchable, A!Pending, AP!Pending, A!Running,
         AP!Running, A!StopListening, AP!StopListening, A!AuthSignsOut, AP!AuthSignsOut,
         A!SignOutFails, AP!SignOutFails, A!Block, AP!Block, A!filter, AP!filter, A!screen,
         AP!screen
<1> QED BY <1>1, <1>2, <1>3, <1>4 DEF AP!Ongoing, AP!Untold, AP!Taps

\* A launch of the app is a launch of its session.
LEMMA SameRelaunch == A!Relaunch => AP!Relaunch
BY DEF A!Relaunch, AP!Relaunch, A!LaunchQueues, AP!LaunchQueues, A!Block, AP!Block, A!Requests,
       AP!Requests, A!stored, AP!stored

(***************************************************************************)
(* The blocks on the main queue.                                           *)
(***************************************************************************)

Held(S) == \E i \in 1..Len(mainQ) : mainQ[i] \in S
Lone(S) == \A i, j \in 1..Len(mainQ) : mainQ[i] \in S /\ mainQ[j] \in S => i = j

\* Recognitions that ended, and all blocks that lower the overlay of a recognition or an upload.
Finals == {b \in SpeechBlocks : b.result # "partial"}
OwnEnds == Finals \cup WrittenBlocks

\* Kinds tell the blocks apart.
LEMMA BlockKinds ==
    /\ \A b \in SpeechBlocks : b.kind = "speech" /\ b \in AP!Blocks
    /\ \A b \in WrittenBlocks : b.kind = "written" /\ b \in AP!Blocks
    /\ \A b \in AP!Blocks : /\ b.kind = "speech" => b \in SpeechBlocks
                            /\ b.kind = "written" => b \in WrittenBlocks
    /\ \A b \in OwnEnds : b.kind \notin AP!Kinds /\ Ends(b)
    /\ \A b \in AP!Blocks : Ends(b) => b.kind \in AP!Requests \/ b \in OwnEnds
<1>1. A!Requests = AP!Requests
  BY DEF A!Requests, AP!Requests
<1>2. /\ \A b \in SpeechBlocks : b.kind = "speech" /\ b \in AP!Blocks
      /\ \A b \in WrittenBlocks : b.kind = "written" /\ b \in AP!Blocks
  BY DEF SpeechBlocks, WrittenBlocks, AP!Blocks
<1>3. \A b \in AP!Blocks : /\ b.kind = "speech" => b \in SpeechBlocks
                           /\ b.kind = "written" => b \in WrittenBlocks
  BY DEF SpeechBlocks, WrittenBlocks, AP!Blocks, AP!Kinds, AP!Requests
<1>4. \A b \in OwnEnds : b.kind \notin AP!Kinds /\ Ends(b)
  BY <1>2 DEF OwnEnds, Finals, Ends, AP!Kinds, AP!Requests
<1>5. \A b \in AP!Blocks : Ends(b) => b.kind \in AP!Requests \/ b \in OwnEnds
  BY <1>1, <1>3 DEF OwnEnds, Finals, Ends
<1> QED BY <1>2, <1>3, <1>4, <1>5

\* A block is put behind the others.
LEMMA QueueAppended ==
    ASSUME mainQ \in Seq(AP!Blocks), NEW b \in AP!Blocks, mainQ' = Append(mainQ, b), NEW S
    PROVE /\ mainQ' \in Seq(AP!Blocks)
          /\ Held(S)' <=> Held(S) \/ b \in S
          /\ Lone(S) /\ (b \notin S \/ ~Held(S)) => Lone(S)'
<1>1. /\ Len(mainQ) \in Nat /\ Len(mainQ') = Len(mainQ) + 1 /\ mainQ' \in Seq(AP!Blocks)
      /\ \A i \in 1..Len(mainQ) : i \in 1..Len(mainQ') /\ mainQ'[i] = mainQ[i]
      /\ Len(mainQ') \in 1..Len(mainQ') /\ mainQ'[Len(mainQ')] = b
      /\ \A i \in 1..Len(mainQ') : i = Len(mainQ') \/ i \in 1..Len(mainQ)
  OBVIOUS
<1>2. Held(S)' <=> Held(S) \/ b \in S
  BY <1>1 DEF Held
<1>3. Lone(S) /\ (b \notin S \/ ~Held(S)) => Lone(S)'
  BY <1>1 DEF Held, Lone
<1> QED BY <1>1, <1>2, <1>3

\* The first block is taken.
LEMMA QueueTaken ==
    ASSUME mainQ \in Seq(AP!Blocks), NEW kinds, AP!MainTakes(kinds), NEW S
    PROVE /\ mainQ' \in Seq(AP!Blocks)
          /\ Head(mainQ) \in AP!Blocks /\ Head(mainQ).kind \in kinds /\ Held({Head(mainQ)})
          /\ Held(S)' => Held(S)
          /\ Held(S) => Held(S)' \/ Head(mainQ) \in S
          /\ Lone(S) => Lone(S)'
          /\ Lone(S) /\ Head(mainQ) \in S => ~Held(S)'
<1>1. /\ Len(mainQ) \in Nat \ {0} /\ Len(mainQ') = Len(mainQ) - 1 /\ mainQ' \in Seq(AP!Blocks)
      /\ \A i \in 1..Len(mainQ') : mainQ'[i] = mainQ[i + 1]
      /\ Head(mainQ) = mainQ[1] /\ Head(mainQ) \in AP!Blocks /\ Head(mainQ).kind \in kinds
  BY DEF AP!MainTakes
<1>2. /\ \A i \in 1..Len(mainQ') : i + 1 \in 1..Len(mainQ) /\ mainQ'[i] = mainQ[i + 1] /\ i + 1 # 1
      /\ \A i \in 1..Len(mainQ) : i = 1 \/ (i - 1 \in 1..Len(mainQ') /\ mainQ'[i - 1] = mainQ[i])
      /\ 1 \in 1..Len(mainQ)
  BY <1>1
<1>3. (Held(S)' => Held(S)) /\ (Held(S) => Held(S)' \/ Head(mainQ) \in S)
  BY <1>1, <1>2 DEF Held
<1>4. Lone(S) => Lone(S)'
  BY <1>1, <1>2 DEF Lone
<1>5. Lone(S) /\ Head(mainQ) \in S => ~Held(S)'
  BY <1>1, <1>2 DEF Lone, Held
<1>6. Held({Head(mainQ)})
  BY <1>1, <1>2 DEF Held
<1> QED BY <1>1, <1>3, <1>4, <1>5, <1>6

\* The session leaves the blocks of others on the queue as they are.
LEMMA QueueOngoing ==
    ASSUME AP!TypeOK, AP!Ongoing, NEW S, \A b \in S : b.kind \notin AP!Kinds
    PROVE (Held(S)' <=> Held(S)) /\ (Lone(S) => Lone(S)')
<1>0. mainQ \in Seq(AP!Blocks)
  BY DEF AP!TypeOK
<1>1. CASE UNCHANGED mainQ
  BY <1>1 DEF Held, Lone
<1>2. ASSUME NEW b \in AP!Blocks, b.kind \in AP!Kinds, mainQ' = Append(mainQ, b)
      PROVE (Held(S)' <=> Held(S)) /\ (Lone(S) => Lone(S)')
  BY <1>0, <1>2, QueueAppended
<1>3. ASSUME NEW b \in AP!Blocks, NEW c \in AP!Blocks, {b.kind, c.kind} \subseteq AP!Kinds,
             mainQ' = Append(Append(mainQ, b), c)
      PROVE (Held(S)' <=> Held(S)) /\ (Lone(S) => Lone(S)')
  <2>1. b \notin S /\ c \notin S
    BY <1>3
  <2>2. /\ Len(mainQ) \in Nat /\ Len(mainQ') = Len(mainQ) + 2
        /\ \A i \in 1..Len(mainQ) : i \in 1..Len(mainQ') /\ mainQ'[i] = mainQ[i]
        /\ \A i \in 1..Len(mainQ') : i \in 1..Len(mainQ) \/ mainQ'[i] \in {b, c}
    BY <1>0, <1>3
  <2> QED BY <2>1, <2>2 DEF Held, Lone
<1>4. ASSUME NEW kinds \in SUBSET AP!Kinds, AP!MainTakes(kinds)
      PROVE (Held(S)' <=> Held(S)) /\ (Lone(S) => Lone(S)')
  BY <1>0, <1>4, QueueTaken
<1> QED BY <1>1, <1>2, <1>3, <1>4, AP!OngoingQueue, SessionAssumptions

(***************************************************************************)
(* The steps of the app.                                                   *)
(***************************************************************************)

\* The session goes on and nothing else happens, but for Firestore, which hears of the user.
SessionGoesOn ==
    /\ AP!Ongoing
    /\ \/ AP!Untold /\ UNCHANGED credential
       \/ AP!RunNotify /\ credential' = Head(mainQ).user
    /\ UNCHANGED <<recorderVars, selectedTab, recordedBy, saves, recognitions, cloud>>

\* There is a take that is or may be offered to save.
Prompted == audioRecorder # "nil" \/ promptAction

\* A tap on a tab or on the recorder, or a callback of the recorder: nothing that Save started
\* is touched, and what Save will take only from the record view.
Elsewhere ==
    /\ UNCHANGED <<authVars, screen, saves, recognitions, credential, cloud>>
    /\ crash' \in {crash} \cup (Crashes \ {"empty document path"})
    /\ {audio', take', time', minutes', seconds'} \subseteq Nat
    /\ recordName' \in Names \cup {NoName}
    /\ selectedTab' \in {"house", "person"}
    /\ OnRecordView \/ UNCHANGED <<recordName, time, audio, recordedBy>>
    /\ recordedBy' \in {recordedBy, userID}
    /\ Prompted' => \/ Prompted /\ UNCHANGED recordedBy
                    \/ OnRecordView /\ recordedBy' = userID

LEMMA NextRecording ==
    ASSUME TypeOK, R!OnStartRecordingTap \/ R!OnStopRecordingTap \/ R!EnterName \/ R!ClosePrompt
                   \/ R!TimerFires \/ R!PermissionAnswered \/ R!RecorderDidFinish
    PROVE /\ crash' \in {crash} \cup (Crashes \ {"empty document path"})
          /\ {audio', take', time', minutes', seconds'} \subseteq Nat
          /\ recordName' \in Names \cup {NoName}
<1>0. /\ audio \in Nat /\ take \in Nat /\ time \in Nat /\ minutes \in Nat /\ seconds \in Nat
      /\ recordName \in Names \cup {NoName} /\ Radix \in Nat
  BY RadixAssumption DEF TypeOK
<1>1. CASE R!AskPermissions \/ R!EnterName \/ R!ClosePrompt \/ R!PermissionAnswered
           \/ R!RecorderRefusesToOpen
  BY <1>0, <1>1 DEF R!AskPermissions, R!EnterName, R!ClosePrompt, R!PermissionAnswered,
         R!RecorderRefusesToOpen, R!ticking, R!clock, R!tape, R!permissions, Crashes
<1>2. CASE R!RecorderOpens
  <2>1. /\ take' \in Nat /\ audio' \in {take', audio} /\ recordName' = NoName
        /\ UNCHANGED <<time, minutes, seconds, crash>>
    BY <1>0, <1>2 DEF R!RecorderOpens, R!clock
  <2> QED BY <1>0, <2>1
<1>3. CASE R!OnStopRecordingTap
  <2>1. /\ UNCHANGED <<take, audio, recordName>> /\ time' = seconds + Radix * minutes
        /\ minutes' = 0 /\ seconds' = 0
    BY <1>3 DEF R!OnStopRecordingTap, R!TimeOnTheClock, R!ResetClock, R!tape
  <2>2. crash' \in {crash} \cup (Crashes \ {"empty document path"})
    BY <1>3 DEF R!OnStopRecordingTap, R!FinishRecording, Crashes
  <2>3. /\ time' \in Nat /\ take' \in Nat /\ audio' \in Nat /\ minutes' \in Nat /\ seconds' \in Nat
        /\ recordName' \in Names \cup {NoName}
    BY <1>0, <2>1
  <2> QED BY <2>2, <2>3
<1>4. CASE R!TimerFires
  <2>1. UNCHANGED <<take, audio, recordName, time, crash>>
    BY <1>4 DEF R!TimerFires, R!tape
  <2>2. minutes' \in {minutes, 0, minutes + 1} /\ seconds' \in {0, seconds + 1}
    BY <1>4 DEF R!TimerFires
  <2> QED BY <1>0, <2>1, <2>2
<1>5. CASE R!RecorderDidFinish
  BY <1>0, <1>5 DEF R!RecorderDidFinish, R!FailureReported, R!FinishRecording, R!ticking,
         R!clock, R!tape, Crashes
<1> QED BY <1>1, <1>2, <1>3, <1>4, <1>5 DEF R!OnStartRecordingTap

\* Only the start of a recording makes a take to offer that was none before.
LEMMA NextTake ==
    ASSUME TypeOK, R!OnStartRecordingTap \/ R!OnStopRecordingTap \/ R!EnterName \/ R!ClosePrompt
                   \/ R!TimerFires \/ R!PermissionAnswered \/ R!RecorderDidFinish
    PROVE Prompted' => (Prompted /\ take' = take) \/ (R!OnStartRecordingTap /\ take' # take)
<1>1. CASE R!OnStartRecordingTap
  <2>1. CASE R!RecorderOpens
    <3>1. take \in Nat /\ take' = take + 1
      BY <2>1 DEF R!RecorderOpens, TypeOK
    <3> QED BY <1>1, <3>1
  <2> QED BY <1>1, <2>1
          DEF R!OnStartRecordingTap, R!AskPermissions, R!RecorderRefusesToOpen, R!tape, Prompted
<1>2. CASE R!OnStopRecordingTap
  BY <1>2 DEF R!OnStopRecordingTap, R!FinishRecording, R!tape, Prompted
<1>3. CASE R!EnterName \/ R!ClosePrompt \/ R!TimerFires \/ R!PermissionAnswered
  BY <1>3 DEF R!EnterName, R!ClosePrompt, R!TimerFires, R!PermissionAnswered, R!tape, Prompted
<1>4. CASE R!RecorderDidFinish
  BY <1>4 DEF R!RecorderDidFinish, R!FailureReported, R!FinishRecording, R!tape, Prompted
<1> QED BY <1>1, <1>2, <1>3, <1>4

\* The steps of the app are a launch, a step of the session, one of the screen or the recorder,
\* or one of what Save starts.
LEMMA Steps ==
    ASSUME TypeOK, [Next]_vars
    PROVE Relaunch \/ SessionGoesOn \/ Elsewhere \/ SaveRecord \/ SpeechReports \/ WriteAnswered
          \/ SpeechCallback \/ WriteCallback
<1>0. /\ {audio, take, time, minutes, seconds} \subseteq Nat
      /\ recordName \in Names \cup {NoName} /\ selectedTab \in {"house", "person"}
  BY DEF TypeOK
<1>1. CASE WorkQueueRuns
  BY <1>1, SameWork DEF WorkQueueRuns, SessionGoesOn, saveVars
<1>2. CASE MainQueueRuns
  BY <1>2, SameMain, SameNotify
     DEF MainQueueRuns, Notified, CredentialFrom, SessionGoesOn, saveVars, AP!Ongoing, AP!MainRuns
<1>3. CASE SessionTap
  BY <1>3, SameTaps DEF SessionTap, SessionGoesOn, saveVars
<1>4. CASE SelectTab
  BY <1>0, <1>4 DEF SelectTab, Elsewhere, recorderVars, Prompted
<1>5. CASE RecorderTap
  BY <1>0, <1>5, NextRecording, NextTake DEF RecorderTap, Elsewhere
<1>6. CASE DeleteRecord
  BY <1>0, <1>6, NextRecording, NextTake DEF DeleteRecord, R!ClosePrompt, Prompted, Elsewhere, saveVars
<1>7. CASE RecorderCallback
  <2>1. UNCHANGED <<recordName, time, audio, take>>
    BY <1>7 DEF RecorderCallback, R!TimerFires, R!PermissionAnswered, R!RecorderDidFinish,
           R!FailureReported, R!tape
  <2> QED BY <1>0, <1>7, <2>1, NextRecording, NextTake DEF RecorderCallback, Elsewhere, saveVars
<1>8. CASE UNCHANGED vars
  BY <1>0, <1>8 DEF vars, Elsewhere, recorderVars, saveVars, Prompted
<1> QED BY <1>1, <1>2, <1>3, <1>4, <1>5, <1>6, <1>7, <1>8 DEF Next, Callbacks

(***************************************************************************)
(* One flow at a time.  A recognition, its last report on the queue, the   *)
(* write it leads to and the block with the answer follow each other, and  *)
(* while one of them is there no request of the session is.                *)
(***************************************************************************)

\* What is known of the session, whether or not the server ends it.
Session == AP!TypeOK /\ AP!OneRequest /\ AP!Quiet /\ AP!Known

Busy == recognitions # {} \/ Held(OwnEnds) \/ Waiting # {}

\* At most one of the four, and one of its kind.
OneSaving ==
    /\ \A p, q \in recognitions : p = q
    /\ Lone(OwnEnds)
    /\ \A v, w \in Waiting : v = w
    /\ recognitions = {} \/ (~Held(OwnEnds) /\ Waiting = {})
    /\ ~Held(OwnEnds) \/ Waiting = {}

Flows == (Busy => AP!Covered) /\ OneSaving

\* What the recognizer queues is a block of its own.
LEMMA Reports ==
    ASSUME TypeOK, NEW request \in SaveRequests, NEW result \in {"partial", "final", "error"}
    PROVE /\ Report(request, result) \in SpeechBlocks
          /\ Report(request, result) \in Finals <=> result # "partial"
          /\ Report(request, result).request = request
          /\ Report(request, result).text = audio
BY DEF TypeOK, Report, SpeechBlocks, Finals

\* What the recognizer's callback and Firestore's find at the head of the queue.
LEMMA SpeechHead ==
    ASSUME AP!TypeOK, A!MainTakes({"speech"})
    PROVE /\ AP!MainTakes({"speech"}) /\ mainQ \in Seq(AP!Blocks)
          /\ Head(mainQ) \in SpeechBlocks /\ Held({Head(mainQ)})
          /\ Head(mainQ).result # "partial" => Head(mainQ) \in Finals
<1>1. AP!MainTakes({"speech"}) /\ mainQ \in Seq(AP!Blocks)
  BY SameQueue DEF AP!TypeOK
<1>2. Head(mainQ) \in SpeechBlocks /\ Held({Head(mainQ)})
  BY <1>1, QueueTaken, BlockKinds
<1> QED BY <1>1, <1>2 DEF Finals

LEMMA WrittenHead ==
    ASSUME AP!TypeOK, A!MainTakes({"written"})
    PROVE /\ AP!MainTakes({"written"}) /\ mainQ \in Seq(AP!Blocks)
          /\ Head(mainQ) \in WrittenBlocks /\ Held({Head(mainQ)}) /\ Held(OwnEnds)
<1>1. AP!MainTakes({"written"}) /\ mainQ \in Seq(AP!Blocks)
  BY SameQueue DEF AP!TypeOK
<1>2. Head(mainQ) \in WrittenBlocks /\ Held({Head(mainQ)})
  BY <1>1, QueueTaken, BlockKinds
<1> QED BY <1>1, <1>2 DEF OwnEnds, Held

\* To the session, what Save starts is the rest of the app.
LEMMA BesideTheSession ==
    ASSUME TypeOK, Session, Flows,
           Elsewhere \/ SaveRecord \/ SpeechReports \/ WriteAnswered \/ SpeechCallback
           \/ WriteCallback
    PROVE AP!Beside
<1> DEFINE Same == UNCHANGED <<AP!stored, currentUser, loaded, inFlight, observing, AP!filter,
                               listener, userID, isSignedIn>>
<1>0. isLoading \in BOOLEAN /\ alertShowing \in BOOLEAN /\ mainQ \in Seq(AP!Blocks)
  BY DEF Session, AP!TypeOK
<1>a. UNCHANGED userVars => Same
  BY DEF userVars, AP!stored, AP!filter
<1>1. CASE Elsewhere
  BY <1>0, <1>1, <1>a DEF Elsewhere, AP!Beside, authVars, screen
<1>2. CASE SaveRecord
  BY <1>0, <1>2, <1>a DEF SaveRecord, RaiseOverlay, R!ClosePrompt, AP!Beside, authVars
<1>3. CASE SpeechReports
  <2>1. PICK request \in recognitions :
            \/ mainQ' = Append(mainQ, Report(request, "partial"))
            \/ \E result \in {"final", "error"} : mainQ' = Append(mainQ, Report(request, result))
    BY <1>3 DEF SpeechReports
  <2>2. \E b \in SpeechBlocks : mainQ' = Append(mainQ, b)
    BY <2>1, Reports DEF TypeOK
  <2> QED BY <1>0, <1>3, <1>a, <2>2 DEF SpeechReports, AP!Beside, screen
<1>4. CASE WriteAnswered
  <2>1. \A ok \in BOOLEAN : [kind |-> "written", user |-> NoUser, ok |-> ok] \in WrittenBlocks
    BY DEF WrittenBlocks
  <2>2. UNCHANGED mainQ \/ \E b \in WrittenBlocks : mainQ' = Append(mainQ, b)
    BY <1>4, <2>1 DEF WriteAnswered
  <2> QED BY <1>0, <1>4, <1>a, <2>2 DEF WriteAnswered, AP!Beside, screen
<1>5. CASE SpeechCallback
  <2>1. /\ AP!MainTakes({"speech"}) /\ {"speech"} \cap AP!Kinds = {}
        /\ Head(mainQ) \in SpeechBlocks /\ Held({Head(mainQ)})
        /\ Head(mainQ).result # "partial" => Head(mainQ) \in Finals
    BY <1>5, SpeechHead DEF SpeechCallback, Session, AP!Kinds, AP!Requests
  <2>2. CASE Head(mainQ).result = "error" /\ A!FinishRequest(FALSE)
    <3>1. Held(OwnEnds)
      BY <2>1, <2>2 DEF Held, OwnEnds
    <3>2. AP!Covered
      BY <3>1 DEF Flows, Busy
    <3> QED BY <1>0, <1>5, <1>a, <2>1, <2>2, <3>2
            DEF SpeechCallback, A!FinishRequest, AP!Beside, AP!Covered
  <2>3. CASE UNCHANGED screen
    <3>1. crash' \in {crash} \cup Crashes
      BY <1>5, <2>3 DEF SpeechCallback, UploadRecord, Crashes, A!FinishRequest
    <3> QED BY <1>0, <1>5, <1>a, <2>1, <2>3, <3>1 DEF SpeechCallback, AP!Beside, screen
  <2> QED BY <1>5, <2>2, <2>3 DEF SpeechCallback
<1>6. CASE WriteCallback
  <2>1. /\ AP!MainTakes({"written"}) /\ {"written"} \cap AP!Kinds = {} /\ Held(OwnEnds)
    BY <1>6, WrittenHead DEF WriteCallback, Session, AP!Kinds, AP!Requests
  <2>2. AP!Covered
    BY <2>1 DEF Flows, Busy
  <2>3. isLoading' = FALSE /\ alertShowing' \in BOOLEAN /\ UNCHANGED crash
    BY <1>0, <1>6 DEF WriteCallback, A!FinishRequest
  <2> QED BY <1>6, <1>a, <2>1, <2>2, <2>3 DEF WriteCallback, AP!Beside, AP!Covered
<1> QED BY <1>1, <1>2, <1>3, <1>4, <1>5, <1>6

\* Every step keeps what is known of the session.
LEMMA SessionStep == TypeOK /\ Session /\ Flows /\ [Next]_vars => Session'
<1> SUFFICES ASSUME TypeOK, Session, Flows, [Next]_vars PROVE Session'
  OBVIOUS
<1>1. CASE AP!Next
  BY <1>1, AP!TypeStep, AP!OneRequestStep, AP!QuietStep, AP!KnownStep, SessionAssumptions
     DEF Session
<1>2. Relaunch \/ SessionGoesOn => AP!Next
  BY SameRelaunch DEF Relaunch, SessionGoesOn, AP!Ongoing, AP!Next
<1>3. CASE AP!Beside
  BY <1>3, AP!BesideKnown, SessionAssumptions DEF Session
<1> QED BY <1>1, <1>2, <1>3, Steps, BesideTheSession

(***************************************************************************)
(* Types.                                                                  *)
(***************************************************************************)

LEMMA MaybeUsers == AP!MaybeUser = MaybeUser /\ NoUser \in MaybeUser /\ Users \subseteq MaybeUser
BY DEF AP!MaybeUser, MaybeUser

\* What Save puts into a request.
LEMMA RequestIsTyped ==
    ASSUME TypeOK, Session, saves' \in Nat
    PROVE Request \in SaveRequests
<1>1. userID \in MaybeUser
  BY MaybeUsers DEF Session, AP!TypeOK
<1> QED BY <1>1 DEF Request, SaveRequests, TypeOK

\* Launches of the app are typed; the stored user is whom Firestore may know already.
LEMMA CredentialIsTyped ==
    ASSUME NEW u \in MaybeUser, NEW q PROVE CredentialAtLaunch(u, q) \subseteq MaybeUser
BY MaybeUsers DEF CredentialAtLaunch

LEMMA TypeInit == Init => TypeOK /\ Session
<1> SUFFICES ASSUME Init PROVE TypeOK /\ Session
  OBVIOUS
<1>1. AP!Init
  BY SameInit DEF Init
<1>2. Session
  BY <1>1, AP!TypeInit, AP!OneRequestInit, AP!QuietInit, AP!KnownInit, SessionAssumptions
     DEF Session
<1>3. A!TypeOK /\ currentUser \in MaybeUser
  BY <1>2, SameTypes, MaybeUsers DEF Session, AP!TypeOK
<1>4. credential \in MaybeUser
  BY <1>3, CredentialIsTyped DEF Init
<1>5. {audio, take, time, minutes, seconds} \subseteq Nat /\ recordName \in Names \cup {NoName}
  BY DEF Init, R!Init
<1>6. saves \in 0..MaxSaves
  BY MaxSavesAssumption DEF Init
<1> QED BY <1>2, <1>3, <1>4, <1>5, <1>6, MaybeUsers DEF Init, TypeOK, Documents

\* The documents there are after a step: those that were there, as they were or without their
\* callback, and one more when a final result is uploaded.
NewDocument(request, text) ==
    [id |-> uploads', path |-> userID, name |-> recordName, time |-> time, text |-> text,
     account |-> credential, heard |-> TRUE, request |-> request]

LEMMA UploadsOne ==
    ASSUME TypeOK, Session, SpeechCallback
    PROVE \/ UNCHANGED cloud
          \/ /\ Head(mainQ).result = "final"
             /\ uploads' = uploads + 1 /\ records' = records /\ userID # NoUser
             /\ writes' = writes \cup {NewDocument(Head(mainQ).request, Head(mainQ).text)}
             /\ NewDocument(Head(mainQ).request, Head(mainQ).text) \in Uploads
             /\ UNCHANGED <<crash, screen>>
<1>1. Head(mainQ) \in SpeechBlocks
  BY SpeechHead DEF SpeechCallback, Session
<1>2. Head(mainQ).request \in SaveRequests /\ Head(mainQ).text \in Nat
  BY <1>1 DEF SpeechBlocks
<1>3. CASE UploadRecord(Head(mainQ).request, Head(mainQ).text) /\ Uploaded(Head(mainQ).result)
           /\ UNCHANGED screen
  <2>1. CASE userID = NoUser
    BY <1>3, <2>1 DEF UploadRecord
  <2>2. CASE userID # NoUser
    <3>1. userID \in Users
      BY <2>2, MaybeUsers DEF Session, AP!TypeOK, MaybeUser
    <3>2. uploads' = uploads + 1 /\ uploads' \in Nat /\ credential \in MaybeUser
          /\ time \in Nat /\ recordName \in Names \cup {NoName}
      BY <1>3, <2>2 DEF UploadRecord, TypeOK
    <3>3. NewDocument(Head(mainQ).request, Head(mainQ).text) \in Uploads
      BY <1>2, <3>1, <3>2 DEF NewDocument, Uploads
    <3> QED BY <1>3, <2>2, <3>2, <3>3 DEF UploadRecord, NewDocument, Uploaded
  <2> QED BY <2>1, <2>2
<1> QED BY <1>3 DEF SpeechCallback

\* What a relaunch restores is what was queued, but for the callback.
LEMMA RestoredWrites ==
    ASSUME TypeOK
    PROVE \A v \in Restored : \E w \in writes :
              v \in Uploads /\ v = [w EXCEPT !.heard = FALSE] /\ ~v.heard /\ v.id = w.id
              /\ v.path = w.path /\ v.name = w.name /\ v.time = w.time /\ v.text = w.text
              /\ v.account = w.account /\ v.request = w.request
<1> SUFFICES ASSUME NEW w \in writes
             PROVE LET v == [w EXCEPT !.heard = FALSE] IN
                   v \in Uploads /\ ~v.heard /\ v.id = w.id
                   /\ v.path = w.path /\ v.name = w.name /\ v.time = w.time /\ v.text = w.text
                   /\ v.account = w.account /\ v.request = w.request
  BY DEF Restored
<1>1. w \in Uploads
  BY DEF TypeOK, Documents
<1> QED BY <1>1 DEF Uploads

LEMMA TypeStep == TypeOK /\ Session /\ Flows /\ [Next]_vars => TypeOK'
<1> SUFFICES ASSUME TypeOK, Session, Flows, [Next]_vars PROVE TypeOK'
  OBVIOUS
<1>0. A!TypeOK'
  BY SessionStep, SameTypes DEF Session, A!TypeOK, AP!TypeOK, A!Blocks, AP!Blocks, A!Kinds,
     AP!Kinds, A!Requests, AP!Requests, A!MaybeUser, AP!MaybeUser
<1>m. userID \in MaybeUser /\ currentUser' \in MaybeUser /\ mainQ \in Seq(AP!Blocks)
  BY SessionStep, MaybeUsers DEF Session, AP!TypeOK
<1>t. /\ {audio, take, time, minutes, seconds} \subseteq Nat
      /\ recordName \in Names \cup {NoName} /\ selectedTab \in {"house", "person"}
      /\ recordedBy \in MaybeUser /\ saves \in 0..MaxSaves /\ MaxSaves \in Nat /\ uploads \in Nat
      /\ credential \in MaybeUser
      /\ recognitions \subseteq SaveRequests /\ \A q \in recognitions : q.save \in 1..saves
      /\ Documents \subseteq Uploads /\ \A w \in Documents : w.id \in 1..uploads
  BY MaxSavesAssumption DEF TypeOK
<1>1. CASE Relaunch
  <2>1. /\ {audio', take', time', minutes', seconds'} \subseteq Nat /\ recordName' = NoName
        /\ selectedTab' = "house" /\ recordedBy' = NoUser /\ recognitions' = {}
        /\ UNCHANGED <<saves, uploads, records>> /\ writes' = Restored
    BY <1>1, <1>t DEF Relaunch, R!Relaunch
  <2>2. credential' \in MaybeUser
    BY <1>1, <1>m, CredentialIsTyped DEF Relaunch
  <2>3. Documents' \subseteq Uploads /\ \A w \in Documents' : w.id \in 1..uploads
    BY <1>t, <2>1, RestoredWrites DEF Documents
  <2> QED BY <1>0, <1>t, <2>1, <2>2, <2>3, MaybeUsers DEF TypeOK
<1>2. CASE SessionGoesOn
  <2>1. credential' \in MaybeUser
    <3>1. CASE AP!RunNotify /\ credential' = Head(mainQ).user
      <4>1. AP!MainTakes({"notify"})
        BY <3>1 DEF AP!RunNotify
      <4>2. Head(mainQ) \in AP!Blocks /\ Head(mainQ).kind = "notify"
        BY <1>m, <4>1, QueueTaken
      <4> QED BY <3>1, <4>2, MaybeUsers DEF AP!Blocks, SpeechBlocks, WrittenBlocks
    <3> QED BY <1>2, <1>t, <3>1 DEF SessionGoesOn
  <2> QED BY <1>0, <1>2, <1>t, <2>1 DEF SessionGoesOn, recorderVars, cloud, Documents, TypeOK
<1>3. CASE Elsewhere
  <2>1. recordedBy' \in MaybeUser
    BY <1>3, <1>m, <1>t DEF Elsewhere
  <2> QED BY <1>0, <1>3, <1>t, <2>1 DEF Elsewhere, cloud, Documents, TypeOK
<1>4. CASE SaveRecord
  <2>1. saves' = saves + 1 /\ saves' \in 0..MaxSaves /\ Request \in SaveRequests
    BY <1>4, <1>t, RequestIsTyped DEF SaveRecord
  <2>2. recognitions' \subseteq recognitions \cup {Request} /\ Request.save = saves'
    BY <1>4 DEF SaveRecord, Request
  <2>3. recognitions' \subseteq SaveRequests /\ \A q \in recognitions' : q.save \in 1..saves'
    BY <1>t, <2>1, <2>2
  <2> QED BY <1>0, <1>4, <1>t, <2>1, <2>3
          DEF SaveRecord, R!ClosePrompt, R!ticking, R!clock, R!tape, cloud, Documents, TypeOK
<1>5. CASE SpeechReports
  BY <1>0, <1>5, <1>t DEF SpeechReports, recorderVars, cloud, Documents, TypeOK
<1>6. CASE WriteAnswered
  <2>1. Documents' \subseteq Documents
    BY <1>6 DEF WriteAnswered, Documents
  <2> QED BY <1>0, <1>6, <1>t, <2>1 DEF WriteAnswered, recorderVars, TypeOK
<1>7. CASE SpeechCallback
  <2>1. /\ Documents' \subseteq Uploads /\ \A w \in Documents' : w.id \in 1..uploads'
        /\ uploads' \in Nat
    <3>1. CASE UNCHANGED cloud
      BY <1>t, <3>1 DEF cloud, Documents
    <3>2. CASE uploads' = uploads + 1
      <4> DEFINE new == NewDocument(Head(mainQ).request, Head(mainQ).text)
      <4>1. uploads' \in Nat /\ uploads' \in 1..uploads' /\ 1..uploads \subseteq 1..uploads'
            /\ uploads' # uploads
        BY <1>t, <3>2
      <4>2. Documents' = Documents \cup {new} /\ new \in Uploads
        BY <1>7, <4>1, UploadsOne DEF Documents, cloud
      <4>3. new.id = uploads'
        BY DEF NewDocument
      <4> QED BY <1>t, <4>1, <4>2, <4>3
    <3> QED BY <1>7, <3>1, <3>2, UploadsOne
  <2> QED BY <1>0, <1>7, <1>t, <2>1 DEF SpeechCallback, recorderVars, TypeOK
<1>8. CASE WriteCallback
  BY <1>0, <1>8, <1>t DEF WriteCallback, recorderVars, cloud, Documents, TypeOK
<1> QED BY <1>1, <1>2, <1>3, <1>4, <1>5, <1>6, <1>7, <1>8, Steps

(***************************************************************************)
(* One flow at a time: the steps.                                          *)
(***************************************************************************)

\* Others keep the cover while they leave the overlay alone.
LEMMA CoverKept ==
    ASSUME AP!TypeOK, AP!Covered, AP!Beside, isLoading' = isLoading
    PROVE AP!Covered'
<1>1. AP!Pending(AP!Requests)' => AP!Pending(AP!Requests)
  BY AP!BesideQueue, SessionAssumptions DEF AP!Kinds
<1> QED BY <1>1 DEF AP!Covered, AP!Beside, AP!Unanswered

\* Who can touch the screen finds nothing under way.
LEMMA NothingUnderWay ==
    ASSUME Session, Flows, A!Touchable
    PROVE ~Busy /\ AP!Unanswered = 0 /\ ~AP!Pending(AP!Requests)
<1>1. ~isLoading
  BY DEF A!Touchable
<1>2. AP!Unanswered \in Nat
  BY AP!UnansweredIsANumber, SessionAssumptions DEF Session, AP!TypeOK
<1> QED BY <1>1, <1>2 DEF Session, AP!OneRequest, Flows, AP!Covered

\* A launch queues no block that lowers the overlay.
LEMMA LaunchLowersNothing ==
    ASSUME NEW u, mainQ' \in AP!LaunchQueues(u)
    PROVE /\ ~Held(OwnEnds)' /\ Lone(OwnEnds)' /\ ~Held(SpeechBlocks)'
          /\ \A b \in SpeechBlocks : ~Held({b})'
<1>1. \A i \in 1..Len(mainQ') : mainQ'[i].kind \in {"initial", "notify"}
  BY DEF AP!LaunchQueues, AP!Block
<1>2. \A b \in OwnEnds \cup SpeechBlocks : b.kind \notin {"initial", "notify"}
  BY DEF OwnEnds, Finals, SpeechBlocks, WrittenBlocks
<1> QED BY <1>1, <1>2 DEF Held, Lone

LEMMA FlowsInit == Init => Flows
<1> SUFFICES ASSUME Init PROVE Flows
  OBVIOUS
<1>1. AP!Init
  BY SameInit DEF Init
<1>2. \A i \in 1..Len(mainQ) : mainQ[i].kind \in {"initial", "notify"}
  BY <1>1 DEF AP!Init, AP!LaunchQueues, AP!Block
<1>3. \A b \in OwnEnds : b.kind \notin {"initial", "notify"}
  BY DEF OwnEnds, Finals, SpeechBlocks, WrittenBlocks
<1>4. ~Held(OwnEnds) /\ Lone(OwnEnds)
  BY <1>2, <1>3 DEF Held, Lone
<1> QED BY <1>4 DEF Init, Flows, Busy, OneSaving, Waiting

LEMMA FlowsStep == TypeOK /\ Session /\ Flows /\ [Next]_vars => Flows'
<1> SUFFICES ASSUME TypeOK, Session, Flows, [Next]_vars PROVE Flows'
  OBVIOUS
<1>0. mainQ \in Seq(AP!Blocks) /\ recognitions \subseteq SaveRequests
  BY DEF Session, AP!TypeOK, TypeOK
<1>k. \A b \in OwnEnds : b.kind \notin AP!Kinds
  BY BlockKinds
<1>f. ASSUME UNCHANGED recognitions, Waiting' = Waiting, Held(OwnEnds)' <=> Held(OwnEnds),
             Lone(OwnEnds)', AP!Covered => AP!Covered'
      PROVE Flows'
  BY <1>f DEF Flows, Busy, OneSaving
<1>1. CASE Relaunch
  <2>1. ~Held(OwnEnds)' /\ Lone(OwnEnds)'
    BY <1>1, SameRelaunch, LaunchLowersNothing DEF Relaunch, AP!Relaunch
  <2>2. recognitions' = {} /\ Waiting' = {}
    BY <1>1, RestoredWrites DEF Relaunch, Waiting
  <2> QED BY <2>1, <2>2 DEF Flows, Busy, OneSaving
<1>2. CASE SessionGoesOn
  <2>1. (Held(OwnEnds)' <=> Held(OwnEnds)) /\ (Lone(OwnEnds) => Lone(OwnEnds)')
    BY <1>2, <1>k, QueueOngoing DEF SessionGoesOn, Session
  <2>2. AP!Covered => AP!Covered'
    BY <1>2, AP!CoveredStep, SessionAssumptions DEF SessionGoesOn, Session
  <2>3. Waiting' = Waiting /\ UNCHANGED recognitions
    BY <1>2 DEF SessionGoesOn, cloud, Waiting
  <2> QED BY <1>f, <2>1, <2>2, <2>3 DEF Flows, OneSaving
<1>3. CASE Elsewhere
  BY <1>3, <1>f DEF Elsewhere, authVars, userVars, screen, cloud, Waiting, Held, Lone, Flows,
     OneSaving, AP!Covered, AP!Unanswered, AP!Pending
<1>4. CASE SaveRecord
  <2>1. ~Busy /\ AP!Unanswered = 0 /\ ~AP!Pending(AP!Requests)
    BY <1>4, NothingUnderWay DEF SaveRecord, OnRecordView
  <2>2. recognitions' \subseteq {Request} /\ ~Held(OwnEnds)' /\ Waiting' = {} /\ isLoading'
    BY <1>4, <2>1 DEF SaveRecord, RaiseOverlay, authVars, cloud, Busy, Held, Waiting
  <2>3. AP!Covered'
    BY <1>4, <2>1, <2>2
       DEF SaveRecord, authVars, userVars, AP!Covered, AP!Unanswered, AP!Pending
  <2>4. Lone(OwnEnds)'
    BY <2>2 DEF Held, Lone
  <2> QED BY <2>2, <2>3, <2>4 DEF Flows, OneSaving
<1>5. CASE SpeechReports
  <2>1. AP!Covered' /\ Waiting' = Waiting /\ Waiting = {} /\ ~Held(OwnEnds)
    <3>1. recognitions # {} /\ isLoading' = isLoading /\ writes' = writes
      BY <1>5 DEF SpeechReports, screen, cloud
    <3>2. AP!Covered /\ Waiting = {} /\ ~Held(OwnEnds)
      BY <3>1 DEF Flows, Busy, OneSaving
    <3> QED BY <1>5, <3>1, <3>2, CoverKept, BesideTheSession DEF Session, Waiting
  <2>2. PICK request \in recognitions :
            \/ mainQ' = Append(mainQ, Report(request, "partial")) /\ UNCHANGED recognitions
            \/ /\ \E result \in {"final", "error"} :
                      mainQ' = Append(mainQ, Report(request, result))
               /\ recognitions' = recognitions \ {request}
    BY <1>5 DEF SpeechReports
  <2>3. CASE mainQ' = Append(mainQ, Report(request, "partial")) /\ UNCHANGED recognitions
    <3>1. Report(request, "partial") \in AP!Blocks /\ Report(request, "partial") \notin OwnEnds
      BY <1>0, Reports, BlockKinds DEF OwnEnds, WrittenBlocks, Report
    <3>2. ~Held(OwnEnds)' /\ Lone(OwnEnds)'
      BY <1>0, <2>1, <2>3, <3>1, QueueAppended DEF Flows, OneSaving
    <3> QED BY <1>f, <2>1, <2>3, <3>2
  <2>4. ASSUME NEW result \in {"final", "error"}, mainQ' = Append(mainQ, Report(request, result)),
               recognitions' = recognitions \ {request}
        PROVE Flows'
    <3>1. Report(request, result) \in AP!Blocks
      BY <1>0, Reports, BlockKinds
    <3>2. Lone(OwnEnds)'
      BY <1>0, <2>1, <2>4, <3>1, QueueAppended DEF Flows, OneSaving
    <3>3. recognitions' = {}
      BY <2>4 DEF Flows, OneSaving
    <3> QED BY <2>1, <3>2, <3>3 DEF Flows, Busy, OneSaving
  <2> QED BY <2>2, <2>3, <2>4
<1>6. CASE WriteAnswered
  <2>1. PICK w \in writes, ok \in BOOLEAN :
            /\ writes' = writes \ {w}
            /\ mainQ' = IF w.heard
                        THEN Append(mainQ, [kind |-> "written", user |-> NoUser, ok |-> ok])
                        ELSE mainQ
    BY <1>6 DEF WriteAnswered
  <2>2. UNCHANGED recognitions /\ (AP!Covered => AP!Covered')
    BY <1>6, CoverKept, BesideTheSession DEF WriteAnswered, Session, screen
  <2>3. CASE w.heard
    <3>1. w \in Waiting
      BY <2>3 DEF Waiting
    <3>2. recognitions = {} /\ ~Held(OwnEnds) /\ AP!Covered /\ Waiting' = {}
      BY <2>1, <3>1 DEF Flows, OneSaving, Busy, Waiting
    <3>3. [kind |-> "written", user |-> NoUser, ok |-> ok] \in AP!Blocks
      BY BlockKinds DEF WrittenBlocks
    <3>4. Lone(OwnEnds)'
      BY <1>0, <2>1, <2>3, <3>2, <3>3, QueueAppended DEF Flows, OneSaving
    <3> QED BY <2>2, <3>2, <3>4 DEF Flows, OneSaving
  <2>4. CASE ~w.heard
    <3>1. Waiting' = Waiting /\ UNCHANGED mainQ
      BY <2>1, <2>4 DEF Waiting
    <3> QED BY <1>f, <2>2, <3>1 DEF Held, Lone, Flows, OneSaving
  <2> QED BY <2>3, <2>4
<1>7. CASE SpeechCallback
  <2>1. /\ AP!MainTakes({"speech"}) /\ Head(mainQ) \in SpeechBlocks
        /\ Head(mainQ).result # "partial" => Head(mainQ) \in Finals
        /\ UNCHANGED recognitions
    BY <1>7, SpeechHead DEF SpeechCallback, Session
  <2>2. CASE Head(mainQ).result = "partial"
    <3>1. Head(mainQ) \notin OwnEnds
      BY <2>1, <2>2 DEF OwnEnds, Finals, SpeechBlocks, WrittenBlocks
    <3>2. (Held(OwnEnds)' <=> Held(OwnEnds)) /\ Lone(OwnEnds)'
      BY <1>0, <2>1, <3>1, QueueTaken DEF Flows, OneSaving
    <3>3. UNCHANGED <<writes, isLoading>>
      BY <1>7, <2>2 DEF SpeechCallback, Uploaded, cloud, screen
    <3> QED BY <1>7, <1>f, <2>1, <3>2, <3>3, CoverKept, BesideTheSession DEF Session, Waiting
  <2>3. CASE Head(mainQ).result # "partial"
    <3>1. Head(mainQ) \in OwnEnds
      BY <2>1, <2>3 DEF OwnEnds
    <3>2. Held(OwnEnds) /\ ~Held(OwnEnds)' /\ Lone(OwnEnds)'
      BY <1>0, <2>1, <3>1, QueueTaken DEF Flows, OneSaving, Held
    <3>3. AP!Covered /\ recognitions' = {} /\ Waiting = {}
      BY <2>1, <3>2 DEF Flows, Busy, OneSaving
    <3>4. CASE UNCHANGED cloud
      BY <3>2, <3>3, <3>4 DEF cloud, Waiting, Flows, Busy, OneSaving
    <3>5. CASE UNCHANGED screen
              /\ writes' = writes \cup {NewDocument(Head(mainQ).request, Head(mainQ).text)}
      <4>1. AP!Covered'
        BY <1>7, <3>3, <3>5, CoverKept, BesideTheSession DEF Session, screen
      <4>2. Waiting' \subseteq {NewDocument(Head(mainQ).request, Head(mainQ).text)}
        BY <3>3, <3>5 DEF Waiting
      <4> QED BY <3>2, <3>3, <4>1, <4>2 DEF Flows, OneSaving
    <3> QED BY <1>7, <3>4, <3>5, UploadsOne
  <2> QED BY <2>2, <2>3
<1>8. CASE WriteCallback
  <2>1. AP!MainTakes({"written"}) /\ Head(mainQ) \in OwnEnds /\ Held(OwnEnds)
    BY <1>8, WrittenHead DEF WriteCallback, Session, OwnEnds
  <2>2. ~Held(OwnEnds)' /\ Lone(OwnEnds)'
    BY <1>0, <2>1, QueueTaken DEF Flows, OneSaving
  <2>3. recognitions' = {} /\ Waiting' = {}
    BY <1>8, <2>1 DEF WriteCallback, cloud, Flows, OneSaving, Waiting
  <2> QED BY <2>2, <2>3 DEF Flows, Busy, OneSaving
<1> QED BY <1>1, <1>2, <1>3, <1>4, <1>5, <1>6, <1>7, <1>8, Steps

(***************************************************************************)
(* What was asked to be saved stays what is on the screen until it is      *)
(* uploaded: under the overlay nobody types, records, signs out or in.     *)
(***************************************************************************)

\* Requests whose recognition runs, or has ended and its last report is on the queue.
Asked(q) == q \in recognitions \/ \E b \in Finals : Held({b}) /\ b.request = q

AsOnScreen(q) ==
    /\ q.name = recordName /\ q.time = time /\ q.sound = audio
    /\ {currentUser, userID} \subseteq {NoUser, q.owner} /\ loaded
    /\ q.save \in 1..saves /\ \A w \in Documents : w.request.save # q.save

OnScreen == \A q : Asked(q) => AsOnScreen(q)

Transcribed == \A b \in Finals : Held({b}) => b.text = b.request.sound

\* Documents are numbered by the taps on Save, and what is acknowledged is not sent again.
Numbered ==
    /\ \A w \in Documents : w.request.save \in 1..saves
    /\ \A v \in writes, w \in records : v.request.save # w.request.save
    /\ OneRecordPerSave

Saving == OnScreen /\ Transcribed /\ Numbered /\ UploadedAsAsked

LEMMA AskedIsBusy ==
    /\ \A q : Asked(q) => Busy
    /\ \A b \in Finals : Held({b}) => Held(OwnEnds)
<1>1. \A b \in Finals : Held({b}) => Held(OwnEnds)
  BY DEF Held, OwnEnds
<1> QED BY <1>1 DEF Asked, Busy

\* Steps that upload nothing and leave what is on the screen.
LEMMA SavingFrame ==
    ASSUME Saving, UNCHANGED saves,
           writes' \subseteq writes, records' \subseteq Documents,
           \A v \in writes', w \in records' : v.request.save # w.request.save,
           recognitions' \subseteq recognitions,
           \A b \in Finals : Held({b})' => Held({b}),
           Busy /\ loaded =>
                   /\ UNCHANGED <<recordName, time, audio>> /\ loaded'
                   /\ {currentUser', userID'} \subseteq {currentUser, userID, NoUser}
    PROVE Saving'
<1>1. Documents' \subseteq Documents
  BY DEF Documents
<1>2. \A q : Asked(q)' => Asked(q)
  BY DEF Asked
<1>3. OnScreen'
  BY <1>1, <1>2, AskedIsBusy DEF Saving, OnScreen, AsOnScreen
<1>4. Transcribed'
  BY DEF Saving, Transcribed
<1>5. Numbered'
  BY <1>1 DEF Saving, Numbered, OneRecordPerSave
<1>6. UploadedAsAsked'
  BY <1>1 DEF Saving, UploadedAsAsked
<1> QED BY <1>3, <1>4, <1>5, <1>6 DEF Saving

LEMMA SavingInit == Init => Saving
<1> SUFFICES ASSUME Init PROVE Saving
  OBVIOUS
<1>1. AP!Init
  BY SameInit DEF Init
<1>2. \A i \in 1..Len(mainQ) : mainQ[i].kind \in {"initial", "notify"}
  BY <1>1 DEF AP!Init, AP!LaunchQueues, AP!Block
<1>3. \A b \in Finals : ~Held({b})
  BY <1>2 DEF Held, Finals, SpeechBlocks
<1>4. Documents = {} /\ recognitions = {}
  BY DEF Init, Documents
<1> QED BY <1>3, <1>4 DEF Init, Saving, OnScreen, Asked, Transcribed, Numbered, OneRecordPerSave,
                          UploadedAsAsked, Documents

LEMMA SavingStep == TypeOK /\ Session /\ Flows /\ Saving /\ [Next]_vars => Saving'
<1> SUFFICES ASSUME TypeOK, Session, Flows, Saving, [Next]_vars PROVE Saving'
  OBVIOUS
<1>0. mainQ \in Seq(AP!Blocks) /\ recognitions \subseteq SaveRequests
  BY DEF Session, AP!TypeOK, TypeOK
<1>s. saves \in Nat
  BY MaxSavesAssumption DEF TypeOK
<1>1. CASE Relaunch
  <2>1. recognitions' = {} /\ writes' = Restored /\ UNCHANGED <<saves, records>>
    BY <1>1 DEF Relaunch
  <2>2. \A b \in Finals : ~Held({b})'
    BY <1>1, SameRelaunch, LaunchLowersNothing DEF Relaunch, AP!Relaunch, Finals
  <2>3. OnScreen' /\ Transcribed'
    BY <2>1, <2>2 DEF OnScreen, Asked, Transcribed
  <2>4. Numbered'
    <3>1. /\ \A w \in Documents : w.request.save \in 1..saves
          /\ \A v \in writes, w \in records : v.request.save # w.request.save
          /\ \A v, w \in writes : v.request.save = w.request.save => v = w
          /\ \A v, w \in records : v.request.save = w.request.save => v = w
      BY DEF Saving, Numbered, OneRecordPerSave, Documents
    <3>2. /\ \A v \in writes' : \E w \in writes : v = [w EXCEPT !.heard = FALSE]
                                                  /\ v.request = w.request
      BY <2>1, RestoredWrites
    <3>3. \A v, w \in writes' : v.request.save = w.request.save => v = w
      <4> SUFFICES ASSUME NEW v \in writes', NEW w \in writes', v.request.save = w.request.save
                   PROVE v = w
        OBVIOUS
      <4>1. PICK x \in writes : v = [x EXCEPT !.heard = FALSE] /\ v.request = x.request
        BY <3>2
      <4>2. PICK y \in writes : w = [y EXCEPT !.heard = FALSE] /\ w.request = y.request
        BY <3>2
      <4>3. x = y
        BY <3>1, <4>1, <4>2
      <4> QED BY <4>1, <4>2, <4>3
    <3>4. \A v \in writes', w \in records' : v.request.save # w.request.save
      BY <2>1, <3>1, <3>2
    <3>5. \A w \in Documents' : w.request.save \in 1..saves'
      BY <2>1, <3>1, <3>2 DEF Documents
    <3> QED BY <2>1, <3>1, <3>3, <3>4, <3>5 DEF Numbered, OneRecordPerSave, Documents
  <2>5. UploadedAsAsked'
    BY <2>1, RestoredWrites DEF Saving, UploadedAsAsked, Documents
  <2> QED BY <2>3, <2>4, <2>5 DEF Saving
<1>2. CASE SessionGoesOn
  <2>1. \A b \in Finals : Held({b})' => Held({b})
    <3> SUFFICES ASSUME NEW b \in Finals PROVE Held({b})' => Held({b})
      OBVIOUS
    <3>1. \A c \in {b} : c.kind \notin AP!Kinds
      BY BlockKinds DEF OwnEnds
    <3> QED BY <1>2, <3>1, QueueOngoing DEF SessionGoesOn, Session
  <2>2. /\ UNCHANGED <<saves, recognitions, writes, records, recordName, time, audio>>
    BY <1>2 DEF SessionGoesOn, recorderVars, cloud
  <2>3. Busy /\ loaded =>
            loaded' /\ {currentUser', userID'} \subseteq {currentUser, userID, NoUser}
    BY <1>2, AP!CoveredStep, SessionAssumptions DEF SessionGoesOn, Session, Flows
  <2> QED BY <2>1, <2>2, <2>3, SavingFrame DEF Saving, Numbered, Documents
<1>3. CASE Elsewhere
  <2>1. OnRecordView => ~Busy
    BY NothingUnderWay DEF OnRecordView
  <2>2. /\ UNCHANGED <<mainQ, saves, recognitions, writes, records, loaded, currentUser, userID>>
        /\ Busy => UNCHANGED <<recordName, time, audio>>
    BY <1>3, <2>1 DEF Elsewhere, authVars, userVars, cloud
  <2>3. \A b \in Finals : Held({b})' => Held({b})
    BY <2>2 DEF Held
  <2> QED BY <2>2, <2>3, SavingFrame DEF Saving, Numbered, Documents
<1>4. CASE SaveRecord
  <2>1. ~Busy /\ A!Touchable /\ isSignedIn
    BY <1>4, NothingUnderWay DEF SaveRecord, OnRecordView
  <2>2. /\ UNCHANGED <<mainQ, writes, records, loaded, currentUser, userID, recordName, time, audio>>
        /\ saves' = saves + 1
        /\ recognitions' \subseteq recognitions \cup {Request}
    BY <1>4 DEF SaveRecord, R!ClosePrompt, R!tape, authVars, userVars, cloud
  <2>3. /\ \A b \in Finals : ~Held({b})'
        /\ \A q : Asked(q)' => q = Request
    <3>1. \A b \in Finals : ~Held({b}) /\ ~Held({b})'
      BY <2>1, <2>2, AskedIsBusy DEF Busy, Held
    <3> QED BY <2>1, <2>2, <3>1 DEF Asked, Busy
  <2>4. {currentUser, userID} \subseteq {NoUser, userID} /\ loaded
    <3>1. loaded /\ (observing => userID # NoUser) /\ (~observing => currentUser = NoUser)
      BY <2>1 DEF Session, AP!Quiet, AP!ShownWhenLoaded, AP!AllQuiet, AP!Known, AP!ShowsNobodyElse
    <3>2. userID # NoUser => currentUser \in {NoUser, userID}
      BY DEF Session, AP!Known, AP!ShowsNobodyElse
    <3> QED BY <3>1, <3>2
  <2>5. /\ Request.name = recordName /\ Request.time = time /\ Request.sound = audio
        /\ Request.owner = userID /\ Request.save = saves'
    BY DEF Request
  <2>6. saves' \in 1..saves' /\ \A w \in Documents : w.request.save \in 1..saves'
                                               /\ w.request.save # saves'
    BY <1>s, <2>2 DEF Saving, Numbered
  <2>7. Documents' = Documents
    BY <2>2 DEF Documents
  <2>8. OnScreen' /\ Transcribed'
    BY <2>2, <2>3, <2>4, <2>5, <2>6, <2>7 DEF OnScreen, AsOnScreen, Transcribed
  <2>9. Numbered' /\ UploadedAsAsked'
    BY <2>2, <2>6, <2>7 DEF Saving, Numbered, OneRecordPerSave, UploadedAsAsked
  <2> QED BY <2>8, <2>9 DEF Saving
<1>5. CASE SpeechReports
  <2>1. PICK request \in recognitions :
            \/ mainQ' = Append(mainQ, Report(request, "partial")) /\ UNCHANGED recognitions
            \/ /\ \E result \in {"final", "error"} :
                      mainQ' = Append(mainQ, Report(request, result))
               /\ recognitions' = recognitions \ {request}
    BY <1>5 DEF SpeechReports
  <2>2. /\ UNCHANGED <<saves, writes, records, loaded, currentUser, userID, recordName, time, audio>>
    BY <1>5 DEF SpeechReports, userVars, recorderVars, cloud
  <2>3. CASE mainQ' = Append(mainQ, Report(request, "partial")) /\ UNCHANGED recognitions
    <3>1. Report(request, "partial") \in AP!Blocks /\ Report(request, "partial") \notin Finals
      BY <1>0, Reports, BlockKinds
    <3>2. \A b \in Finals : Held({b})' => Held({b})
      BY <1>0, <2>3, <3>1, QueueAppended
    <3> QED BY <2>2, <2>3, <3>2, SavingFrame DEF Saving, Numbered, Documents
  <2>4. ASSUME NEW result \in {"final", "error"}, mainQ' = Append(mainQ, Report(request, result)),
               recognitions' = recognitions \ {request}
        PROVE Saving'
    <3>1. /\ Report(request, result) \in AP!Blocks
          /\ Report(request, result).request = request /\ Report(request, result).text = audio
      BY <1>0, Reports, BlockKinds
    <3>2. \A b \in Finals : Held({b})' => Held({b}) \/ b = Report(request, result)
      BY <1>0, <2>4, <3>1, QueueAppended
    <3>3. Asked(request) /\ request.sound = audio
      BY DEF Asked, Saving, OnScreen, AsOnScreen
    <3>4. Transcribed'
      BY <3>1, <3>2, <3>3 DEF Saving, Transcribed
    <3>5. \A q : Asked(q)' => Asked(q)
      BY <2>4, <3>1, <3>2, <3>3 DEF Asked
    <3>6. OnScreen'
      BY <2>2, <3>5 DEF Saving, OnScreen, AsOnScreen, Documents
    <3> QED BY <2>2, <3>4, <3>6 DEF Saving, Numbered, OneRecordPerSave, UploadedAsAsked, Documents
  <2> QED BY <2>1, <2>3, <2>4
<1>6. CASE WriteAnswered
  <2>1. PICK w \in writes, ok \in BOOLEAN :
            /\ writes' = writes \ {w}
            /\ records' = IF ok THEN records \cup {w} ELSE records
            /\ mainQ' = IF w.heard
                        THEN Append(mainQ, [kind |-> "written", user |-> NoUser, ok |-> ok])
                        ELSE mainQ
    BY <1>6 DEF WriteAnswered
  <2>2. \A b \in Finals : Held({b})' => Held({b})
    <3>1. [kind |-> "written", user |-> NoUser, ok |-> ok] \in AP!Blocks \ Finals
      BY BlockKinds DEF WrittenBlocks, Finals
    <3> QED BY <1>0, <2>1, <3>1, QueueAppended DEF Held
  <2>3. /\ UNCHANGED <<saves, recognitions, loaded, currentUser, userID, recordName, time, audio>>
    BY <1>6 DEF WriteAnswered, userVars, recorderVars
  <2>4. /\ writes' \subseteq writes /\ records' \subseteq Documents
        /\ \A v \in writes', u \in records' : v.request.save # u.request.save
    BY <2>1 DEF Saving, Numbered, OneRecordPerSave, Documents
  <2> QED BY <2>2, <2>3, <2>4, SavingFrame
<1>7. CASE SpeechCallback
  <2>1. /\ AP!MainTakes({"speech"}) /\ Held({Head(mainQ)})
        /\ Head(mainQ).result # "partial" => Head(mainQ) \in Finals
        /\ UNCHANGED <<saves, recognitions, loaded, currentUser, userID, recordName, time, audio>>
    BY <1>7, SpeechHead DEF SpeechCallback, Session, userVars, recorderVars
  <2>2. \A b \in Finals : Held({b})' => Held({b})
    BY <1>0, <2>1, QueueTaken
  <2>3. CASE UNCHANGED cloud
    BY <2>1, <2>2, <2>3, SavingFrame DEF cloud, Saving, Numbered, Documents
  <2>4. CASE /\ Head(mainQ).result = "final" /\ userID # NoUser /\ records' = records
             /\ writes' = writes \cup {NewDocument(Head(mainQ).request, Head(mainQ).text)}
    <3> DEFINE q == Head(mainQ).request
               new == NewDocument(q, Head(mainQ).text)
    <3>1. Head(mainQ) \in Finals /\ Asked(q) /\ Head(mainQ).text = q.sound
      BY <2>1, <2>4 DEF Asked, Saving, Transcribed
    <3>2. AsOnScreen(q)
      BY <3>1 DEF Saving, OnScreen
    <3>3. /\ new.request = q /\ new.path = userID /\ new.name = recordName /\ new.time = time
          /\ new.text = q.sound
      BY <3>1 DEF NewDocument
    <3>4. \A r : ~Asked(r)'
      <4>1. Held(OwnEnds) /\ Head(mainQ) \in OwnEnds
        BY <2>1, <3>1, AskedIsBusy DEF OwnEnds
      <4>2. recognitions' = {} /\ ~Held(OwnEnds)'
        BY <1>0, <2>1, <4>1, QueueTaken DEF Flows, OneSaving
      <4> QED BY <4>2 DEF Asked, Held, OwnEnds
    <3>5. Documents' = Documents \cup {new}
      BY <2>4 DEF Documents
    <3>6. Numbered'
      BY <2>1, <2>4, <3>2, <3>3, <3>5
         DEF Saving, Numbered, OneRecordPerSave, AsOnScreen, Documents
    <3>7. UploadedAsAsked'
      <4>1. userID = q.owner
        BY <2>4, <3>2 DEF AsOnScreen
      <4> QED BY <3>2, <3>3, <3>5, <4>1 DEF Saving, UploadedAsAsked, AsOnScreen
    <3>8. OnScreen' /\ Transcribed'
      BY <2>2, <3>4 DEF OnScreen, Saving, Transcribed
    <3> QED BY <3>6, <3>7, <3>8 DEF Saving
  <2> QED BY <1>7, <2>3, <2>4, UploadsOne
<1>8. CASE WriteCallback
  <2>1. \A b \in Finals : Held({b})' => Held({b})
    BY <1>0, <1>8, WrittenHead, QueueTaken DEF WriteCallback, Session
  <2>2. /\ UNCHANGED <<saves, recognitions, writes, records, loaded, currentUser, userID, recordName,
                       time, audio>>
    BY <1>8 DEF WriteCallback, userVars, recorderVars, cloud
  <2> QED BY <2>1, <2>2, SavingFrame DEF Saving, Numbered, Documents
<1> QED BY <1>1, <1>2, <1>3, <1>4, <1>5, <1>6, <1>7, <1>8, Steps

(***************************************************************************)
(* What follows, whether or not the server ends sessions.                  *)
(***************************************************************************)

LEMMA Always == Spec => [](TypeOK /\ Session /\ Flows /\ Saving)
<1>1. Init => TypeOK /\ Session /\ Flows /\ Saving
  BY TypeInit, FlowsInit, SavingInit
<1>2. TypeOK /\ Session /\ Flows /\ Saving /\ [Next]_vars => (TypeOK /\ Session /\ Flows /\ Saving)'
  BY TypeStep, SessionStep, FlowsStep, SavingStep
<1> QED BY <1>1, <1>2, PTL DEF Spec

\* The state of the whole app has its types, for any users, names and bounds: the session's blocks
\* and those of the recognizer and of Firestore share the main queue, and documents hold what
\* RecordViewModel gave them.
THEOREM TypeCorrect == Spec => []TypeOK
BY Always, PTL

\* A set with at most one element.
LEMMA AtMostOne ==
    ASSUME NEW S, \A x, y \in S : x = y
    PROVE (S = {} /\ Cardinality(S) = 0) \/ (S # {} /\ Cardinality(S) = 1)
<1>1. CASE S = {}
  BY <1>1, FS_EmptySet
<1>2. CASE S # {}
  <2>1. PICK x \in S : TRUE
    BY <1>2
  <2>2. S = {x}
    BY <2>1
  <2> QED BY <1>2, <2>2, FS_Singleton
<1> QED BY <1>1, <1>2

\* One overlay is enough for sign-in, sign-up, recognition and upload: at most one of them is
\* under way and the overlay of LandingViewModel is up for all of it, whatever the
\* recognizer, Firestore, FIRAuth and the user do in whatever order.
THEOREM OneFlow == Spec => []OneFlowUnderTheOverlay
<1>1. TypeOK /\ Session /\ Flows => OneFlowUnderTheOverlay
  <2> SUFFICES ASSUME TypeOK, Session, Flows PROVE FlowsUnderWay <= 1 /\ (FlowsUnderWay = 1 => isLoading)
    BY DEF OneFlowUnderTheOverlay
  <2> DEFINE ends == {i \in 1..Len(mainQ) : Ends(mainQ[i])}
             sent == inFlight["signIn"] + inFlight["signUp"]
  <2>1. /\ AP!Unanswered = sent /\ sent \in Nat
        /\ mainQ \in Seq(AP!Blocks)
    BY AP!UnansweredIsANumber, SessionAssumptions DEF Session, AP!TypeOK, AP!Unanswered
  <2>2. \A i \in 1..Len(mainQ) :
            Ends(mainQ[i]) <=> mainQ[i].kind \in AP!Requests \/ mainQ[i] \in OwnEnds
    <3>1. \A i \in 1..Len(mainQ) : mainQ[i] \in AP!Blocks
      BY <2>1
    <3>2. A!Requests = AP!Requests
      BY DEF A!Requests, AP!Requests
    <3> QED BY <3>1, <3>2, BlockKinds DEF Ends
  <2>3. CASE Busy
    <3>1. sent = 0 /\ isLoading /\ ~AP!Pending(AP!Requests)
      BY <2>1, <2>3 DEF Flows, AP!Covered
    <3>2. ends = {i \in 1..Len(mainQ) : mainQ[i] \in OwnEnds}
      BY <2>2, <3>1 DEF AP!Pending
    <3>3. /\ \A i, j \in ends : i = j
          /\ ends # {} <=> Held(OwnEnds)
      BY <3>2 DEF Flows, OneSaving, Lone, Held
    <3>4. /\ (ends = {} /\ Cardinality(ends) = 0) \/ (ends # {} /\ Cardinality(ends) = 1)
      BY <3>3, AtMostOne
    <3>5. \/ recognitions = {} /\ Cardinality(recognitions) = 0
          \/ recognitions # {} /\ Cardinality(recognitions) = 1
      BY AtMostOne DEF Flows, OneSaving
    <3>6. (Waiting = {} /\ Cardinality(Waiting) = 0) \/ (Waiting # {} /\ Cardinality(Waiting) = 1)
      BY AtMostOne DEF Flows, OneSaving
    <3>7. Cardinality(ends) + Cardinality(recognitions) + Cardinality(Waiting) = 1
      BY <2>3, <3>3, <3>4, <3>5, <3>6 DEF Flows, OneSaving, Busy
    <3>8. FlowsUnderWay = sent + Cardinality(ends) + Cardinality(recognitions) + Cardinality(Waiting)
      BY DEF FlowsUnderWay
    <3> QED BY <3>1, <3>4, <3>5, <3>6, <3>7, <3>8
  <2>4. CASE ~Busy
    <3>1. Cardinality(recognitions) = 0 /\ Cardinality(Waiting) = 0 /\ ~Held(OwnEnds)
      BY <2>4, FS_EmptySet DEF Busy
    <3>2. ends = {i \in 1..Len(mainQ) : mainQ[i].kind \in AP!Requests}
      BY <2>2, <3>1 DEF Held
    <3>3. /\ \A i, j \in ends : i = j
          /\ ends # {} <=> AP!Pending(AP!Requests)
      BY <3>2 DEF Session, AP!OneRequest, AP!LoneCompletion, AP!Pending
    <3>4. (ends = {} /\ Cardinality(ends) = 0) \/ (ends # {} /\ Cardinality(ends) = 1)
      BY <3>3, AtMostOne
    <3>5. sent <= 1 /\ (sent = 1 => isLoading /\ ends = {}) /\ (ends # {} => isLoading)
      BY <2>1, <3>3 DEF Session, AP!OneRequest
    <3>6. FlowsUnderWay = sent + Cardinality(ends) + 0 + 0
      BY <3>1 DEF FlowsUnderWay
    <3> QED BY <2>1, <3>4, <3>5, <3>6
  <2> QED BY <2>3, <2>4
<1> QED BY <1>1, Always, PTL

\* RecordViewModel uploads a take at most once for a tap on Save: partial results are not uploaded,
\* and a write that outlives the process is not made again, whatever the bounds.
THEOREM NoSaveTwice == Spec => []OneRecordPerSave
<1>1. Saving => OneRecordPerSave
  BY DEF Saving, Numbered
<1> QED BY <1>1, Always, PTL

\* The recognition callback reads the user, the name and the time when it is called, and the
\* recognizer the file while it works; the record it uploads is the one that was on the screen
\* at Save all the same, also when the server ends the session meanwhile.
THEOREM UploadsWhatWasAsked == Spec => []UploadedAsAsked
<1>1. Saving => UploadedAsAsked
  BY DEF Saving
<1> QED BY <1>1, Always, PTL

(***************************************************************************)
(* Sessions that the server leaves alone.                                  *)
(***************************************************************************)

\* What is known of them is kept with recordings, recognitions and uploads going on.
LEMMA LastingStep ==
    ASSUME ~Revocable
    PROVE TypeOK /\ Session /\ Flows /\ AP!Lasting /\ AP!Announces /\ [Next]_vars
              => AP!Lasting' /\ AP!Announces'
<1> SUFFICES ASSUME TypeOK, Session, Flows, AP!Lasting, AP!Announces, [Next]_vars
             PROVE AP!Lasting' /\ AP!Announces'
  OBVIOUS
<1>1. CASE Relaunch
  BY <1>1, SameRelaunch, AP!LastingRelaunch, AP!AnnouncesRelaunch, SessionAssumptions
     DEF Relaunch, Session
<1>2. CASE SessionGoesOn
  <2>1. AP!Next
    BY <1>2 DEF SessionGoesOn, AP!Ongoing, AP!Next
  <2> QED BY <1>2, <2>1, AP!LastingStep, AP!AnnouncesStep, SessionAssumptions
          DEF SessionGoesOn, Session
<1>3. CASE AP!Beside
  <2>1. Crashes \cap {"nil user in listener", "user id is null"} = {}
    BY DEF Crashes
  <2> QED BY <1>3, <2>1, AP!BesideLasting, AP!AnnouncesBeside, SessionAssumptions DEF Session
<1> QED BY <1>1, <1>2, <1>3, Steps, BesideTheSession

LEMMA LastingAlways ==
    ASSUME ~Revocable
    PROVE Spec => [](TypeOK /\ Session /\ Flows /\ AP!Lasting /\ AP!Announces)
<1>1. Init => AP!Lasting /\ AP!Announces
  BY SameInit, AP!LastingInit, AP!AnnouncesInit, SessionAssumptions DEF Init
<1> QED BY <1>1, TypeInit, FlowsInit, TypeStep, SessionStep, FlowsStep, LastingStep, PTL DEF Spec

\* FirestoreService, the screen and FIRAuth agree once everything was announced, with the
\* blocks of the recognizer and of Firestore between the announcements, for any users.
THEOREM ScreenAgrees == ASSUME ~Revocable PROVE Spec => []Agreement
<1>1. Session /\ AP!Lasting => Agreement
  BY AP!LastingAgrees, SessionAssumptions
     DEF Session, Agreement, A!Agreement, AP!Agreement, A!Settled, AP!Settled, A!Running,
         AP!Running, A!Pending, AP!Pending
<1> QED BY <1>1, LastingAlways, PTL

\* A sign-in or sign-up that reports success finds the screen switched, also when Firestore
\* and the recognizer use the main queue and the overlay, for any users.
THEOREM NoFormAfterSuccess == ASSUME ~Revocable PROVE Spec => []NoSignInFormAfterSuccess
<1>1. Session /\ AP!Lasting => NoSignInFormAfterSuccess
  BY AP!LastingShowsFirst, SessionAssumptions
     DEF Session, NoSignInFormAfterSuccess, A!NoSignInFormAfterSuccess,
         AP!NoSignInFormAfterSuccess, A!Running, AP!Running, A!Requests, AP!Requests
<1> QED BY <1>1, LastingAlways, PTL

\* Neither the listener's nor signUp's second read of the current user ends the process, in the
\* whole app, for any users.
THEOREM OnlySignOutDies == ASSUME ~Revocable PROVE Spec => []OnlySignOutCrashes
<1>1. AP!Lasting => OnlySignOutCrashes
  BY DEF AP!Lasting, AP!OnlySignOutCrashes, OnlySignOutCrashes, A!OnlySignOutCrashes
<1> QED BY <1>1, LastingAlways, PTL

(***************************************************************************)
(* Whose takes are whose.  The screen of a signed-in user is there from    *)
(* the first recording to the last callback, and while it is, a user who   *)
(* has one stays the same; Firestore hears of the user before anything can *)
(* be uploaded.                                                            *)
(***************************************************************************)

\* Whoever records, saves or waits for the recognizer sees the record view.
OnTheScreen == Prompted \/ recognitions # {} \/ Held(SpeechBlocks) => isSignedIn

\* The take there is was recorded by the user there is.
TakenByTheUser == Prompted /\ userID # NoUser => recordedBy = userID

AskedByTheOwner == \A q : Asked(q) => q.owner \in {q.by, NoUser}

\* An announcement comes before every report of the recognizer.
AnnouncedSoon ==
    \E i \in 1..Len(mainQ) :
        mainQ[i].kind = "notify" /\ \A j \in 1..Len(mainQ) : j < i => mainQ[j].kind # "speech"

KnowsTheUser == observing /\ currentUser # NoUser => credential = currentUser \/ AnnouncedSoon

Documented == OwnTakesOnly /\ QueuedForItsOwner /\ EmptyPathOnlyAfterSignOut

Owned == OnTheScreen /\ TakenByTheUser /\ AskedByTheOwner /\ KnowsTheUser /\ Documented

\* An announcement that comes soon still does after one more block, or after another one.
LEMMA SoonAppended ==
    ASSUME mainQ \in Seq(AP!Blocks), NEW b \in AP!Blocks, mainQ' = Append(mainQ, b), AnnouncedSoon
    PROVE AnnouncedSoon'
<1>1. PICK i \in 1..Len(mainQ) :
          mainQ[i].kind = "notify" /\ \A j \in 1..Len(mainQ) : j < i => mainQ[j].kind # "speech"
  BY DEF AnnouncedSoon
<1>2. /\ Len(mainQ) \in Nat /\ Len(mainQ') = Len(mainQ) + 1
      /\ \A j \in 1..Len(mainQ) : j \in 1..Len(mainQ') /\ mainQ'[j] = mainQ[j]
      /\ \A j \in 1..Len(mainQ') : j < i => j \in 1..Len(mainQ)
  BY <1>1
<1> QED BY <1>1, <1>2 DEF AnnouncedSoon

LEMMA SoonTaken ==
    ASSUME mainQ \in Seq(AP!Blocks), NEW kinds, AP!MainTakes(kinds), "notify" \notin kinds,
           AnnouncedSoon
    PROVE AnnouncedSoon' /\ kinds # {"speech"}
<1>1. PICK i \in 1..Len(mainQ) :
          mainQ[i].kind = "notify" /\ \A j \in 1..Len(mainQ) : j < i => mainQ[j].kind # "speech"
  BY DEF AnnouncedSoon
<1>2. /\ Len(mainQ) \in Nat \ {0} /\ Len(mainQ') = Len(mainQ) - 1
      /\ \A j \in 1..Len(mainQ') : mainQ'[j] = mainQ[j + 1]
      /\ mainQ[1].kind \in kinds
  BY DEF AP!MainTakes
<1>3. i \in 2..Len(mainQ) /\ i - 1 \in 1..Len(mainQ') /\ mainQ'[i - 1] = mainQ[i] /\ 1 < i
  BY <1>1, <1>2
<1>4. \A j \in 1..Len(mainQ') : j < i - 1 => j + 1 \in 1..Len(mainQ) /\ j + 1 < i
  BY <1>2, <1>3
<1>5. AnnouncedSoon'
  BY <1>1, <1>2, <1>3, <1>4 DEF AnnouncedSoon
<1> QED BY <1>1, <1>2, <1>3, <1>5

\* The only announcement there is comes soon when the recognizer has nothing on the queue.
LEMMA SoonAnnounced ==
    ASSUME mainQ \in Seq(AP!Blocks), AP!Pending({"notify"}), ~Held(SpeechBlocks)
    PROVE AnnouncedSoon
<1>1. PICK i \in 1..Len(mainQ) : mainQ[i].kind = "notify"
  BY DEF AP!Pending
<1>2. \A j \in 1..Len(mainQ) : mainQ[j].kind # "speech"
  BY BlockKinds DEF Held
<1> QED BY <1>1, <1>2 DEF AnnouncedSoon

\* What is asked for was asked for before, or is now.
LEMMA AskedStep ==
    ASSUME TypeOK, Session, Flows, [Next]_vars
    PROVE \A q : Asked(q)' => Asked(q) \/ (SaveRecord /\ q = Request)
<1>0. mainQ \in Seq(AP!Blocks) /\ recognitions \subseteq SaveRequests
  BY DEF Session, AP!TypeOK, TypeOK
<1>f. ASSUME recognitions' \subseteq recognitions, \A b \in Finals : Held({b})' => Held({b})
      PROVE \A q : Asked(q)' => Asked(q)
  BY <1>f DEF Asked
<1>1. CASE Relaunch
  BY <1>1, <1>f, SameRelaunch, LaunchLowersNothing DEF Relaunch, AP!Relaunch, Finals
<1>2. CASE SessionGoesOn
  <2>1. ASSUME NEW b \in Finals PROVE Held({b})' => Held({b})
    <3>1. \A c \in {b} : c.kind \notin AP!Kinds
      BY BlockKinds DEF OwnEnds
    <3> QED BY <1>2, <3>1, QueueOngoing DEF SessionGoesOn, Session
  <2> QED BY <1>2, <1>f, <2>1 DEF SessionGoesOn
<1>3. CASE Elsewhere
  BY <1>3, <1>f DEF Elsewhere, authVars, Held
<1>4. CASE SaveRecord
  BY <1>4 DEF SaveRecord, authVars, Held, Asked
<1>5. CASE SpeechReports
  <2>1. PICK request \in recognitions, result \in {"partial", "final", "error"} :
            /\ mainQ' = Append(mainQ, Report(request, result))
            /\ recognitions' \subseteq recognitions
    BY <1>5 DEF SpeechReports
  <2>2. Report(request, result) \in AP!Blocks /\ Report(request, result).request = request
    BY <1>0, Reports, BlockKinds
  <2>3. \A b \in Finals : Held({b})' => Held({b}) \/ b.request = request
    BY <1>0, <2>1, <2>2, QueueAppended
  <2> QED BY <2>1, <2>3 DEF Asked
<1>6. CASE WriteAnswered
  <2>1. PICK w \in writes, ok \in BOOLEAN :
            mainQ' = IF w.heard
                     THEN Append(mainQ, [kind |-> "written", user |-> NoUser, ok |-> ok])
                     ELSE mainQ
    BY <1>6 DEF WriteAnswered
  <2>2. [kind |-> "written", user |-> NoUser, ok |-> ok] \in AP!Blocks \ Finals
    BY BlockKinds DEF WrittenBlocks, Finals
  <2>3. \A b \in Finals : Held({b})' => Held({b})
    BY <1>0, <2>1, <2>2, QueueAppended DEF Held
  <2> QED BY <1>6, <1>f, <2>3 DEF WriteAnswered
<1>7. CASE SpeechCallback
  BY <1>0, <1>7, <1>f, SpeechHead, QueueTaken DEF SpeechCallback, Session
<1>8. CASE WriteCallback
  BY <1>0, <1>8, <1>f, WrittenHead, QueueTaken DEF WriteCallback, Session
<1> QED BY <1>1, <1>2, <1>3, <1>4, <1>5, <1>6, <1>7, <1>8, Steps

\* A launch offers no take, and Firestore hears of the stored user first if it does not know it.
LEMMA LaunchKnowsTheUser ==
    /\ \A u, q : q \in AP!LaunchQueues(u) => \A i \in 1..Len(q) : q[i].kind \in {"initial", "notify"}
    /\ \A u, q : q \in AP!LaunchQueues(u) /\ Len(q) # 1 => 1 \in 1..Len(q) /\ q[1].kind = "notify"
<1>1. ASSUME NEW u, NEW q \in AP!LaunchQueues(u)
      PROVE \A i \in 1..Len(q) : q[i].kind \in {"initial", "notify"}
  BY DEF AP!LaunchQueues, AP!Block
<1>2. ASSUME NEW u, NEW q \in AP!LaunchQueues(u), Len(q) # 1
      PROVE 1 \in 1..Len(q) /\ q[1].kind = "notify"
  BY <1>2 DEF AP!LaunchQueues, AP!Block
<1> QED BY <1>1, <1>2

LEMMA OwnedInit == Init => Owned
<1> SUFFICES ASSUME Init PROVE Owned
  OBVIOUS
<1>1. AP!Init /\ mainQ \in AP!LaunchQueues(currentUser)
  BY SameInit DEF Init, AP!Init
<1>2. \A i \in 1..Len(mainQ) : mainQ[i].kind \in {"initial", "notify"}
  BY <1>1, LaunchKnowsTheUser
<1>3. ~Held(SpeechBlocks) /\ \A b \in Finals : ~Held({b})
  BY <1>2 DEF Held, Finals, SpeechBlocks
<1>4. ~Prompted /\ recognitions = {} /\ Documents = {} /\ crash = "none"
  BY DEF Init, R!Init, Prompted, Documents
<1>5. KnowsTheUser
  <2>1. CASE Len(mainQ) = 1
    BY <2>1 DEF Init, CredentialAtLaunch, KnowsTheUser
  <2>2. CASE Len(mainQ) # 1
    <3>1. 1 \in 1..Len(mainQ) /\ mainQ[1].kind = "notify" /\ \A j \in 1..Len(mainQ) : ~(j < 1)
      BY <1>1, <2>2, LaunchKnowsTheUser
    <3> QED BY <3>1 DEF KnowsTheUser, AnnouncedSoon
  <2> QED BY <2>1, <2>2
<1> QED BY <1>3, <1>4, <1>5 DEF Owned, OnTheScreen, TakenByTheUser, AskedByTheOwner, Asked, Documented,
           OwnTakesOnly, QueuedForItsOwner, EmptyPathOnlyAfterSignOut

\* Steps of the rest of the app that neither offer a new take nor upload one.
LEMMA OwnedFrame ==
    ASSUME Owned, UNCHANGED <<observing, currentUser, userID, isSignedIn, recordedBy, credential>>,
           Prompted' => Prompted, \A q : Asked(q)' => Asked(q),
           recognitions' \subseteq recognitions,
           Held(SpeechBlocks)' => Held(SpeechBlocks) \/ recognitions # {},
           AnnouncedSoon => AnnouncedSoon' \/ credential = currentUser,
           Documents' \subseteq Documents,
           crash' = "empty document path" => crash = crash' \/ ~observing
    PROVE Owned'
<1>1. OnTheScreen' /\ TakenByTheUser'
  BY DEF Owned, OnTheScreen, TakenByTheUser
<1>2. AskedByTheOwner' /\ KnowsTheUser'
  BY DEF Owned, AskedByTheOwner, KnowsTheUser
<1>3. Documented'
  BY DEF Owned, Documented, OwnTakesOnly, QueuedForItsOwner, EmptyPathOnlyAfterSignOut
<1> QED BY <1>1, <1>2, <1>3 DEF Owned

\* A launch.
LEMMA OwnedRelaunch ==
    ASSUME TypeOK, Session, Flows, Owned, Relaunch
    PROVE Owned'
<1>1. /\ mainQ' \in AP!LaunchQueues(currentUser') /\ recognitions' = {} /\ ~Prompted'
      /\ writes' = Restored /\ records' = records /\ crash' = "none"
      /\ credential' \in CredentialAtLaunch(currentUser', mainQ')
  BY SameRelaunch DEF Relaunch, AP!Relaunch, R!Relaunch, Prompted
<1>2. ~Held(SpeechBlocks)' /\ \A b \in Finals : ~Held({b})'
  BY <1>1, LaunchLowersNothing DEF Finals
<1>3. KnowsTheUser'
  <2>1. CASE Len(mainQ') = 1
    BY <1>1, <2>1 DEF CredentialAtLaunch, KnowsTheUser
  <2>2. CASE Len(mainQ') # 1
    <3>1. 1 \in 1..Len(mainQ') /\ mainQ'[1].kind = "notify" /\ \A j \in 1..Len(mainQ') : ~(j < 1)
      BY <1>1, <2>2, LaunchKnowsTheUser
    <3> QED BY <3>1 DEF KnowsTheUser, AnnouncedSoon
  <2> QED BY <2>1, <2>2
<1>4. Documented'
  <2>1. \A v \in Documents' : \E w \in Documents : v.path = w.path /\ v.request = w.request
                                                /\ v.account = w.account
    BY <1>1, RestoredWrites DEF Documents
  <2>2. OwnTakesOnly'
    BY <2>1 DEF Owned, Documented, OwnTakesOnly
  <2>3. QueuedForItsOwner'
    BY <2>1 DEF Owned, Documented, QueuedForItsOwner
  <2> QED BY <1>1, <2>2, <2>3 DEF Documented, EmptyPathOnlyAfterSignOut
<1> QED BY <1>1, <1>2, <1>3, <1>4 DEF Owned, OnTheScreen, TakenByTheUser, AskedByTheOwner, Asked

\* The session goes on: whoever is on the screen stays, and who comes is announced to Firestore
\* before there is anything to upload.
LEMMA OwnedGoesOn ==
    ASSUME ~Revocable, TypeOK, Session, Flows, AP!Lasting, AP!Announces, Owned,
           \A q : Asked(q)' => Asked(q), SessionGoesOn
    PROVE Owned'
<1>0. mainQ \in Seq(AP!Blocks) /\ AP!Ongoing
  BY DEF Session, AP!TypeOK, SessionGoesOn
<1>1. /\ UNCHANGED <<recognitions, recordedBy>> /\ Prompted' = Prompted /\ Documents' = Documents
  BY DEF SessionGoesOn, recorderVars, cloud, Prompted, Documents
<1>2. Held(SpeechBlocks)' <=> Held(SpeechBlocks)
  BY <1>0, QueueOngoing, SessionAssumptions DEF Session
<1>3. isSignedIn => isSignedIn' /\ userID' \in {userID, NoUser}
  BY <1>0, AP!StaysShown, SessionAssumptions DEF Session
<1>4. OnTheScreen' /\ TakenByTheUser'
  BY <1>1, <1>2, <1>3 DEF Owned, OnTheScreen, TakenByTheUser
<1>5. observing' \in {observing, FALSE}
      /\ crash' \in {crash, "nil user in listener", "user id is null", "sign out failed"}
  BY <1>0, AP!OngoingEnds, SessionAssumptions
<1>6. Documented'
  <2>1. OwnTakesOnly' /\ QueuedForItsOwner'
    BY <1>1 DEF Owned, Documented, OwnTakesOnly, QueuedForItsOwner
  <2>2. crash' = "empty document path" => crash' = crash
    BY <1>5
  <2>3. EmptyPathOnlyAfterSignOut'
    BY <1>5, <2>2 DEF Owned, Documented, EmptyPathOnlyAfterSignOut
  <2> QED BY <2>1, <2>3 DEF Documented
<1>7. ASSUME observing', currentUser' # NoUser PROVE credential' = currentUser' \/ AnnouncedSoon'
  <2>1. CASE currentUser' # currentUser
    <3>1. ~isSignedIn /\ AP!Pending({"notify"})'
      BY <1>0, <1>7, <2>1, AP!SessionBegins, SessionAssumptions DEF Session
    <3>2. ~Held(SpeechBlocks)'
      BY <1>2, <3>1 DEF Owned, OnTheScreen
    <3>3. mainQ' \in Seq(AP!Blocks)
      BY <1>0, AP!TypeStep, SessionAssumptions DEF Session, AP!Ongoing, AP!Next, AP!TypeOK
    <3>4. AP!Pending({"notify"})' /\ mainQ' \in Seq(AP!Blocks) /\ ~Held(SpeechBlocks)'
              => AnnouncedSoon'
      <4> SUFFICES ASSUME AP!Pending({"notify"})', mainQ' \in Seq(AP!Blocks), ~Held(SpeechBlocks)'
                   PROVE AnnouncedSoon'
        OBVIOUS
      <4>1. PICK i \in 1..Len(mainQ') : mainQ'[i].kind = "notify"
        BY DEF AP!Pending
      <4>2. \A j \in 1..Len(mainQ') : mainQ'[j].kind # "speech"
        BY BlockKinds DEF Held
      <4> QED BY <4>1, <4>2 DEF AnnouncedSoon
    <3> QED BY <3>1, <3>2, <3>3, <3>4
  <2>2. CASE currentUser' = currentUser /\ AP!RunNotify /\ credential' = Head(mainQ).user
    <3>1. AP!MainTakes({"notify"})
      BY <2>2 DEF AP!RunNotify
    <3>2. 1 \in 1..Len(mainQ) /\ Head(mainQ) = mainQ[1] /\ mainQ[1].kind = "notify"
      BY <1>0, <3>1 DEF AP!MainTakes
    <3> QED BY <1>5, <1>7, <2>2, <3>2 DEF AP!Announces
  <2>3. CASE currentUser' = currentUser /\ AP!Untold /\ UNCHANGED credential
    <3>1. CASE credential = currentUser
      BY <2>3, <3>1
    <3>2. CASE AnnouncedSoon
      <4>1. CASE UNCHANGED mainQ
        BY <3>2, <4>1 DEF AnnouncedSoon
      <4>2. CASE \E b \in AP!Blocks : mainQ' = Append(mainQ, b)
        BY <1>0, <3>2, <4>2, SoonAppended
      <4>3. ASSUME NEW b \in AP!Blocks, NEW c \in AP!Blocks, mainQ' = Append(Append(mainQ, b), c)
            PROVE AnnouncedSoon'
        <5>1. PICK i \in 1..Len(mainQ) :
                  /\ mainQ[i].kind = "notify"
                  /\ \A j \in 1..Len(mainQ) : j < i => mainQ[j].kind # "speech"
          BY <3>2 DEF AnnouncedSoon
        <5>2. /\ Len(mainQ) \in Nat /\ Len(mainQ') = Len(mainQ) + 2
              /\ \A j \in 1..Len(mainQ) : j \in 1..Len(mainQ') /\ mainQ'[j] = mainQ[j]
              /\ \A j \in 1..Len(mainQ') : j < i => j \in 1..Len(mainQ)
          BY <1>0, <4>3, <5>1
        <5> QED BY <5>1, <5>2 DEF AnnouncedSoon
      <4>4. CASE \E kinds \in SUBSET (AP!Kinds \ {"notify"}) : AP!MainTakes(kinds)
        BY <1>0, <3>2, <4>4, SoonTaken
      <4> QED BY <2>3, <4>1, <4>2, <4>3, <4>4, AP!UntoldQueue, SessionAssumptions DEF Session
    <3> QED BY <1>5, <1>7, <2>3, <3>1, <3>2 DEF Owned, KnowsTheUser
  <2> QED BY <2>1, <2>2, <2>3 DEF SessionGoesOn
<1>8. KnowsTheUser'
  BY <1>7 DEF KnowsTheUser
<1>9. AskedByTheOwner'
  BY DEF Owned, AskedByTheOwner
<1> QED BY <1>4, <1>6, <1>8, <1>9 DEF Owned

\* What is uploaded: the user is on the screen, is the one who recorded and asked, and Firestore
\* knows.
LEMMA OwnedUploads ==
    ASSUME TypeOK, Session, Flows, Saving, AP!Lasting, Owned, SpeechCallback,
           \A q : Asked(q)' => Asked(q)
    PROVE Owned'
<1>0. /\ mainQ \in Seq(AP!Blocks) /\ AP!MainTakes({"speech"}) /\ Head(mainQ) \in SpeechBlocks
      /\ Held({Head(mainQ)})
      /\ Head(mainQ).result # "partial" => Head(mainQ) \in Finals
  BY SpeechHead DEF SpeechCallback, Session
<1>1. /\ UNCHANGED <<observing, currentUser, userID, isSignedIn, recordedBy, credential, recognitions>>
      /\ Prompted' = Prompted
  BY DEF SpeechCallback, userVars, recorderVars, Prompted
<1>2. Held(SpeechBlocks)' => Held(SpeechBlocks)
  BY <1>0, QueueTaken
<1>3. ~AnnouncedSoon
  BY <1>0, SoonTaken
<1>4. isSignedIn
  BY <1>0 DEF Owned, OnTheScreen, Held
<1>5. userID # NoUser => observing /\ userID = currentUser /\ credential = currentUser
  BY <1>3 DEF Session, AP!Quiet, AP!AllQuiet, AP!Lasting, AP!Shown, Owned, KnowsTheUser
<1>6. observing => userID # NoUser
  BY <1>4 DEF AP!Lasting, AP!Shown
<1>7. CASE UNCHANGED cloud
  <2>1. crash' = "empty document path" => crash = crash' \/ ~observing
    BY <1>6 DEF SpeechCallback, UploadRecord, A!FinishRequest
  <2>2. Documents' = Documents
    BY <1>7 DEF cloud, Documents
  <2> QED BY <1>1, <1>2, <1>3, <2>1, <2>2, OwnedFrame
<1>8. CASE /\ Head(mainQ).result = "final" /\ records' = records /\ userID # NoUser
           /\ writes' = writes \cup {NewDocument(Head(mainQ).request, Head(mainQ).text)}
           /\ UNCHANGED crash
  <2> DEFINE q == Head(mainQ).request
             new == NewDocument(q, Head(mainQ).text)
  <2>1. Asked(q)
    BY <1>0, <1>8 DEF Asked
  <2>2. userID = q.owner /\ q.owner = q.by
    BY <1>8, <2>1 DEF Saving, OnScreen, AsOnScreen, Owned, AskedByTheOwner
  <2>3. new.path = userID /\ new.account = credential /\ new.request = q
    BY DEF NewDocument
  <2>4. Documents' = Documents \cup {new}
    BY <1>8 DEF Documents
  <2>5. OwnTakesOnly'
    BY <2>2, <2>3, <2>4 DEF Owned, Documented, OwnTakesOnly
  <2>6. QueuedForItsOwner'
    BY <1>5, <1>8, <2>3, <2>4 DEF Owned, Documented, QueuedForItsOwner
  <2>7. EmptyPathOnlyAfterSignOut'
    BY <1>1, <1>8 DEF Owned, Documented, EmptyPathOnlyAfterSignOut
  <2>8. OnTheScreen' /\ TakenByTheUser'
    BY <1>1, <1>2 DEF Owned, OnTheScreen, TakenByTheUser
  <2>9. AskedByTheOwner' /\ KnowsTheUser'
    BY <1>1, <1>3 DEF Owned, AskedByTheOwner, KnowsTheUser
  <2> QED BY <2>5, <2>6, <2>7, <2>8, <2>9 DEF Owned, Documented
<1> QED BY <1>7, <1>8, UploadsOne

LEMMA OwnedStep ==
    ASSUME ~Revocable
    PROVE TypeOK /\ Session /\ Flows /\ Saving /\ AP!Lasting /\ AP!Announces /\ Owned /\ [Next]_vars
              => Owned'
<1> SUFFICES ASSUME TypeOK, Session, Flows, Saving, AP!Lasting, AP!Announces, Owned, [Next]_vars
             PROVE Owned'
  OBVIOUS
<1>0. mainQ \in Seq(AP!Blocks) /\ recognitions \subseteq SaveRequests
  BY DEF Session, AP!TypeOK, TypeOK
<1>a. ~SaveRecord => \A q : Asked(q)' => Asked(q)
  BY AskedStep
<1>1. CASE Relaunch
  BY <1>1, OwnedRelaunch
<1>2. CASE SessionGoesOn /\ ~SaveRecord
  BY <1>2, <1>a, OwnedGoesOn
<1>3. CASE Elsewhere /\ ~SaveRecord
  <2>1. /\ UNCHANGED <<observing, currentUser, userID, isSignedIn, credential, recognitions, mainQ,
                       writes, records>>
    BY <1>3 DEF Elsewhere, authVars, userVars, cloud
  <2>2. Prompted' => \/ Prompted /\ UNCHANGED recordedBy
                     \/ OnRecordView /\ recordedBy' = userID
    BY <1>3 DEF Elsewhere
  <2>3. OnTheScreen' /\ TakenByTheUser'
    BY <2>1, <2>2 DEF Owned, OnTheScreen, TakenByTheUser, OnRecordView, Held
  <2>4. AskedByTheOwner' /\ KnowsTheUser'
    BY <1>3, <1>a, <2>1 DEF Owned, AskedByTheOwner, KnowsTheUser, AnnouncedSoon
  <2>5. crash' = "empty document path" => crash' = crash
    BY <1>3 DEF Elsewhere
  <2>6. Documented'
    BY <2>1, <2>5 DEF Owned, Documented, OwnTakesOnly, QueuedForItsOwner,
       EmptyPathOnlyAfterSignOut, Documents
  <2> QED BY <2>3, <2>4, <2>6 DEF Owned
<1>4. CASE SaveRecord
  <2>1. /\ UNCHANGED <<observing, currentUser, userID, isSignedIn, credential, recordedBy, mainQ,
                       writes, records, audioRecorder, crash>>
        /\ promptAction /\ ~promptAction' /\ isSignedIn
    BY <1>4 DEF SaveRecord, OnRecordView, R!ClosePrompt, authVars, userVars, cloud
  <2>2. Request.owner = userID /\ Request.by = recordedBy
    BY DEF Request
  <2>3. Request.owner \in {Request.by, NoUser}
    BY <2>1, <2>2 DEF Owned, TakenByTheUser, Prompted
  <2>4. AskedByTheOwner'
    BY <2>3, AskedStep DEF Owned, AskedByTheOwner
  <2>5. OnTheScreen' /\ TakenByTheUser' /\ KnowsTheUser'
    BY <2>1 DEF Owned, OnTheScreen, TakenByTheUser, KnowsTheUser, AnnouncedSoon, Prompted
  <2>6. Documented'
    BY <2>1 DEF Owned, Documented, OwnTakesOnly, QueuedForItsOwner,
       EmptyPathOnlyAfterSignOut, Documents
  <2> QED BY <2>4, <2>5, <2>6 DEF Owned
<1>5. CASE SpeechReports /\ ~SaveRecord
  <2>1. PICK request \in recognitions, result \in {"partial", "final", "error"} :
            /\ mainQ' = Append(mainQ, Report(request, result))
            /\ recognitions' \subseteq recognitions
    BY <1>5 DEF SpeechReports
  <2>2. Report(request, result) \in AP!Blocks
    BY <1>0, Reports, BlockKinds
  <2>3. AnnouncedSoon => AnnouncedSoon'
    BY <1>0, <2>1, <2>2, SoonAppended
  <2>4. /\ UNCHANGED <<observing, currentUser, userID, isSignedIn, credential, recordedBy, crash>>
        /\ Prompted' = Prompted /\ Documents' = Documents
    BY <1>5 DEF SpeechReports, userVars, recorderVars, cloud, Prompted, Documents
  <2> QED BY <1>5, <1>a, <2>1, <2>3, <2>4, OwnedFrame
<1>6. CASE WriteAnswered /\ ~SaveRecord
  <2>1. PICK w \in writes, ok \in BOOLEAN :
            /\ writes' = writes \ {w}
            /\ records' = IF ok THEN records \cup {w} ELSE records
            /\ mainQ' = IF w.heard
                        THEN Append(mainQ, [kind |-> "written", user |-> NoUser, ok |-> ok])
                        ELSE mainQ
    BY <1>6 DEF WriteAnswered
  <2>2. [kind |-> "written", user |-> NoUser, ok |-> ok] \in AP!Blocks \ SpeechBlocks
    BY BlockKinds DEF WrittenBlocks, SpeechBlocks
  <2>3. (AnnouncedSoon => AnnouncedSoon') /\ (Held(SpeechBlocks)' => Held(SpeechBlocks))
    <3>1. CASE w.heard
      BY <1>0, <2>1, <2>2, <3>1, SoonAppended, QueueAppended
    <3>2. CASE ~w.heard
      BY <2>1, <3>2 DEF AnnouncedSoon, Held
    <3> QED BY <3>1, <3>2
  <2>4. Documents' \subseteq Documents
    BY <2>1 DEF Documents
  <2>5. /\ UNCHANGED <<observing, currentUser, userID, isSignedIn, credential, recordedBy, crash,
                       recognitions>>
        /\ Prompted' = Prompted
    BY <1>6 DEF WriteAnswered, userVars, recorderVars, Prompted
  <2> QED BY <1>6, <1>a, <2>3, <2>4, <2>5, OwnedFrame
<1>7. CASE SpeechCallback /\ ~SaveRecord
  BY <1>7, <1>a, OwnedUploads
<1>8. CASE WriteCallback /\ ~SaveRecord
  <2>1. AP!MainTakes({"written"})
    BY <1>8, WrittenHead DEF WriteCallback, Session
  <2>2. (AnnouncedSoon => AnnouncedSoon') /\ (Held(SpeechBlocks)' => Held(SpeechBlocks))
    BY <1>0, <2>1, SoonTaken, QueueTaken
  <2>3. /\ UNCHANGED <<observing, currentUser, userID, isSignedIn, credential, recordedBy, crash,
                       recognitions>>
        /\ Prompted' = Prompted /\ Documents' = Documents
    BY <1>8 DEF WriteCallback, A!FinishRequest, userVars, recorderVars, cloud, Prompted, Documents
  <2> QED BY <1>8, <1>a, <2>2, <2>3, OwnedFrame
<1> QED BY <1>1, <1>2, <1>3, <1>4, <1>5, <1>6, <1>7, <1>8, Steps

LEMMA OwnedAlways ==
    ASSUME ~Revocable
    PROVE Spec => []Owned
<1>1. Init => AP!Lasting /\ AP!Announces
  BY SameInit, AP!LastingInit, AP!AnnouncesInit, SessionAssumptions DEF Init
<1> QED BY <1>1, TypeInit, FlowsInit, SavingInit, OwnedInit, TypeStep, SessionStep, FlowsStep,
           SavingStep, LastingStep, OwnedStep, PTL DEF Spec

\* A take goes to the collection of the user who recorded it: signOut clears neither the prompt nor
\* the recorder, but the next user signs in only after a new launch, which does; for any users.
THEOREM TakesStayWithTheirOwners == ASSUME ~Revocable PROVE Spec => []OwnTakesOnly
<1>1. Owned => OwnTakesOnly
  BY DEF Owned, Documented
<1> QED BY <1>1, OwnedAlways, PTL

\* Firestore, which learns of the user from a notification of its own, knows the user before
\* RecordViewModel adds a record to that user's collection, so the write waits in that user's queue.
THEOREM WritesWaitForTheirOwner == ASSUME ~Revocable PROVE Spec => []QueuedForItsOwner
<1>1. Owned => QueuedForItsOwner
  BY DEF Owned, Documented
<1> QED BY <1>1, OwnedAlways, PTL

\* The empty document path, at which FIRCollectionReference raises, is reached only by an upload
\* after a sign-out in the same launch.
THEOREM EmptyPathNeedsASignOut == ASSUME ~Revocable PROVE Spec => []EmptyPathOnlyAfterSignOut
<1>1. Owned => EmptyPathOnlyAfterSignOut
  BY DEF Owned, Documented
<1> QED BY <1>1, OwnedAlways, PTL
====
