---- MODULE Convey ----
(***************************************************************************)
(* The app as a whole: the session (AuthSession), the recorder (Recorder), *)
(* the tab on screen, and what happens to a take after Save: speech        *)
(* recognition, the upload through Firestore's write queue, and the        *)
(* acknowledgement that takes the overlay away.  The recorder's buttons    *)
(* are the session's screen: they exist for a signed-in user on the house  *)
(* tab, under neither overlay nor alert.                                   *)
(***************************************************************************)
EXTENDS Naturals, Sequences, FiniteSets

CONSTANTS
    Users, NoUser, Revocable, MaxQueue,
    Radix, Names, NoName, MaxTakes, MaxClock, MaxFailures, MaxLate,
    Recognizers, \* what SFSpeechRecognizer() may find: subset of {"available", "unavailable"}
    MaxSaves     \* takes saved, at most

ASSUME NoUserAssumption == NoUser \notin Users
ASSUME RevocableAssumption == Revocable \in BOOLEAN
ASSUME MaxQueueAssumption == MaxQueue \in Nat
ASSUME RadixAssumption == Radix \in Nat
ASSUME RecognizersAssumption == Recognizers \subseteq {"available", "unavailable"}
ASSUME MaxSavesAssumption == MaxSaves \in Nat

VARIABLES
    keychain, accounts, docs, currentUser, loaded, inFlight, mainQ, observing, first, prevUser,
    listener, userID, isSignedIn, isLoading, alertShowing, crash,
    canRecord, canTranscribe, asked, audioRecorder, late, isRecording, promptAction, recordName,
    hours, minutes, seconds, time, timer, timers, take, audio, elapsed, failures,
    selectedTab,  \* LandingViewModel.selectedTab
    recordedBy,   \* history: the user id when the current take was started
    saves,        \* takes saved so far; numbers them
    recognitions, \* running speech recognition tasks
    uploads,      \* documents added so far; stands for their generated ids
    credential,   \* the user Firestore sends writes for
    writes,       \* Firestore's write queues, of all users; on disk
    records       \* the acknowledged documents, on the backend

MaybeUser == Users \cup {NoUser}

\* What the user asked to save: for whom, a take recorded by whom, the sound in the file,
\* under which name, how long.
SaveRequests == [save : Nat, owner : MaybeUser, by : MaybeUser, sound : Nat,
                 name : Names \cup {NoName}, time : Nat]

\* What the recognizer and Firestore put on the main queue.
SpeechBlocks == [kind : {"speech"}, user : {NoUser}, request : SaveRequests,
                 result : {"partial", "final", "error"}, text : Nat]
WrittenBlocks == [kind : {"written"}, user : {NoUser}, ok : BOOLEAN]

\* A record on its way to Firestore or there: its document, and the request it goes back to.
Uploads == [id : Nat, path : Users, name : Names \cup {NoName}, time : Nat, text : Nat,
            account : MaybeUser, heard : BOOLEAN, request : SaveRequests]

\* What the process dies of outside the session.
Crashes == {"start failed", "stop without recorder", "late failure", "empty document path"}

A == INSTANCE AuthSession
     WITH OtherBlocks <- SpeechBlocks \cup WrittenBlocks, OtherCrashes <- Crashes
R == INSTANCE Recorder WITH crashed <- crash

userVars == <<keychain, accounts, docs, currentUser, loaded, inFlight, observing, first,
              prevUser, listener, userID, isSignedIn>>
authVars == <<userVars, mainQ>>
screen == <<isLoading, alertShowing>>
recorderVars == <<canRecord, canTranscribe, asked, audioRecorder, late, isRecording,
                  promptAction, recordName, hours, minutes, seconds, time, timer, timers, take,
                  audio, elapsed, failures>>
cloud == <<uploads, writes, records>>
saveVars == <<selectedTab, recordedBy, saves, recognitions, credential, cloud>>
vars == <<authVars, screen, recorderVars, saveVars, crash>>

\* Firestore asks who the user is just before AuthService registers its listener.
CredentialAtLaunch(u, q) == IF Len(q) = 1 THEN {u} ELSE {NoUser, u}

Init ==
    /\ A!Init
    /\ R!Init
    /\ selectedTab = "house"
    /\ recordedBy = NoUser
    /\ saves = 0
    /\ recognitions = {}
    /\ uploads = 0
    /\ credential \in CredentialAtLaunch(currentUser, mainQ)
    /\ writes = {}
    /\ records = {}

\* Mutant: the callbacks of the writes are restored with them.
RestoredAsWas == writes

\* Writes restored from disk have no callbacks.
Restored == {[w EXCEPT !.heard = FALSE] : w \in writes}

\* A new process forgets the recognitions; Firestore restores its writes.
Relaunch ==
    /\ A!Relaunch
    /\ R!Relaunch
    /\ selectedTab' = "house"
    /\ recordedBy' = NoUser
    /\ recognitions' = {}
    /\ credential' \in CredentialAtLaunch(currentUser', mainQ')
    /\ writes' = Restored
    /\ UNCHANGED <<saves, uploads, records>>

(***************************************************************************)
(* The session.                                                            *)
(***************************************************************************)

WorkQueueRuns ==
    /\ A!LoadStoredUser \/ A!Answers \/ A!RefreshToken \/ A!RevokeSession
    /\ UNCHANGED <<recorderVars, saveVars>>

\* Mutant: Firestore keeps the user it started with.
CredentialKept(block) == credential

CredentialFrom(block) == block.user

\* Firestore hears a notification first, and takes the user it was posted with.
Notified ==
    /\ A!RunNotify
    /\ credential' = CredentialFrom(Head(mainQ))
    /\ UNCHANGED <<recorderVars, selectedTab, recordedBy, saves, recognitions, cloud>>

MainQueueRuns ==
    \/ Notified
    \/ /\ A!RunInitial \/ A!ListenerChecks \/ A!ListenerStarts
          \/ A!SignInCompletes \/ A!SignUpCompletes
       /\ UNCHANGED <<recorderVars, saveVars>>

\* Mutant: the overlay does not cover the record view.
OnRecordViewUnderOverlay ==
    A!Running /\ listener = "idle" /\ ~alertShowing /\ isSignedIn /\ selectedTab = "house"

OnRecordView == A!Touchable /\ isSignedIn /\ selectedTab = "house"

SessionTap ==
    /\ \/ A!OnSignInTap
       \/ A!OnSignUpTap
       \/ A!DismissAlert
       \/ OnRecordView /\ A!SignOutTap
    /\ UNCHANGED <<recorderVars, saveVars>>

SelectTab ==
    /\ A!Touchable
    /\ isSignedIn
    /\ selectedTab' \in {"house", "person"}
    /\ UNCHANGED <<authVars, screen, recorderVars, crash, recordedBy, saves, recognitions,
                   credential, cloud>>

(***************************************************************************)
(* The recorder.                                                           *)
(***************************************************************************)

RecorderTap ==
    /\ OnRecordView
    /\ R!OnStartRecordingTap \/ R!OnStopRecordingTap \/ R!EnterName
    /\ recordedBy' = IF take' = take THEN recordedBy ELSE userID
    /\ UNCHANGED <<authVars, screen, selectedTab, saves, recognitions, credential, cloud>>

DeleteRecord ==
    /\ OnRecordView
    /\ R!ClosePrompt
    /\ UNCHANGED <<authVars, screen, saveVars>>

\* Timers, permission answers and delegate calls come whatever is on screen.
RecorderCallback ==
    /\ listener = "idle"
    /\ R!TimerFires \/ R!PermissionAnswered \/ R!RecorderDidFinish
    /\ UNCHANGED <<authVars, screen, saveVars>>

(***************************************************************************)
(* Save: recognition and upload.                                           *)
(***************************************************************************)

Request == [save |-> saves', owner |-> userID, by |-> recordedBy, sound |-> audio,
            name |-> recordName, time |-> time]

\* Mutant: saving leaves the app usable.
NoOverlay == UNCHANGED isLoading

RaiseOverlay == isLoading' = TRUE

\* Save closes the prompt and raises the overlay; without a recognizer that is
\* available nothing else ever happens.
SaveRecord ==
    /\ OnRecordView
    /\ R!ClosePrompt
    /\ saves < MaxSaves
    /\ saves' = saves + 1
    /\ RaiseOverlay
    /\ \E found \in Recognizers :
        recognitions' = IF found = "available" THEN recognitions \cup {Request}
                        ELSE recognitions
    /\ UNCHANGED <<authVars, alertShowing, selectedTab, recordedBy, credential, cloud>>

\* The recognizer reads recording.m4a while it works and queues its callback on
\* the main queue: with results on the way, with a final one or an error at the end.
Report(request, result) ==
    [kind |-> "speech", user |-> NoUser, request |-> request, result |-> result,
     text |-> audio]

SpeechReports ==
    /\ A!Running
    /\ \E request \in recognitions :
        \/ /\ Len(mainQ) < MaxQueue
           /\ mainQ' = Append(mainQ, Report(request, "partial"))
           /\ UNCHANGED recognitions
        \/ /\ \E result \in {"final", "error"} : mainQ' = Append(mainQ, Report(request, result))
           /\ recognitions' = recognitions \ {request}
    /\ UNCHANGED <<userVars, screen, crash, recorderVars, selectedTab, recordedBy, saves, credential, cloud>>

\* Mutant: results on the way are uploaded as well.
UploadedEarly(result) == result # "error"

\* Only a final result is uploaded.
Uploaded(result) == result = "final"

\* Mutant: nobody looks whether there is a user.
UploadAnyway(request, text) ==
    /\ uploads' = uploads + 1
    /\ writes' = writes \cup
           {[id |-> uploads', path |-> userID, name |-> recordName, time |-> time,
             text |-> text, account |-> credential, heard |-> TRUE, request |-> request]}
    /\ UNCHANGED <<crash, records>>

\* uploadRecordToUser: the path is the user Firestore works for now; the name
\* and the time are what the view model holds now.  An empty path is an exception.
UploadRecord(request, text) ==
    IF userID = NoUser
    THEN /\ crash' = "empty document path"
         /\ UNCHANGED cloud
    ELSE /\ uploads' = uploads + 1
         /\ writes' = writes \cup
                {[id |-> uploads', path |-> userID, name |-> recordName, time |-> time,
                  text |-> text, account |-> credential, heard |-> TRUE,
                  request |-> request]}
         /\ UNCHANGED <<crash, records>>

\* The recognition callback: without a result it lowers the overlay and alerts.
SpeechCallback ==
    /\ A!MainTakes({"speech"})
    /\ \/ /\ Head(mainQ).result = "error"
          /\ A!FinishRequest(FALSE)
          /\ UNCHANGED cloud
       \/ /\ Uploaded(Head(mainQ).result)
          /\ UploadRecord(Head(mainQ).request, Head(mainQ).text)
          /\ UNCHANGED screen
       \/ /\ Head(mainQ).result # "error"
          /\ ~Uploaded(Head(mainQ).result)
          /\ UNCHANGED <<cloud, screen, crash>>
    /\ UNCHANGED <<userVars, recorderVars, selectedTab, recordedBy, saves, recognitions, credential>>

(***************************************************************************)
(* Firestore sends the queued writes of its user, the oldest first; it     *)
(* depends on the process that queued a write whether a callback is still  *)
(* there to hear the outcome.                                              *)
(***************************************************************************)

Oldest(w) == \A v \in writes : v.account = w.account => w.id <= v.id

WriteAnswered ==
    /\ A!Running
    /\ \E w \in writes, ok \in BOOLEAN :
        /\ w.account = credential
        /\ Oldest(w)
        /\ writes' = writes \ {w}
        /\ records' = IF ok THEN records \cup {w} ELSE records
        /\ mainQ' = IF w.heard
                    THEN Append(mainQ, [kind |-> "written", user |-> NoUser, ok |-> ok])
                    ELSE mainQ
    /\ UNCHANGED <<userVars, screen, crash, recorderVars, selectedTab, recordedBy, saves, recognitions,
                   uploads, credential>>

\* The upload's completion: the overlay goes; the summary or an alert comes.
WriteCallback ==
    /\ A!MainTakes({"written"})
    /\ A!FinishRequest(Head(mainQ).ok)
    /\ selectedTab' = IF Head(mainQ).ok THEN "person" ELSE selectedTab
    /\ UNCHANGED <<userVars, recorderVars, recordedBy, saves, recognitions, credential, cloud>>

Callbacks == SpeechCallback \/ WriteCallback

Next == WorkQueueRuns \/ MainQueueRuns \/ SessionTap \/ SelectTab \/ RecorderTap
        \/ DeleteRecord \/ RecorderCallback \/ SaveRecord \/ SpeechReports \/ WriteAnswered
        \/ Callbacks \/ Relaunch

Spec == Init /\ [][Next]_vars

\* The queues are run and requests answered; a recognition ends, and the client
\* is eventually online with a server that answers its writes.
Fairness ==
    /\ WF_vars(A!LoadStoredUser /\ UNCHANGED <<recorderVars, saveVars>>)
    /\ WF_vars(A!Answers /\ UNCHANGED <<recorderVars, saveVars>>)
    /\ WF_vars(MainQueueRuns \/ Callbacks)
    /\ WF_vars(SpeechReports /\ recognitions' # recognitions)
    /\ WF_vars(WriteAnswered)
FairSpec == Spec /\ Fairness

----
Documents == writes \cup records

\* Writes whose callback is still going to take the overlay away.
Waiting == {w \in writes : w.heard}

\* Type invariant: the session's types with the blocks and crashes of the rest of the app,
\* what Convey adds, and what of the recorder's state goes into a document.
TypeOK ==
    /\ A!TypeOK
    /\ {audio, take, time, minutes, seconds} \subseteq Nat /\ recordName \in Names \cup {NoName}
    /\ selectedTab \in {"house", "person"}
    /\ recordedBy \in MaybeUser
    /\ saves \in 0..MaxSaves
    /\ recognitions \subseteq SaveRequests /\ \A q \in recognitions : q.save \in 1..saves
    /\ uploads \in Nat
    /\ credential \in MaybeUser
    /\ Documents \subseteq Uploads /\ \A w \in Documents : w.id \in 1..uploads

\* The blocks that will lower the overlay when they run.
Ends(b) ==
    \/ b.kind \in A!Requests \cup {"written"}
    \/ b.kind = "speech" /\ b.result # "partial"

FlowsUnderWay == inFlight["signIn"] + inFlight["signUp"] + Cardinality({i \in 1..Len(mainQ) : Ends(mainQ[i])})
                 + Cardinality(recognitions) + Cardinality(Waiting)

\* One overlay serves three flows: auth requests, recognition, upload.  At most
\* one of them is under way and it keeps the overlay up, so nobody starts another
\* beside it and nobody lowers the overlay for somebody else.
OneFlowUnderTheOverlay ==
    A!Running => FlowsUnderWay <= 1 /\ (FlowsUnderWay = 1 => isLoading)

\* A take is uploaded at most once per tap on Save, also when the recognizer
\* reports partial results first and across a relaunch with queued writes.
OneRecordPerSave ==
    \A v, w \in Documents : v.request.save = w.request.save => v = w

\* What is uploaded is what was on screen when Save was tapped: the recognizer's
\* callback reads the user, the name and the time only when it is called, and the
\* sound comes from a file that every new take overwrites.
UploadedAsAsked ==
    \A w \in Documents :
        /\ w.path = w.request.owner
        /\ w.name = w.request.name
        /\ w.time = w.request.time
        /\ w.text = w.request.sound

\* A take goes to the collection of the user who recorded it: the prompt of one
\* user is never answered by the next, although no sign-out clears it.
OwnTakesOnly == \A w \in Documents : w.path = w.request.by

\* A record is queued for the account whose collection it goes to.
QueuedForItsOwner == \A w \in Documents : w.account = w.path

\* FIRCollectionReference refuses an empty path with an exception; the user id
\* is empty only once somebody has signed out in this launch.
EmptyPathOnlyAfterSignOut == crash = "empty document path" => ~observing

\* The library's assertion as it stands: no document path is empty.
PathIsNeverEmpty == crash # "empty document path"

\* The overlay, whoever raised it, is lowered again.
OverlayGoes == isLoading ~> ~isLoading \/ ~A!Running

\* What AuthSession promises of sessions the server leaves alone is kept with recordings,
\* recognitions and uploads going on, whose blocks come between its own on the main queue:
\* FirestoreService, the screen and FIRAuth agree once everything was announced.
Agreement == A!Agreement

\* A request that reports success finds the screen switched already.
NoSignInFormAfterSuccess == A!NoSignInFormAfterSuccess

\* Neither double read of the current user ends the process.
OnlySignOutCrashes == A!OnlySignOutCrashes

\* Somebody who is signed in gets to see it, also with recordings, recognitions and uploads
\* going on beside the announcement.
SignInIsShown == A!SignInIsShown
====
