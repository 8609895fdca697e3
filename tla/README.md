# A verification model of the Convey iOS app

Convey records a speech, transcribes it, and stores the transcript with some
statistics in Firestore. This directory models the parts of it whose correctness depends on
order: the session, the recorder, the save pipeline, the list of records, and the way of a
write through the Firestore client. The own code is about 2,400 lines of Swift under
`src/convey/Shared`; `src/convey/Pods` is vendored, and of it only what the app relies on is
modelled: FIRAuth's current user and listeners, and of Firestore the write path and the
listeners of one query. Paths below are relative to `src/convey/Shared` unless they begin with
`Pods`; `core` stands for `Pods/FirebaseFirestore/Firestore/core/src`.

## 1. Inventory

| Part | Code | State it keeps | Operations | Talks to |
|---|---|---|---|---|
| FIRAuth (vendored) | `Pods/FirebaseAuth/.../FIRAuth.m`, `FIRUser.m` | `_currentUser`, keychain, observers | load stored user, sign in, create user, sign out, forced sign-out, token refresh | posts blocks on the main queue |
| AuthService | `Business/Services/AuthService.swift` | `authListener`, `handle` | `signIn`, `signUp`, `signOut`, `startListening`, `stopListening` | FIRAuth, FirestoreService, LandingViewModel (publisher) |
| Sign-in and sign-up | `Data/ViewModel/SignInViewModel.swift`, `SignUpViewModel.swift`, their views | the typed texts | `onSignInTap`, `onSignUpTap` and their completions | AuthService, AlertService |
| AlertService | `Business/Services/AlertService.swift` | publishers of overlay and alert | send | LandingViewModel |
| Landing | `Data/ViewModel/LandingViewModel.swift`, `UI/LandingView.swift` | `isSignedIn`, `selectedTab`, `isLoading`, `alertShowing` | sinks of the publishers | all publishers; what it shows decides what can be tapped |
| Recorder | `Data/ViewModel/RecordViewModel.swift`, `UI/Authed/RecordView.swift` | permission flags, `audioRecorder`, `timer`, clock, `time`, `promptAction`, `recordName`, `recording.m4a` | start, stop, delegate call, timer fire, permission answers, save, delete, sign out | AVFoundation, Speech, FirestoreService, AlertService |
| Save pipeline | `transcribeAudio`, `FirestoreService.uploadRecordToUser` | running recognitions, queued writes | recognition callback, upload, completion | Speech, Firestore |
| Firestore, write path (vendored) | `core/core/sync_engine.cc`, `core/remote/remote_store.cc`, `stream.cc`, `write_stream.cc`, `grpc_stream.cc`, `core/auth/firebase_credentials_provider_apple.mm`, `core/local/leveldb_mutation_queue.cc` | the provider's user and token counter, mutation queues on disk, callbacks in memory, write pipeline, stream state, the RPC | write, acknowledge, reject, change of credential, token, backoff, idle timer, change of network | FIRAuth's notifications, the backend, the caller's callbacks |
| Record list | `FirestoreService.startUserListener`, `Data/ViewModel/SummaryViewModel.swift`; of Firestore `core/core/sync_engine.cc`, `event_manager.cc`, `query_listener.cc`, `view.cc` and the watch stream | snapshot listeners, `recordList`; targets, views, local documents | start, stop, snapshot; listen, watch stream, local changes | Firestore, SummaryView |
| Statistics | `uploadRecordToUser`, `SummaryViewModel`, `StringUtils`, `BarChart` | none | words per minute, word count, filler counts, bar heights | |
| Tab bar | `UI/CustomViews/CustomTabBar.swift` | `tabPoints` | layout callbacks, selection | Landing |
| Presentation, wiring, data types | the other views, `AppModule`, `ViewModelModule`, `AppDelegate`, `FirestoreRecord`, `FirestoreUser` | singletons | | |

Two threads matter. FIRAuth's serial **work queue** changes the current user; the **main
thread** runs the blocks of the main queue in order, the taps, timers and delegate calls.
Every `auth.currentUser` on the main thread is a `dispatch_sync` to the work queue, so the
work queue may act between two reads; one read, the listener's first, does not even wait for
it (`FIRAuth.m:1411`). Firestore works on a queue of its own, the **worker**, hears of users on
the main thread and calls back on it: the user is read on one thread, his token on another, and
his writes are sent from a third.

What makes each part correct:

* session: one request at a time under one overlay; screen, Firestore's user id and FIRAuth
  agree once everything is delivered; sign-up writes the document of its own account; nobody
  is crashed by a double read; the overlay goes;
* recorder: Stop finds a recorder; a clock that shows this take; no timer left behind but
  by a failure; the time that is offered is how long the take was;
* write path: the stream is opened for the user whose queue is written; results, which carry no
  id, are matched to the right write; nothing waits for a stream that nobody starts; writes reach
  the server in their order, however often the stream breaks or the process dies; each caller is
  told the truth, at most once;
* record list: nobody sees another user's records; the list follows what Firestore knows;
* save pipeline: one record per Save, what was on the screen when Save was tapped, under the
  user who recorded it, queued for the account it belongs to; the overlay keeps the three
  flows apart and goes.

The hazards behind these are listed line by line in `PROJECT.json` (`hazards`), also those
that no module covers yet.

## 2. Modules

* `AuthSession` - the session. The state is FIRAuth's (`keychain`, `currentUser`, `loaded`,
  `inFlight`, the listener filter's `first` and `prevUser`), the main queue `mainQ`, and the
  app's (`observing`, `userID`, `isSignedIn`, `isLoading`, `alertShowing`). Work queue:
  `LoadStoredUser`, `RequestSucceeds`, `RequestFails`, `RefreshToken`, `RevokeSession`.
  Main queue: `RunInitial`, `RunNotify`, then the block of AuthService in its two reads,
  `ListenerChecks` and `ListenerStarts`; `SignInCompletes`, `SignUpCompletes`. Taps:
  `OnSignInTap`, `OnSignUpTap`, `SignOutTap`, `DismissAlert`. `Relaunch` kills the process at
  any point and keeps what is stored. A launch starts with the keychain read or not, and with its announcement
  ahead of the listener's initial call, already delivered, or still to come.
* `Recorder` - the capture side of `RecordViewModel`, a timer being one of a number of timers
  on the run loop, of which the view model knows at most one. `take`, `audio`, `elapsed` and
  `failures` are histories: which take the file holds, how long the take has run by its own
  timer, how many recorders failed. `Radix` stands for the 60 of seconds and minutes.
* `Convey` - the app: `AuthSession` and `Recorder` as instances over the same variables, the
  recorder's buttons guarded by the session's screen, one main queue for both, and the save pipeline
  (`OtherBlocks` and `OtherCrashes` of `AuthSession` are what the rest of the app adds to the session's
  blocks and crashes; alone it has none):
  `SaveRecord`, `SpeechReports`, `SpeechCallback`, `WriteAnswered`, `WriteCallback`. A write
  carries the path (`FirestoreService.userID`) and the account it is queued for (Firestore's
  credential), which are two copies of the user that change in different steps.
* `RemoteStore` - functions, without variables: what RemoteStore and its write stream make of
  their state in one turn of the worker (`FillWritePipeline`, `Close`, `Stop`, `RestartNetwork`,
  `OnWriteStreamClose`). The state is a record: `write_pipeline_`, the stream's state, handshake,
  idle timer and `close_count_`, the tokens asked for, and the RPC with what is on its way in
  both directions. `strays` are writes sent on RPCs that the client has given up.
* `WritePipeline` - the way of a write, three threads over that record. FIRAuth: `ChangeUser`,
  `RefreshToken`, `TakeToken`, `GiveToken`. Main thread: `OnAuthStateChange`, `OnToken`,
  `OnAnswer`, `Write`. Worker: `HandleCredentialChange`, `HandleWrite`, `ResumeStart`,
  `BackoffElapses`, `IdleTimeout`, `NetworkChanges`, `OnHandshakeComplete`, `OnMutationResult`
  with `AcknowledgeBatch` (one turn in two steps, since the caller is told in the first), and
  `OnStreamFinish`. Backend: `ServerGreets`, `ServerHandles`, `RpcBreaks`, `StrayArrives`.
  `Relaunch` kills the process at any point and keeps the disk.
* `Outbox` - the abstract specification of that: an outbox per user, what the server has stored
  and what callers were told. Writes are stored and leave in their order, never unanswered.
  `WritePipeline` implements it with `outbox <- queue`, `stored <- applied`, and the rest under
  its own name.
* `Records` - the list: FirestoreService's listeners on `mainQ`, `SummaryViewModel.recordList`, and
  the part of Firestore that computes a query's snapshots from local documents, pending writes
  and a watch stream opened with a user's token.
* `AuthSessionProofs`, `RecorderProofs`, `ConveyProofs`, `RemoteStoreProofs`, `WritePipelineProofs`,
  `WriteOwnerProofs`, `WriteOrderProofs`, `RecordsProofs` - theorems; `RemoteStoreProofs` has the
  lemmas about the functions of `RemoteStore` that those after it need, and `ConveyProofs` uses those
  of `AuthSessionProofs` through an instance.
* `MCAuthSession`, `MCRecorder`, `MCConvey`, `MCWritePipeline`, `MCRecords` - TLC's instances,
  with the symmetry of accounts.

`Convey` keeps a simpler client than `WritePipeline`, one step from a queued write to its answer:
with both, the state space of the app is out of reach. What the simple client leaves out, and
that the difference does not matter to a caller, is what the runs of `WritePipeline` are about.

An operator whose comment begins with "Mutant:" is a plausible wrong version of the operator
after it; no specification uses it. `PROJECT.json` (`mutants`) tells which property fails
when it is put in the place of the right one.

### What is assumed

* SwiftUI shows a change of published state before the next tap: an overlay, an alert or a
  vanished button cannot be tapped through, and nothing can be tapped before the main queue
  has had its first turn.
* A request is always answered, by the server or by the network's time limit. A recognizer
  reports results on the way, then once a final result or an error, or nothing any more.
* In `Convey` the backend accepts or rejects any write. In `WritePipeline` and `Records` it lets a
  user touch only her own documents, as the paths the app uses suggest; the security rules
  themselves are not in the repository (`OwnerOnly`).
* The backend ends a Write RPC only with an error, and at the first write it refuses. What was
  sent on an RPC that the client gives up may still be applied, later, unless the server had
  ended it. A document is added under a fresh id, so a write that is sent again changes
  nothing. The app never disables the network.
* The worker reads `token_counter` at once, and the answers of FIRAuth to `GetToken` go through the
  main queue behind the announcements of earlier users (`firebase_credentials_provider_apple.mm`
  posts them there): it is this order that the check of the counter completes.
* At most one response that has arrived can be lost to a failing send, the one the transport
  holds (`Pods/gRPC-Core/.../chttp2_transport.cc:1484-1491`, `2018-2024`); `Overtaking` allows it.
* In `Records` the user changes within a launch only when the server has ended a session, since Sign
  Out removes the observer and leaves the screen; a person fills in the form after the earlier
  announcements were heard. Firestore's observer is registered before AuthService's. Without the
  person a stale announcement could leave the previous user's list on the screen.
* A keychain may fail to be read, to be written and to be cleared.
* `Revocable` tells whether the server may end a session (disabled or deleted user, token no
  longer valid). Several properties hold only without it, see below.

## 3. What TLC checks

| Run | Instance | Shows |
|---|---|---|
| `auth_session` | 2 accounts, revocation | types; one request at a time; Sign Out stays; the document is the new account's |
| `auth_sign_out_unheard` | 1 account, revocation | **fails**: a sign-out the listener never hears of |
| `recorder` | radix 2, 2 takes, clock to 9, 2 failures, 1 late call | the five properties of the recorder |
| `recorder_start_fails` | 1 take | **fails**: a recorder that cannot be made ends the process |
| `convey` | 2 users, 2 takes, 2 saves, recognizer available or not, no revocation | the save pipeline with one user after another; agreement of screen, Firestore and FIRAuth; no sign-in form for somebody signed in; no double read of the user ends the process |
| `convey_revoked` | 1 user, revocation, 2 takes, 1 save, permissions granted | what the pipeline keeps when sessions end under it |
| `convey_liveness` | 2 users, 1 take, 1 save, fair | the overlay of every flow goes; a signed-in user sees it |
| `convey_empty_path` | 1 user | **fails**: Save after Sign Out asks for an empty path |
| `write_pipeline` | 2 users, 3 writes, pipeline of 2, 1 change of user or relaunch, 1 failure | the nine properties of the write path without overtaking, among them the refinement of `Outbox` |
| `write_overtaking` | 1 user, 2 writes, 1 change or relaunch, 1 broken RPC, overtaking, fair | order at the server, success is true, every write of a user who stays is answered |
| `write_overtaken` | 1 user, 3 writes, overtaking | **fails**: a write that is stored is reported as failed |
| `records` | 2 users, 1 record of each, 2 changes, 2 faults | nobody's records on another's screen; a single user's list follows Firestore |

Deadlock is checked for the session, the recorder and the app; since a process can always be
started again it is of little weight there, and the progress that matters is stated by the
liveness properties. The runs of `WritePipeline` and `Records` do not check it: their changes,
writes and faults are counted, and with the bounds used up and all delivered the system does stop.

`ListIsCurrent` is about launches with one user: a listener that was never called, of a user whose
session has ended, raises an empty list when the client goes offline, and that list stays until
the next user's own listener is called again.

**Bounds.** `MaxQueue` only stops token refreshes, revocations and partial results while the
main queue has that many blocks; what the app itself queues is never bounded. Three blocks
let two announcements queue up behind a completion. Two accounts are enough for one user to
meet what another left behind; the accounts are interchangeable and TLC uses the symmetry,
except for liveness. With radix 2 a clock that runs to 9 passes a carry of the seconds, of the
minutes and of the hours; the theorems hold for any radix. Two takes let a late delegate call,
a leaked timer or an overwritten file meet the next take; two failures let two timers leak.
Two saves let a queued write of an earlier launch meet a new one.
`MaxPendingWrites` stands for `kMaxPendingWrites`, which is 10: with 2 and three writes the
pipeline is full while another write waits. One change of user or one relaunch, met by one failure,
puts an ask, a token or a result of the old stream against the new one; the theorems hold for any
number. In `write_overtaken` three writes are the fewest: one stored, one refused, one being
sent. In `records` two changes are the end of one session and the start of the next, after a launch
that may leave any local state; two faults let a refused write and a lost connection meet.

**Why `Revocable` matters.** A session ended by the server between the listener's two
reads crashes the app (`AuthService.swift:133`), between a sign-up's answer and its completion
too (`AuthService.swift:108`), and an unlucky order makes the screen keep a user who is gone.
So `Agreement`, `OnlySignOutCrashes`, `NoSignInFormAfterSuccess`, `OwnTakesOnly` and
`QueuedForItsOwner` are checked for sessions the server leaves alone, in `convey`, and with revocation
only what does hold, in `auth_session` and `convey_revoked`. `OwnTakesOnly` in particular fails with revocation: the prompt of a take waits for
the next user, whose Save then stores it as hers.

**Fairness.** Weak fairness of the load of the keychain, of the answers to requests, of the
main queue, of the end of recognitions and of the answers to writes: serial queues
run their blocks, and requests end by a time limit at the latest. Taps, refreshes,
revocations, relaunches, partial results and recorder events have none. The liveness run of the app
takes a recognizer that is available, a session that lasts and a client that gets online.
Each is needed: `transcribeAudio` lowers no overlay when there is no recognizer
(`RecordViewModel.swift:200`); an upload made offline keeps the overlay until the client
is online; and a write whose owner's session was revoked waits for a user who cannot sign in under the
overlay that waits for the write.

In `write_overtaking` the queues run, FIRAuth answers, the delay after an error passes, and the server
greets and handles what it is sent. New writes, changes of user, relaunches, broken RPCs, failed
tokens and late arrivals need not happen. A failure may still take its turn before any of these,
but only as often as `MaxFaults` allows: `Delivered` says that a write is answered once faults
cease, which is all that retries can promise.

### Findings

1. *Save after Sign Out* (`convey_empty_path`). `AuthService.signOut` empties Firestore's user
   id and removes the listener before FIRAuth signs out; the publisher is not told, so the
   screen stays that of a signed-in user, and Save ends in `document("")`, an exception.
   `EmptyPathOnlyAfterSignOut` checks that this is the only way there.
2. *A recorder that cannot be made* (`recorder_start_fails`). The error handler of
   `startRecording` finishes a recording there is not and unwraps nil, where its comment wants
   the user to be told.
3. *A sign-out nobody hears* (`auth_sign_out_unheard`). FIRAuth's filter is fed by an
   unsynchronised read at its first call; if the stored user is loaded just after it and
   revoked before its announcement runs, the filter compares nil with nil, although AuthService's own read
   had found the user in between.

4. *A stored write reported as failed* (`write_overtaken`). An error of an RPC is taken for the
   answer to the first write of the pipeline. When the server ends the RPC for a later write, and the
   client notices while it sends another, the unread result of the first write is dropped
   (`core/remote/grpc_stream.cc:312`), and the first write, which is stored, is rejected. With every
   result read before the end of the RPC this cannot happen (`KeepsItsPromise` in `write_pipeline`).

## 4. What is proved

With TLAPS, for every value of the constants that satisfies the assumptions named in the
modules (`NoUser` is no account, `MaxQueue` a number, `Radix` positive, bounds natural, the users of `Records`
finitely many):

* `TypeCorrect` - the session's types. Inductive as it stands.
* `OneRequestAtATime` - `OneRequest`, also with revocation. Inductive together with the types.
  The argument is per kind of step: an announcement adds no completion to the queue
  (`AnnouncementQueued`), taking a block only shifts the queue (`BlockTaken`), an answer needs the
  one unanswered request and so finds no completion (`AnsweredAlone`, `OneRequestAnswered`), and
  a tap that sends needs the overlay down and so finds neither (`OneRequestSent`).
* `SignUpWritesItsDocument` - `DocForTheNewAccount`, an action property, also with revocation.
  `DocForTheNewAccount` says nothing of the states in which the completion waits, so the
  invariant `QueuedAccounts` does: while the completion of a sign-up is queued its account has
  no document, the keychain has been read, and the current user is that account or nobody.
  It is inductive with `OneRequest` (no other answer can come) and `KnownAccounts`.
* `RecorderTypeCorrect`, `StopAlwaysFindsRecorder`, `FailureCostsOneTimer`, `ClockIsTrue`,
  `OfferedTimeIsTrue` - from one invariant, `IInv` of `RecorderProofs`. Even the types need it:
  that the number of timers stays natural depends on a running take still holding the handle
  of its timer (`Handle`), and the clock can only be followed while there is just that timer
  (`Timers`). `ClockGoesOn` is the arithmetic of the carries for any radix, `NoHoursBelowAnHour`
  that leaving out the hours does no harm below an hour.

* `SignedOutForGood` - `SignedOutStays`, also with revocation. The invariant adds that while nobody
  observes, no request is under way or about to complete: Sign Out needs the overlay down.
* `ScreenAgrees`, `NoFormAfterSuccess`, `OnlySignOutDies` - `Agreement`, `NoSignInFormAfterSuccess` and
  `OnlySignOutCrashes`, assuming `~Revocable`: a session then begins once, with the load of the keychain or an
  answer, and ends only with Sign Out. `Agreement` speaks of moments without announcements, so
  `Lasting` says what holds before: a user who is not shown yet is one the filter was not called
  with, and his announcement is queued ahead of the completion that made him (`Heard`,
  `AnnouncedFirst`), or the listener is running, or the initial call is still to come. A completion
  that reports success is for the current user (`Reported`), which is why neither second read finds
  nobody. The runs check them in `Convey`, to which the theorems are carried over below.
* The whole app (`ConveyProofs`), for any users, names and bounds. The session's proofs were made for a
  main queue that may hold other blocks (`OtherBlocks`): a step of `Convey` is one of `AuthSession`
  (`Session` is preserved by its lemmas), or one that leaves the session alone but for a block it
  appends or takes, and the overlay (`Beside`). So `ScreenAgrees`, `NoFormAfterSuccess` and
  `OnlySignOutDies` hold of `Convey` as the runs check them, again assuming `~Revocable`, and `TypeCorrect`
  needs no assumption. The app's own theorems, each from an invariant of its own:
  * `OneFlow` - `OneFlowUnderTheOverlay`, also with revocation. `Flows` says that while a recognition or a
    write is under way the session has no request under way or about to complete and the overlay is
    up (`Covered`), and that recognitions, their results on the queue and unanswered writes of this
    process are one at most (`OneSaving`). The count over the main queue is a cardinality.
  * `NoSaveTwice`, `UploadsWhatWasAsked` - `OneRecordPerSave` and `UploadedAsAsked`, also with revocation.
    `Saving` says that a request whose recognition runs, or waits on the queue with its last report,
    is still what is on the screen (`OnScreen`: the overlay keeps the taps away that would change it)
    and has no document yet, that a final result carries the sound of its request (`Transcribed`), and
    that what is acknowledged is not sent again (`Numbered`).
  * `TakesStayWithTheirOwners`, `WritesWaitForTheirOwner`, `EmptyPathNeedsASignOut` - `OwnTakesOnly`,
    `QueuedForItsOwner` and `EmptyPathOnlyAfterSignOut`, assuming `~Revocable`. `Owned` follows the user:
    while there is a prompt, a recognition or a report of one the record view is on the screen
    (`OnTheScreen`), a take that can be saved was recorded by the user there is (`TakenByTheUser`),
    who asks is who recorded (`AskedByTheOwner`), and Firestore's credential is the current user or an
    announcement of him is queued ahead of every report of the recognizer (`KnowsTheUser`).
* `TypesHold`, `AssertionsHold`, `PipelineStaysFull`, `StreamIsStarted`, `ResultsFitPipeline` - the write
  path, from one invariant, `IInv` of `WritePipelineProofs`, for any users, pipeline length, number of
  writes, relaunches and faults. None of the five is inductive alone. `Queues` says that queues are
  sorted and the next id is above them all: so the batches behind the pipeline are found by their id
  (`NextIsBehind`), and a batch is removed from the front. `Orderly` says what a stream that is not
  open, or not greeted, cannot have. `Tokens` says that of all tokens asked for, on the three threads
  together, at most one was asked for since the stream was last closed, and only for a stream that
  waits for one: so a token that passes the test of `close_count_` finds the stream starting. The lemmas of
  `RemoteStoreProofs` show for each function of `RemoteStore` that it makes a sound state of what
  is left in order (`FillIsSound`, `RestartIsSound`, `CloseIsSound`); one lemma per action puts them
  together.
* `OwnersStream`, `MeritsDecide` - `OpenedForItsOwner` and `RefusedOnItsMerits`. The invariant follows
  the user through the three threads: the last announcement on the main queue is FIRAuth's user
  (`Announced`), a token that was asked for after the last announcement is the known user's (`AskedFor`,
  `Answered`), and what the worker's queue holds was put there for the user whose announcement
  precedes it (`Handed`). A token with an old counter may be anybody's, and is asked for again.
  For `RefusedOnItsMerits` it also says that an RPC, given up or not, carries the writes of one
  user only (`Owns`). Inductive together with `IInv`.
* `CallersWaitForTheirs` - `CallbackOfItsWrite`. Ids are unique in a sorted queue; what has to be added
  is that nobody waits for the batch between the two steps of its acknowledgement (`CInv`).
* `ServerKeepsOrder`, `ToldTheTruth` - `AppliedInOrder` and `StoredIfTold`, from `PInv` of
  `WriteOrderProofs`, inductive together with the invariants of the modules before (`AlwaysPromised`).
  `AppliedInOrder` says nothing of what is on its way, so `PInv` does. While an RPC has not been refused a
  write, its requests are the end of the pipeline and what is before them was applied (`Sent`). When
  the RPC is given up this becomes: before each write on its way, what the queue still holds was
  applied or travels ahead of it (`Follows`), and what has left the queue was answered (`Placed`);
  that stays true whatever the queue does afterwards. Documents are numbered in the order of the
  calls, and queues keep that order though ids are given out anew (`Dated`). For the callers it says
  that one caller at most waits for a write, that nobody is told twice, and that what is on its way
  to a caller is true (`Callers`).
* `PromiseKept` - the refinement `KeepsItsPromise` of `Outbox`, assuming `~Overtaking`: with it the
  step that rejects a batch may be told of one the server has applied (`write_overtaken` shows it).
  Every action is a step of `Outbox` or leaves it as it is: `HandleWrite` puts (a write that is
  like no other, since its document was never mentioned), the server's two steps store or refuse
  or repeat an answer, `AcknowledgeBatch` and `OnStreamFinish` remove, `OnAnswer` tells.
* `RecordsTypes`, `NobodyElsesShown`, `WholeList` - `TypeOK`, `NobodyElsesRecords` and `ListIsCurrent`, the second
  assuming `OwnerOnly`, all for finitely many users and any number of records, changes and faults, from
  `RecordsProofs`. The two properties speak of a settled list only. What holds before is said of the list
  that will be shown when the main queue has run (`WillShow`) and the last listener was called
  (`Called`): it has no record of another user (`ShowsNobodyElses`), and with one user in the
  launch it is the user's view (`ShowsAll`). That needs three facts more. A called listener's user is the
  worker's: the last listener that FirestoreService added comes after every announcement of another
  user (`LastListen`), since the worker reaches each listener and each write as the user whose it
  is (`Handing`) and the main thread starts FirestoreService for the user that FIRAuth still
  announces (`Heard`). As long as that user stays the worker learns nothing of others' records
  (`ForeignRecords`, from `OwnQueues`), so a listener of another user that is called then is
  told of an empty list (`EmitStepShown`). And a view is always what the local store knows, a listener that
  was not called yet having missed nothing (`Current`). How many snapshots of which views a step
  puts on the main queue, in whatever order, is `EmitsCurrent`.

So every safety property that a passing run checks is a theorem. Only model-checked: liveness (`OverlayGoes`,
`SignInIsShown`, `Delivered`), which with `ENABLED` is beyond this prover. The four runs that fail are
counterexamples and need no proof. The theorems about `~Revocable`, `~Overtaking` and `OwnerOnly` assume no more
than the runs do; `auth_session`, `convey_revoked`, `write_overtaking` and `write_overtaken` take the
other value of the first two.

## 5. Not modelled

* The statistics: words per minute, word count, filler counts and the bars of the chart are pure
  arithmetic over the text and the time of a take, and no text of the repository says what they should
  be; the list is sorted only after a record with filler statistics, which this app never writes.
* The tab points, which are appended by layout callbacks: in which order SwiftUI calls them is not in
  the repository.
* The text fields of the forms, of which only the comparison of the passwords decides anything; layout
  and animation; names, emails and messages shown to the user.
* FIRAuth's other sign-in methods, its RPCs and how it fetches tokens; a fetch succeeds or fails.
* Of Firestore: transactions, deletions and updates of documents (the app only adds), limbo
  documents, garbage collection of the cache, the resume tokens of targets, stream tokens (kept, but
  never sent), a network that the app disables (it never does), bundles. Documents that change on the
  server otherwise than by this client are not modelled.
* The other vendored libraries: gRPC, BoringSSL, abseil, leveldb, protobuf. They make up nearly all
  lines of the repository and none of the app's logic; of gRPC only what the transport may drop is assumed.

## 6. Status

`AuthSession`, `Recorder`, `Convey`, `RemoteStore`, `WritePipeline`, `Outbox` and `Records` are complete in
the sense of section 5, and their safety properties are proved. What could follow, the most useful first:

1. `Convey` over `Outbox` in place of its simple client: that the queue, the acknowledgement and the relaunch of
   `Convey` are steps of `Outbox`, which `WritePipeline` implements, so that what is said of the simple client
   holds of the real one.
2. `Records` composed with `AuthSession`, to take its user from there and not from a counted number of changes.
3. What `Agreement` becomes when the server does end sessions: which of its parts survive.
