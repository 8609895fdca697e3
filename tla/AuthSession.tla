---- MODULE AuthSession ----
(***************************************************************************)
(* The signed-in session of the Convey app: FirebaseAuth's current user    *)
(* (kept on FIRAuth's serial work queue), the blocks it leaves on the main *)
(* queue, AuthService's state listener, the user id FirestoreService works *)
(* for, and the sign-in and sign-up flows behind the loading overlay.      *)
(*                                                                         *)
(* Two threads take part.  The work queue changes currentUser (a stored    *)
(* user loaded, a request answered, a session revoked).  The main thread   *)
(* runs the blocks of the main queue in order and the user's taps; every   *)
(* read of currentUser it makes is a dispatch_sync, so the work queue may  *)
(* act between two reads of one listener call.                             *)
(***************************************************************************)
EXTENDS Naturals, Sequences

CONSTANTS
    Users,      \* the accounts people may have
    NoUser,     \* nil, and FirestoreService's userID ""
    Revocable,  \* whether the server may end a session (user disabled, token revoked)
    MaxQueue,   \* token refreshes and revocations wait while this many blocks are queued
    OtherBlocks, \* the blocks of the rest of the app on the main queue
    OtherCrashes \* what else in the app the process may die of

ASSUME NoUserAssumption == NoUser \notin Users
ASSUME RevocableAssumption == Revocable \in BOOLEAN
ASSUME MaxQueueAssumption == MaxQueue \in Nat

VARIABLES
    keychain,     \* the user stored in the keychain; survives a relaunch
    accounts,     \* the accounts the backend knows; survives
    docs,         \* the accounts createUser has written a document for; survives
    currentUser,  \* FIRAuth._currentUser
    loaded,       \* the work queue has run the block that reads the keychain
    inFlight,     \* requests sent and not answered, by kind
    mainQ,        \* the main dispatch queue, in order
    observing,    \* AuthService holds a handle: its observer is registered
    first,        \* firstInvocation of the listener's filter
    prevUser,     \* previousUserID of the listener's filter
    listener,     \* where the running listener block of AuthService is
    userID,       \* FirestoreService.userID
    isSignedIn,   \* LandingViewModel.isSignedIn
    isLoading,    \* LandingViewModel.isLoading: the overlay covers every button
    alertShowing, \* LandingViewModel.alertShowing: the alert is modal
    crash         \* why the process died, "none" while it runs

stored == <<keychain, accounts, docs>>
filter == <<first, prevUser>>
screen == <<isLoading, alertShowing>>
vars == <<stored, currentUser, loaded, inFlight, mainQ, observing, filter,
          listener, userID, isSignedIn, screen, crash>>

Requests == {"signIn", "signUp"}

\* A block on the main queue: the initial call of the listener, the posting of
\* the state-change notifications with the user at the time, or the completion
\* of a request with its user, NoUser when it failed.
Kinds == {"initial", "notify"} \cup Requests
ASSUME OtherBlocksAssumption == \A b \in OtherBlocks : b.kind \notin Kinds
MaybeUser == Users \cup {NoUser}
Blocks == [kind : Kinds, user : MaybeUser] \cup OtherBlocks
Block(kind, user) == [kind |-> kind, user |-> user]

Pending(kinds) == \E i \in 1..Len(mainQ) : mainQ[i].kind \in kinds

\* FIRAuth reads the keychain from the moment the app is configured; AuthService
\* registers its listener, which queues the initial call, before or after that.
\* A user loaded earlier has been announced to nobody, or is still announced first.
LaunchQueues(u) ==
    LET calls == <<Block("initial", NoUser)>> IN
    {calls} \cup IF u = NoUser THEN {} ELSE {<<Block("notify", u)>> \o calls}

\* The first launch on this device, or one with a stored user; the publishers
\* hold their initial values.
Init ==
    /\ accounts \in SUBSET Users
    /\ keychain \in accounts \cup {NoUser}
    /\ docs = accounts
    /\ loaded \in BOOLEAN
    /\ currentUser \in IF loaded THEN {keychain, NoUser} ELSE {NoUser}
    /\ mainQ \in LaunchQueues(currentUser)
    /\ inFlight = [r \in Requests |-> 0]
    /\ observing = TRUE
    /\ first = TRUE
    /\ prevUser = NoUser
    /\ listener = "idle"
    /\ userID = NoUser
    /\ isSignedIn = FALSE
    /\ isLoading = FALSE
    /\ alertShowing = FALSE
    /\ crash = "none"

\* The process is killed at any point, or died, and is launched again: all but
\* what is stored starts as in Init, and an unanswered request goes unheard.
Relaunch ==
    /\ loaded' \in BOOLEAN
    /\ currentUser' \in IF loaded' THEN {keychain, NoUser} ELSE {NoUser}
    /\ mainQ' \in LaunchQueues(currentUser')
    /\ inFlight' = [r \in Requests |-> 0]
    /\ observing' = TRUE
    /\ first' = TRUE
    /\ prevUser' = NoUser
    /\ listener' = "idle"
    /\ userID' = NoUser
    /\ isSignedIn' = FALSE
    /\ isLoading' = FALSE
    /\ alertShowing' = FALSE
    /\ crash' = "none"
    /\ UNCHANGED stored

Running == crash = "none"

(***************************************************************************)
(* FIRAuth's work queue.  It is serial and its first block loads the       *)
(* stored user, so a request is only answered once that is done.           *)
(***************************************************************************)

\* The stored user becomes the current one and is announced; a keychain that
\* cannot be read leaves nobody signed in.
LoadStoredUser ==
    /\ Running
    /\ ~loaded
    /\ loaded' = TRUE
    /\ currentUser' \in {keychain, NoUser}
    /\ mainQ' = IF currentUser' = NoUser THEN mainQ
              ELSE Append(mainQ, Block("notify", currentUser'))
    /\ UNCHANGED <<stored, inFlight, observing, filter, listener, userID, isSignedIn, screen, crash>>

\* Mutant: an answer need not have a request.
DueAnyway(r) == TRUE

Due(r) == inFlight[r] > 0

Answered(r) ==
    /\ Running
    /\ loaded
    /\ Due(r)
    /\ inFlight' = [inFlight EXCEPT ![r] = @ - 1]
    /\ UNCHANGED <<docs, loaded, observing, filter, listener, userID, isSignedIn, screen, crash>>

\* The accounts a request of this kind can end up signed in to.
Eligible(r) == IF r = "signIn" THEN accounts ELSE Users \ accounts

\* Mutant: the completion is queued before the change is announced.
OutcomeFirst(r, u) == <<Block(r, u), Block("notify", u)>>

\* Mutant: the change of the current user is not announced.
OutcomeOnly(r, u) == <<Block(r, u)>>

\* The change of the current user is announced before the completion is queued.
Outcome(r, u) == <<Block("notify", u), Block(r, u)>>

\* The request succeeds, the keychain takes the user, the current user changes.
RequestSucceeds(r) ==
    /\ Answered(r)
    /\ \E u \in Eligible(r) :
        /\ accounts' = accounts \cup {u}
        /\ keychain' = u
        /\ currentUser' = u
        /\ mainQ' = mainQ \o Outcome(r, u)

\* The request fails, or succeeds and the keychain refuses the user: the
\* completion carries an error, although the account may exist by now.
RequestFails(r) ==
    /\ Answered(r)
    /\ \/ UNCHANGED accounts
       \/ \E u \in Eligible(r) : accounts' = accounts \cup {u}
    /\ mainQ' = Append(mainQ, Block(r, NoUser))
    /\ UNCHANGED <<keychain, currentUser>>

\* A new access token for the same user is announced like any other change.
RefreshToken ==
    /\ Running
    /\ currentUser # NoUser
    /\ Len(mainQ) < MaxQueue
    /\ mainQ' = Append(mainQ, Block("notify", currentUser))
    /\ UNCHANGED <<stored, currentUser, loaded, inFlight, observing, filter, listener,
                   userID, isSignedIn, screen, crash>>

\* A refresh finds the user gone and signs out by force: the current user is
\* dropped even when the keychain keeps it.
RevokeSession ==
    /\ Running
    /\ Revocable
    /\ currentUser # NoUser
    /\ Len(mainQ) < MaxQueue
    /\ currentUser' = NoUser
    /\ keychain' \in {NoUser, keychain}
    /\ mainQ' = Append(mainQ, Block("notify", NoUser))
    /\ UNCHANGED <<accounts, docs, loaded, inFlight, observing, filter, listener,
                   userID, isSignedIn, screen, crash>>

(***************************************************************************)
(* The main thread: blocks of the main queue.                              *)
(***************************************************************************)

MainTakes(kinds) ==
    /\ Running
    /\ listener = "idle"
    /\ mainQ # <<>>
    /\ Head(mainQ).kind \in kinds
    /\ mainQ' = Tail(mainQ)

\* The filter around AuthService's block: call it the first time, and then
\* when the user differs from the one of the previous call.
FilterUser(user) ==
    /\ listener' = IF first \/ user # prevUser THEN "check" ELSE "idle"
    /\ first' = FALSE
    /\ prevUser' = user

\* The initial call reads _currentUser without the work queue: it may still be
\* nil although a user is stored.
RunInitial ==
    /\ MainTakes({"initial"})
    /\ FilterUser(currentUser)
    /\ UNCHANGED <<stored, currentUser, loaded, inFlight, observing, userID, isSignedIn, screen, crash>>

\* A notification reaches the observer only while it is registered.
RunNotify ==
    /\ MainTakes({"notify"})
    /\ IF observing THEN FilterUser(currentUser) ELSE UNCHANGED <<filter, listener>>
    /\ UNCHANGED <<stored, currentUser, loaded, inFlight, observing, userID, isSignedIn, screen, crash>>

\* AuthService's block asks for the current user; dispatch_sync waits for the load.
ListenerChecks ==
    /\ Running
    /\ listener = "check"
    /\ loaded
    /\ \/ /\ currentUser # NoUser
          /\ listener' = "start"
          /\ UNCHANGED <<userID, isSignedIn>>
       \/ /\ currentUser = NoUser
          /\ listener' = "idle"
          /\ isSignedIn' = FALSE
          /\ userID' = NoUser
    /\ UNCHANGED <<stored, currentUser, loaded, inFlight, mainQ, observing, filter, screen, crash>>

\* Mutant: the screen is switched but Firestore is not started.
StartNobody(u) ==
    /\ isSignedIn' = TRUE
    /\ UNCHANGED userID

StartFor(u) ==
    /\ userID' = u
    /\ isSignedIn' = TRUE

\* It asks again and unwraps the answer by force.
ListenerStarts ==
    /\ Running
    /\ listener = "start"
    /\ \/ /\ currentUser # NoUser
          /\ StartFor(currentUser)
          /\ listener' = "idle"
          /\ UNCHANGED crash
       \/ /\ currentUser = NoUser
          /\ crash' = "nil user in listener"
          /\ UNCHANGED <<userID, isSignedIn, listener>>
    /\ UNCHANGED <<stored, currentUser, loaded, inFlight, mainQ, observing, filter, screen>>

\* Mutant: after an error the overlay stays.
FinishRequestHalfway(ok) ==
    /\ isLoading' = (isLoading /\ ~ok)
    /\ alertShowing' = (alertShowing \/ ~ok)
    /\ UNCHANGED crash

\* The view model's completion: the overlay goes; on an error an alert comes.
FinishRequest(ok) ==
    /\ isLoading' = FALSE
    /\ alertShowing' = (alertShowing \/ ~ok)
    /\ UNCHANGED crash

SignInCompletes ==
    /\ MainTakes({"signIn"})
    /\ FinishRequest(Head(mainQ).user # NoUser)
    /\ UNCHANGED <<stored, currentUser, loaded, inFlight, observing, filter, listener,
                   userID, isSignedIn>>

\* FirestoreService.createUser; an error of the write is only printed.
CreateUser(u) == docs' = docs \cup {u}

\* The document is written for whoever is the current user now, not for the
\* account the request created; with nobody there the process dies, at whichever
\* of the two reads the code makes.
SignUpCompletes ==
    /\ MainTakes({"signUp"})
    /\ \/ /\ Head(mainQ).user = NoUser
          /\ FinishRequest(FALSE)
          /\ UNCHANGED docs
       \/ /\ Head(mainQ).user # NoUser
          /\ currentUser # NoUser
          /\ CreateUser(currentUser)
          /\ FinishRequest(TRUE)
       \/ /\ Head(mainQ).user # NoUser
          /\ currentUser = NoUser
          /\ crash' = "user id is null"
          /\ UNCHANGED <<docs, screen>>
    /\ UNCHANGED <<keychain, accounts, currentUser, loaded, inFlight, observing, filter,
                   listener, userID, isSignedIn>>

(***************************************************************************)
(* The main thread: the user's taps.  Nothing can be touched before the    *)
(* first turn of the main queue, under the overlay or under the alert.     *)
(***************************************************************************)

\* Mutant: the overlay lets taps through.
TouchableUnderOverlay ==
    /\ Running
    /\ listener = "idle"
    /\ ~Pending({"initial"})
    /\ ~alertShowing

Touchable ==
    /\ Running
    /\ listener = "idle"
    /\ ~Pending({"initial"})
    /\ ~isLoading
    /\ ~alertShowing

\* Mutant: a request does not raise the overlay.
SendUncovered(r) ==
    /\ inFlight' = [inFlight EXCEPT ![r] = @ + 1]
    /\ UNCHANGED <<isLoading, alertShowing>>

Send(r) ==
    /\ isLoading' = TRUE
    /\ inFlight' = [inFlight EXCEPT ![r] = @ + 1]
    /\ UNCHANGED alertShowing

OnSignInTap ==
    /\ Touchable
    /\ ~isSignedIn
    /\ Send("signIn")
    /\ UNCHANGED <<stored, currentUser, loaded, mainQ, observing, filter, listener,
                   userID, isSignedIn, crash>>

\* The two passwords may differ, which is answered at once.
OnSignUpTap ==
    /\ Touchable
    /\ ~isSignedIn
    /\ \/ Send("signUp")
       \/ /\ FinishRequest(FALSE)
          /\ UNCHANGED inFlight
    /\ UNCHANGED <<stored, currentUser, loaded, mainQ, observing, filter, listener,
                   userID, isSignedIn, crash>>

\* FIRAuth.signOut: nothing to do without a user.
AuthSignsOut ==
    IF currentUser = NoUser THEN UNCHANGED <<keychain, currentUser, mainQ>>
    ELSE /\ keychain' = NoUser
         /\ currentUser' = NoUser
         /\ mainQ' = Append(mainQ, Block("notify", NoUser))

\* Mutant: an error of the keychain is swallowed (try?).
SignOutFailsQuietly ==
    /\ userID' = NoUser
    /\ observing' = FALSE
    /\ UNCHANGED <<keychain, currentUser, mainQ, crash>>

\* The keychain keeps the user, and try! ends the process.
SignOutFails ==
    /\ crash' = "sign out failed"
    /\ UNCHANGED <<userID, observing, keychain, currentUser, mainQ>>

\* Mutant: the observer stays.
KeepListening == UNCHANGED observing

StopListening == observing' = FALSE

\* RecordViewModel.signOut: Firestore stops, the observer is removed, and then
\* FIRAuth signs out.  The screen is not told.
SignOutTap ==
    /\ Touchable
    /\ isSignedIn
    /\ \/ /\ userID' = NoUser
          /\ StopListening
          /\ AuthSignsOut
          /\ UNCHANGED crash
       \/ /\ currentUser # NoUser
          /\ SignOutFails
    /\ UNCHANGED <<accounts, docs, loaded, inFlight, filter, listener, isSignedIn, screen>>

DismissAlert ==
    /\ Running
    /\ listener = "idle"
    /\ alertShowing
    /\ alertShowing' = FALSE
    /\ UNCHANGED <<stored, currentUser, loaded, inFlight, mainQ, observing, filter, listener,
                   userID, isSignedIn, isLoading, crash>>

Taps == OnSignInTap \/ OnSignUpTap \/ SignOutTap \/ DismissAlert
MainRuns == RunInitial \/ RunNotify \/ ListenerChecks \/ ListenerStarts
            \/ SignInCompletes \/ SignUpCompletes
Answers == \E r \in Requests : RequestSucceeds(r) \/ RequestFails(r)

Next == LoadStoredUser \/ Answers \/ RefreshToken \/ RevokeSession
        \/ MainRuns \/ Taps \/ Relaunch

Spec == Init /\ [][Next]_vars

----
\* Type invariant of the session.
TypeOK ==
    /\ keychain \in MaybeUser
    /\ accounts \in SUBSET Users
    /\ docs \in SUBSET Users
    /\ currentUser \in MaybeUser
    /\ loaded \in BOOLEAN
    /\ inFlight \in [Requests -> Nat]
    /\ mainQ \in Seq(Blocks)
    /\ observing \in BOOLEAN
    /\ first \in BOOLEAN
    /\ prevUser \in MaybeUser
    /\ listener \in {"idle", "check", "start"}
    /\ userID \in MaybeUser
    /\ isSignedIn \in BOOLEAN
    /\ isLoading \in BOOLEAN
    /\ alertShowing \in BOOLEAN
    /\ crash \in {"none", "nil user in listener", "user id is null", "sign out failed"} \cup OtherCrashes

Unanswered == inFlight["signIn"] + inFlight["signUp"]

LoneCompletion ==
    \A i, j \in 1..Len(mainQ) : mainQ[i].kind \in Requests /\ mainQ[j].kind \in Requests => i = j

\* One request at a time, and the overlay is up for all of it: while a request
\* is unanswered or its completion is queued, no other is, of either kind
\* (SignInViewModel, SignUpViewModel and LandingView's overlay together).
OneRequest ==
    /\ Unanswered <= 1
    /\ Unanswered = 1 => isLoading /\ ~Pending(Requests)
    /\ Pending(Requests) => isLoading
    /\ LoneCompletion

\* A user document is written only by the completion of a sign-up, for the
\* account that sign-up created, and never over a document that was there:
\* although AuthService.signUp asks for the current user anew.
DocForTheNewAccount ==
    [][docs' # docs =>
        /\ Head(mainQ).kind = "signUp"
        /\ Head(mainQ).user \notin docs
        /\ docs' = docs \cup {Head(mainQ).user}]_vars

\* The listener has nothing left to hear and is not running.
Settled == Running /\ observing /\ ~first /\ listener = "idle" /\ ~Pending({"notify"})

\* Once every announcement is delivered, FirestoreService works for the user
\* FIRAuth has and the screen is that of a signed-in user exactly when there is
\* one, whatever the order of the keychain load, the initial call, the
\* completions and the notifications.  It needs sessions that are not revoked.
Agreement == Settled => userID = currentUser /\ isSignedIn = (currentUser # NoUser)

\* A completion that reports success finds the screen switched already: the
\* overlay never uncovers the sign-in form of somebody who is signed in.
NoSignInFormAfterSuccess ==
    Running /\ listener = "idle" /\ mainQ # <<>> /\ Head(mainQ).kind \in Requests
            /\ Head(mainQ).user # NoUser
        => isSignedIn /\ userID = Head(mainQ).user

\* The double reads of currentUser (the listener's, and signUp's) crash nobody
\* whose session the server leaves alone; what is left of the session is signOut's try!.
OnlySignOutCrashes == crash \notin {"nil user in listener", "user id is null"}

\* Sign Out removes the observer for good: until the app is started again
\* nobody is signed in and Firestore has no user, whatever is still queued.
SignedOutStays == ~observing => currentUser = NoUser /\ userID = NoUser

\* FIRAuth.h says that the listener is invoked when "the current user has signed
\* out": with every announcement delivered the screen shows it.
SignOutIsHeard == Settled /\ currentUser = NoUser => ~isSignedIn

\* Somebody who is signed in gets to see it, if the session lasts and the app is
\* not started again and again.
SignInIsShown ==
    <>[][~Relaunch]_vars =>
        (currentUser # NoUser ~> isSignedIn \/ currentUser = NoUser \/ ~Running)
====
