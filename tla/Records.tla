---- MODULE Records ----
(***************************************************************************)
(* The list of records on the summary screen: FirestoreService's snapshot  *)
(* listeners, which are added at every start and never removed, the views  *)
(* Firestore keeps for them, and what SummaryViewModel makes of the        *)
(* snapshots and of the nil that stop() publishes.                         *)
(* Three threads take part: FIRAuth's work queue changes the user, the     *)
(* main thread runs mainQ and the taps, Firestore's worker runs workerQ    *)
(* and what the backend sends.                                             *)
(***************************************************************************)
EXTENDS Naturals, Sequences, FiniteSets

CONSTANTS
    Users,
    NoUser,
    OwnerOnly,  \* whether the backend serves a collection to its owner only
    MaxRecords, \* records of a user, at most
    MaxChanges, \* changes of the user, at most
    MaxFaults   \* losses of the connection, refused writes and refreshed tokens, at most

ASSUME UsersAssumption == IsFiniteSet(Users)
ASSUME NoUserAssumption == NoUser \notin Users
ASSUME OwnerOnlyAssumption == OwnerOnly \in BOOLEAN
ASSUME RecordBoundsAssumption == MaxRecords \in Nat \ {0} /\ MaxChanges \in Nat /\ MaxFaults \in Nat

VARIABLES
    authUser,    \* FIRAuth's current user; in the keychain
    mainQ,       \* blocks for the main thread
    observing,   \* AuthService's listener is registered
    first, prevUser, \* the filter around it
    userID,      \* FirestoreService.userID
    isSignedIn,  \* LandingViewModel.isSignedIn
    published,   \* the value of userRecordsPublisher: <<>> for nil, or <<records>>
    summaryMade, \* ViewModelModule has made the SummaryViewModel
    recordList,  \* SummaryViewModel.recordList
    workerQ,     \* blocks for the worker
    currentUser, \* SyncEngine::current_user_
    views,       \* the query of each user's records: its view and its listeners
    online,      \* OnlineStateTracker::state_
    cache,       \* the records known from the backend; on disk
    pending,     \* the records in the mutation queue of each user; on disk
    server,      \* the records the backend has
    started,     \* history: the users FirestoreService was started for in this launch
    changes, faults

auth == <<authUser, observing, first, prevUser, userID, isSignedIn, started>>
summary == <<published, summaryMade, recordList>>
disk == <<cache, pending>>
vars == <<auth, mainQ, summary, workerQ, currentUser, views, online, disk, server, changes, faults>>

Anybody == Users \cup {NoUser}
Record == [owner : Users, number : 1 .. MaxRecords]

\* Nobody listens to a query before start, nor after an error.
NoView == [records |-> {}, synced |-> FALSE, raised |-> <<>>]

Listening(u) == views[u].raised # <<>>

Init ==
    /\ authUser \in Anybody
    /\ \/ mainQ = <<[kind |-> "initial"]>> /\ currentUser = authUser
       \/ mainQ = <<[kind |-> "changed", user |-> authUser], [kind |-> "initial"]>>
          /\ authUser # NoUser /\ currentUser = NoUser
    /\ observing = TRUE
    /\ first = TRUE
    /\ prevUser = NoUser
    /\ userID = NoUser
    /\ isSignedIn = FALSE
    /\ published = <<>>
    /\ summaryMade = FALSE
    /\ recordList = {}
    /\ workerQ = <<>>
    /\ views = [u \in Users |-> NoView]
    /\ online = "unknown"
    /\ server \in SUBSET [owner : Users, number : {1}]
    /\ cache \in SUBSET server
    /\ \E left \in SUBSET [owner : Users, number : {1}] :
          pending = [u \in Anybody |-> {r \in left : r.owner = u}]
    /\ started = {}
    /\ changes = 0
    /\ faults = 0

------------------------------------------------------------------------------
(* FIRAuth's work queue *)

\* From the sign-in form, which is shown once the listener was called. A person fills it in,
\* and by then the main thread has run what FIRAuth had announced before.
SignIn(u) ==
    /\ changes < MaxChanges
    /\ authUser = NoUser /\ ~isSignedIn /\ observing /\ ~first
    /\ \A i \in DOMAIN mainQ : mainQ[i].kind = "snapshot"
    /\ authUser' = u
    /\ mainQ' = Append(mainQ, [kind |-> "changed", user |-> u])
    /\ changes' = changes + 1
    /\ UNCHANGED <<observing, first, prevUser, userID, isSignedIn, started, summary, workerQ,
                   currentUser, views, online, disk, server, faults>>

\* The server ends the session.
RevokeSession ==
    /\ changes < MaxChanges
    /\ authUser # NoUser
    /\ authUser' = NoUser
    /\ mainQ' = Append(mainQ, [kind |-> "changed", user |-> NoUser])
    /\ changes' = changes + 1
    /\ UNCHANGED <<observing, first, prevUser, userID, isSignedIn, started, summary, workerQ,
                   currentUser, views, online, disk, server, faults>>

\* A new token is announced like a new user.
RefreshToken ==
    /\ faults < MaxFaults
    /\ authUser # NoUser
    /\ mainQ' = Append(mainQ, [kind |-> "changed", user |-> authUser])
    /\ faults' = faults + 1
    /\ UNCHANGED <<auth, summary, workerQ, currentUser, views, online, disk, server, changes>>

------------------------------------------------------------------------------
(* The main thread *)

\* FirestoreService.start: one more listener.
Start(u, blocks) ==
    /\ userID' = u
    /\ workerQ' = workerQ \o Append(blocks, [kind |-> "listen", user |-> u])
    /\ started' = started \cup {u}
    /\ UNCHANGED published

\* FirestoreService.stop: no listener is removed.
Stop(blocks) ==
    /\ userID' = NoUser
    /\ workerQ' = workerQ \o blocks
    /\ published' = <<>>
    /\ UNCHANGED started

\* AuthService's block, called when the user differs from the one of the call before.
\* Whatever Firestore's own observer had queued on the worker comes first.
AuthStateDidChange(blocks) ==
    /\ first' = FALSE
    /\ prevUser' = authUser
    /\ IF first \/ authUser # prevUser
       THEN /\ isSignedIn' = (authUser # NoUser)
            /\ IF authUser # NoUser THEN Start(authUser, blocks) ELSE Stop(blocks)
       ELSE /\ workerQ' = workerQ \o blocks
            /\ UNCHANGED <<isSignedIn, userID, started, published>>

NextOnMain(kind) == mainQ # <<>> /\ Head(mainQ).kind = kind /\ mainQ' = Tail(mainQ)

InitialCall ==
    /\ NextOnMain("initial")
    /\ AuthStateDidChange(<<>>)
    /\ UNCHANGED <<authUser, observing, summaryMade, recordList, currentUser, views, online, disk, server,
                   changes, faults>>

\* Firestore's observer was registered before AuthService's and takes the announced user.
Announced ==
    /\ NextOnMain("changed")
    /\ LET credential == <<[kind |-> "credential", user |-> Head(mainQ).user]>> IN
       IF observing THEN AuthStateDidChange(credential)
       ELSE /\ workerQ' = workerQ \o credential
            /\ UNCHANGED <<first, prevUser, isSignedIn, userID, started, published>>
    /\ UNCHANGED <<authUser, observing, summaryMade, recordList, currentUser, views, online, disk, server,
                   changes, faults>>

\* The listener publishes whatever snapshot comes, and the view model shows it.
OnSnapshot ==
    /\ NextOnMain("snapshot")
    /\ published' = <<Head(mainQ).records>>
    /\ recordList' = IF summaryMade THEN Head(mainQ).records ELSE recordList
    /\ UNCHANGED <<auth, summaryMade, workerQ, currentUser, views, online, disk, server,
                   changes, faults>>

\* The first look at the summary makes its view model, which hears the present value.
OpenSummary ==
    /\ isSignedIn /\ ~summaryMade
    /\ summaryMade' = TRUE
    /\ recordList' = IF published = <<>> THEN {} ELSE published[1]
    /\ UNCHANGED <<auth, mainQ, published, workerQ, currentUser, views, online, disk, server,
                   changes, faults>>

\* AuthService.signOut stops Firestore, leaves the screen as it is and signs out.
SignOut ==
    /\ isSignedIn /\ observing
    /\ userID' = NoUser
    /\ published' = <<>>
    /\ observing' = FALSE
    /\ authUser' = NoUser
    /\ mainQ' = IF authUser = NoUser THEN mainQ
                ELSE Append(mainQ, [kind |-> "changed", user |-> NoUser])
    /\ UNCHANGED <<first, prevUser, isSignedIn, started, summaryMade, recordList, workerQ,
                   currentUser, views, online, disk, server, changes, faults>>

\* The records here, on the way and elsewhere.
Written == {workerQ[i].record : i \in {j \in DOMAIN workerQ : workerQ[j].kind = "write"}}
Known == server \cup Written \cup UNION {pending[u] : u \in Anybody}

\* A new document id is nobody's yet.
NewRecord(u) == {[owner |-> u, number |-> n] :
                   n \in {m \in 1 .. MaxRecords : \A r \in Known : r.owner = u => r.number < m} }

Save ==
    /\ userID # NoUser
    /\ \E r \in NewRecord(userID) : workerQ' = Append(workerQ, [kind |-> "write", record |-> r])
    /\ UNCHANGED <<auth, mainQ, summary, currentUser, views, online, disk, server, changes, faults>>

------------------------------------------------------------------------------
(* The worker *)

\* What the local store knows of a collection: the cache under the current user's writes.
LocalRecords(u) == {r \in cache \cup pending[currentUser] : r.owner = u}

\* An event is raised for changed records; the first one for a view that is in sync, or shows
\* something, or will not be in sync soon.
Raises(raised, changed, view, state) ==
    IF raised THEN changed
    ELSE view.synced \/ view.records # {} \/ state = "offline"

\* The listeners of a view, by their place, that are called when it becomes another.
Told(old, view, state) ==
    {i \in DOMAIN view.raised : Raises(view.raised[i], view.records # old.records, view, state)}

\* QueryListener::OnViewSnapshot for each listener of a view.
Noticed(old, view, state) ==
    [view EXCEPT !.raised = [i \in DOMAIN @ |-> @[i] \/ i \in Told(old, view, state)]]

Snapshot(view) == [kind |-> "snapshot", records |-> view.records]

\* In which order listeners are called: those of a query together, the queries in no special order.
Calls(told) ==
    {calls \in [1 .. Cardinality(UNION {{u} \X told[u] : u \in Users}) -> Users] :
        /\ \A u \in Users : Cardinality({i \in DOMAIN calls : calls[i] = u}) = Cardinality(told[u])
        /\ \A i, k \in DOMAIN calls : calls[i] = calls[k] => \A j \in i .. k : calls[j] = calls[i]}

\* New views and their snapshots.
Emit(next, state) ==
    /\ views' = [u \in Users |-> Noticed(views[u], next[u], state)]
    /\ \E calls \in Calls([u \in Users |-> Told(views[u], next[u], state)]) :
          mainQ' = mainQ \o [i \in DOMAIN calls |-> Snapshot(next[calls[i]])]

\* The views over the local store as it is after the step.
Recomputed == [u \in Users |-> IF Listening(u) THEN [views[u] EXCEPT !.records = LocalRecords(u)'] ELSE views[u]]

NextOnWorker(kind) == workerQ # <<>> /\ Head(workerQ).kind = kind /\ workerQ' = Tail(workerQ)

\* Another user has another mutation queue; the streams start again in any case.
HandleCredentialChange ==
    /\ NextOnWorker("credential")
    /\ currentUser' = Head(workerQ).user
    /\ UNCHANGED disk
    /\ Emit(Recomputed, online)
    /\ online' = "unknown"
    /\ UNCHANGED <<auth, summary, server, changes, faults>>

\* A new query computes its view; a known one just gets a listener more.
Listened(u) ==
    [(IF Listening(u) THEN views[u] ELSE [NoView EXCEPT !.records = LocalRecords(u)])
        EXCEPT !.raised = Append(@, FALSE)]

Listen ==
    /\ NextOnWorker("listen")
    /\ LET u == Head(workerQ).user IN
       LET view == Listened(u) IN
       /\ views' = [views EXCEPT ![u] = Noticed(view, view, online)]
       /\ mainQ' = mainQ \o [i \in 1 .. Cardinality(Told(view, view, online)) |-> Snapshot(view)]
    /\ UNCHANGED <<auth, summary, currentUser, online, disk, server, changes, faults>>

WriteMutations ==
    /\ NextOnWorker("write")
    /\ pending' = [pending EXCEPT ![currentUser] = @ \cup {Head(workerQ).record}]
    /\ UNCHANGED <<currentUser, cache>>
    /\ Emit(Recomputed, online)
    /\ UNCHANGED <<auth, summary, online, server, changes, faults>>

\* Mutant: the result of a write is not looked at.
HandleAnyWrite ==
    /\ \E r \in pending[currentUser] :
        /\ pending' = [pending EXCEPT ![currentUser] = @ \ {r}]
        /\ cache' = cache \cup {r}
    /\ UNCHANGED currentUser
    /\ Emit(Recomputed, online)
    /\ UNCHANGED <<auth, summary, workerQ, online, server, changes, faults>>

\* A stored record stays in the cache, where a rejected one never was.
HandleSuccessfulWrite ==
    /\ \E r \in pending[currentUser] \cap server :
        /\ pending' = [pending EXCEPT ![currentUser] = @ \ {r}]
        /\ cache' = cache \cup {r}
    /\ UNCHANGED currentUser
    /\ Emit(Recomputed, online)
    /\ UNCHANGED <<auth, summary, workerQ, online, server, changes, faults>>

\* Mutant: a refused record stays in the views.
HandleRejectedWriteOnly ==
    /\ faults < MaxFaults
    /\ \E r \in pending[currentUser] \ server :
        pending' = [pending EXCEPT ![currentUser] = @ \ {r}]
    /\ faults' = faults + 1
    /\ UNCHANGED <<auth, mainQ, summary, workerQ, currentUser, views, online, cache, server, changes>>

\* The local store reverts a refused write, and the views with it.
HandleRejectedWrite ==
    /\ faults < MaxFaults
    /\ \E r \in pending[currentUser] \ server :
        pending' = [pending EXCEPT ![currentUser] = @ \ {r}]
    /\ UNCHANGED <<currentUser, cache>>
    /\ Emit(Recomputed, online)
    /\ faults' = faults + 1
    /\ UNCHANGED <<auth, summary, workerQ, online, server, changes>>

\* Mutant: the streams are not restarted with the credential.
ServedOnOldStream(u) == OwnerOnly => u \in started

\* The streams are those of the current user, and what they are refused is the backend's rule.
Served(u) == OwnerOnly => u = currentUser

\* The watch stream brings a query up to date.
ApplyRemoteEvent(u) ==
    /\ Listening(u) /\ Served(u)
    /\ cache' = cache \cup {r \in server : r.owner = u}
    /\ UNCHANGED <<currentUser, pending>>
    /\ Emit([Recomputed EXCEPT ![u].synced = TRUE], "online")
    /\ online' = "online"
    /\ UNCHANGED <<auth, summary, workerQ, server, changes, faults>>

\* An error takes the listeners with it.
AfterError(u) == NoView

\* The backend refuses the query; FirestoreService's listener only prints the error.
HandleRejectedListen(u) ==
    /\ Listening(u) /\ ~Served(u)
    /\ views' = [views EXCEPT ![u] = AfterError(u)]
    /\ online' = "online"
    /\ UNCHANGED <<auth, mainQ, summary, workerQ, currentUser, disk, server, changes, faults>>

\* The watch stream fails, or does not answer in time: nothing is in sync any more.
GoOffline ==
    /\ faults < MaxFaults
    /\ online # "offline"
    /\ \E u \in Users : Listening(u)
    /\ online' = "offline"
    /\ Emit([u \in Users |-> [views[u] EXCEPT !.synced = FALSE]], "offline")
    /\ faults' = faults + 1
    /\ UNCHANGED <<auth, summary, workerQ, currentUser, disk, server, changes>>

------------------------------------------------------------------------------
(* The backend *)

\* It takes a write, or another device of the user adds a record.
Stored ==
    /\ \E r \in {x \in pending[currentUser] : Served(x.owner)} \cup UNION {NewRecord(u) : u \in Users} :
          server' = server \cup {r}
    /\ UNCHANGED <<auth, mainQ, summary, workerQ, currentUser, views, online, disk, changes, faults>>

Auth == (\E u \in Users : SignIn(u)) \/ RevokeSession \/ RefreshToken
Main == InitialCall \/ Announced \/ OnSnapshot \/ OpenSummary \/ SignOut \/ Save
Worker ==
    \/ HandleCredentialChange \/ Listen \/ WriteMutations
    \/ HandleSuccessfulWrite \/ HandleRejectedWrite \/ GoOffline
    \/ \E u \in Users : ApplyRemoteEvent(u) \/ HandleRejectedListen(u)

Next == Auth \/ Main \/ Worker \/ Stored

Spec == Init /\ [][Next]_vars

------------------------------------------------------------------------------
(* Properties *)

View == [records : SUBSET Record, synced : BOOLEAN, raised : Seq(BOOLEAN)]
MainBlock ==
    [kind : {"initial"}] \cup [kind : {"changed"}, user : Anybody]
    \cup [kind : {"snapshot"}, records : SUBSET Record]
WorkerBlock ==
    [kind : {"credential"}, user : Anybody] \cup [kind : {"listen"}, user : Users]
    \cup [kind : {"write"}, record : Record]

\* The types of the variables.
TypeOK ==
    /\ authUser \in Anybody /\ prevUser \in Anybody /\ userID \in Anybody /\ currentUser \in Anybody
    /\ mainQ \in Seq(MainBlock) /\ workerQ \in Seq(WorkerBlock)
    /\ observing \in BOOLEAN /\ first \in BOOLEAN /\ isSignedIn \in BOOLEAN /\ summaryMade \in BOOLEAN
    /\ recordList \subseteq Record
    /\ published \in Seq(SUBSET Record) /\ Len(published) <= 1
    /\ views \in [Users -> View]
    /\ online \in {"unknown", "online", "offline"}
    /\ cache \subseteq server /\ server \subseteq Record
    /\ pending \in [Anybody -> SUBSET Record]
    /\ started \subseteq Users
    /\ changes \in 0 .. MaxChanges /\ faults \in 0 .. MaxFaults

\* The summary is made, nothing is under way, and the listener added by the last start has
\* been called.
Settled ==
    /\ userID # NoUser /\ summaryMade
    /\ mainQ = <<>> /\ workerQ = <<>>
    /\ Listening(userID) /\ views[userID].raised[Len(views[userID].raised)]

\* The records of one user never stay on the screen of the next, although the listeners of
\* the one go on publishing and the list ignores the nil of stop().
NobodyElsesRecords == Settled => \A r \in recordList : r.owner = userID

\* As long as there was one user, the list is what Firestore knows of the records, whatever
\* was started twice, told twice, rejected or lost with the process.
ListIsCurrent == Settled /\ started = {userID} => recordList = LocalRecords(userID)
====
