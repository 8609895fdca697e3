---- MODULE RecordsProofs ----
(***************************************************************************)
(* Listeners are added at every start and never removed, and the list      *)
(* shows whatever snapshot came last.  That a settled list is the present  *)
(* user's all the same, and with one user in the launch the whole of what  *)
(* Firestore knows, for any users, records, changes and faults.            *)
(***************************************************************************)
EXTENDS Records, FiniteSetTheorems, TLAPS

------------------------------------------------------------------------------
(* Who is whose user when *)

\* u is the worker's user once all blocks of q before the i-th have run, when it is c now.
UserAt(q, c, i, u) ==
    \/ u = c /\ \A j \in 1 .. i - 1 : q[j].kind # "credential"
    \/ \E j \in 1 .. i - 1 :
          /\ q[j].kind = "credential" /\ q[j].user = u
          /\ \A k \in j + 1 .. i - 1 : q[k].kind # "credential"

\* FirestoreService has FIRAuth's user or nobody, and what FIRAuth still has to announce is the
\* user it has, unless it has nobody.
Heard ==
    /\ authUser # NoUser => \A i \in DOMAIN mainQ : mainQ[i].kind = "changed" => mainQ[i].user = authUser
    /\ userID # NoUser => isSignedIn /\ observing /\ ~first /\ prevUser = userID
    /\ ~observing => authUser = NoUser

\* The worker comes to a write and to a query as the user whose it is.
Handed(q, c) ==
    \A i \in DOMAIN q :
        /\ q[i].kind = "write" => UserAt(q, c, i, q[i].record.owner)
        /\ q[i].kind = "listen" => UserAt(q, c, i, q[i].user)

\* The worker has heard of u when all its blocks have run.
HeardOf(u) == UserAt(workerQ, currentUser, Len(workerQ) + 1, u)

\* A launch's user is the worker's already, or is announced ahead of the listener's initial call.
AtLaunch ==
    \A i \in DOMAIN mainQ :
        mainQ[i].kind = "initial" /\ authUser # NoUser =>
            HeardOf(authUser) \/ \E j \in 1 .. i - 1 : mainQ[j].kind = "changed"

\* Other users come before the last listener of FirestoreService's user.
LastListen(u, q, c) ==
    /\ c # u => \E j \in DOMAIN q : q[j].kind = "listen" /\ q[j].user = u
    /\ \A i \in DOMAIN q :
          q[i].kind = "credential" /\ q[i].user # u =>
              \E j \in i + 1 .. Len(q) : q[j].kind = "listen" /\ q[j].user = u

OnTheWorker ==
    /\ Handed(workerQ, currentUser)
    /\ userID # NoUser => HeardOf(userID) /\ LastListen(userID, workerQ, currentUser)

Handing == OnTheWorker /\ AtLaunch

------------------------------------------------------------------------------
(* What is shown *)

OwnQueues == \A u \in Anybody : \A r \in pending[u] : r.owner = u

\* A view is what the local store knows, and who was not called yet misses nothing.
Current ==
    \A u \in Users :
        /\ Listening(u) => views[u].records = LocalRecords(u)
        /\ \A i \in DOMAIN views[u].raised : ~views[u].raised[i] => views[u].records = {}

Shown == IF summaryMade THEN recordList ELSE IF published = <<>> THEN {} ELSE published[1]

\* The list is rs once the main queue has run.
WillShow(rs) ==
    \/ rs = Shown /\ \A i \in DOMAIN mainQ : mainQ[i].kind # "snapshot"
    \/ \E i \in DOMAIN mainQ :
          /\ mainQ[i].kind = "snapshot" /\ mainQ[i].records = rs
          /\ \A k \in i + 1 .. Len(mainQ) : mainQ[k].kind # "snapshot"

Pending(u) == \E i \in DOMAIN workerQ : workerQ[i].kind = "listen" /\ workerQ[i].user = u

\* The listener of the last start was called.
Called ==
    /\ userID # NoUser /\ ~Pending(userID)
    /\ Listening(userID) /\ views[userID].raised[Len(views[userID].raised)]

ShowsNobodyElses == Called => \A rs \in SUBSET Record : WillShow(rs) => \A r \in rs : r.owner = userID

\* Only users who were started are listened to.
Started == \A u \in Users : Listening(u) \/ Pending(u) => u \in started

ShowsAll == Called /\ started = {userID} => \A rs \in SUBSET Record : WillShow(rs) => rs = views[userID].records

------------------------------------------------------------------------------
(* Queues of blocks *)

LEMMA Appended ==
    ASSUME NEW S, NEW q \in Seq(S), NEW x
    PROVE  /\ Len(q) \in Nat /\ DOMAIN q = 1 .. Len(q)
           /\ Len(Append(q, x)) = Len(q) + 1 /\ DOMAIN Append(q, x) = 1 .. Len(q) + 1
           /\ \A i \in DOMAIN q : Append(q, x)[i] = q[i]
           /\ Append(q, x)[Len(q) + 1] = x
OBVIOUS

LEMMA Taken ==
    ASSUME NEW S, NEW q \in Seq(S), q # <<>>
    PROVE  /\ Len(q) \in Nat \ {0} /\ Len(Tail(q)) = Len(q) - 1 /\ DOMAIN q = 1 .. Len(q)
           /\ DOMAIN Tail(q) = 1 .. Len(q) - 1 /\ Head(q) = q[1] /\ Head(q) \in S /\ Tail(q) \in Seq(S)
           /\ \A i \in DOMAIN Tail(q) : Tail(q)[i] = q[i + 1] /\ i + 1 \in DOMAIN q
OBVIOUS

LEMMA Joined ==
    ASSUME NEW S, NEW q \in Seq(S), NEW t \in Seq(S)
    PROVE  /\ Len(q) \in Nat /\ Len(t) \in Nat /\ DOMAIN q = 1 .. Len(q) /\ DOMAIN t = 1 .. Len(t)
           /\ q \o t \in Seq(S) /\ DOMAIN (q \o t) = 1 .. Len(q) + Len(t)
           /\ \A i \in DOMAIN q : (q \o t)[i] = q[i]
           /\ \A i \in DOMAIN t : (q \o t)[Len(q) + i] = t[i]
OBVIOUS

\* Blocks put at the end change nothing for those before them.
LEMMA FarFromTheEnd ==
    ASSUME NEW S, NEW q \in Seq(S), NEW x, NEW c, NEW i \in 1 .. Len(q) + 1, NEW u, UserAt(q, c, i, u)
    PROVE  UserAt(Append(q, x), c, i, u)
<1> DEFINE a == Append(q, x)
<1>1. \A j \in DOMAIN q : a[j] = q[j]
  BY Appended
<1>2. Len(q) \in Nat /\ DOMAIN q = 1 .. Len(q)
  OBVIOUS
<1>3. \A j \in 1 .. i - 1 : a[j] = q[j] /\ \A k \in j + 1 .. i - 1 : a[k] = q[k]
  BY <1>1, <1>2
<1> HIDE DEF a
<1> QED BY <1>3 DEF UserAt, a

LEMMA AtTheEnd ==
    ASSUME NEW S, NEW q \in Seq(S), NEW x, NEW c
    PROVE  /\ x.kind = "credential" => UserAt(Append(q, x), c, Len(q) + 2, x.user)
           /\ \A u : x.kind # "credential" /\ UserAt(q, c, Len(q) + 1, u) => UserAt(Append(q, x), c, Len(q) + 2, u)
<1> DEFINE a == Append(q, x)
           n == Len(q)
<1>1. /\ n \in Nat /\ n + 2 - 1 = n + 1 /\ n + 1 - 1 = n
      /\ \A j \in 1 .. n : a[j] = q[j]
      /\ a[n + 1] = x
  BY Appended
<1> HIDE DEF a, n
<1>2. ASSUME x.kind = "credential" PROVE UserAt(a, c, n + 2, x.user)
  <2>1. n + 1 \in 1 .. n + 2 - 1 /\ \A k \in n + 1 + 1 .. n + 2 - 1 : a[k].kind # "credential"
    BY <1>1
  <2> QED BY <1>1, <1>2, <2>1 DEF UserAt
<1>3. ASSUME NEW u, x.kind # "credential", UserAt(q, c, n + 1, u) PROVE UserAt(a, c, n + 2, u)
  <2>1. CASE u = c /\ \A j \in 1 .. n + 1 - 1 : q[j].kind # "credential"
    <3>1. \A j \in 1 .. n + 2 - 1 : a[j].kind # "credential"
      BY <1>1, <1>3, <2>1
    <3> QED BY <1>1, <2>1, <3>1 DEF UserAt
  <2>2. ASSUME NEW j \in 1 .. n + 1 - 1, q[j].kind = "credential", q[j].user = u,
               \A k \in j + 1 .. n + 1 - 1 : q[k].kind # "credential"
        PROVE  UserAt(a, c, n + 2, u)
    <3>1. j \in 1 .. n + 2 - 1 /\ a[j].kind = "credential" /\ a[j].user = u
      BY <1>1, <2>2
    <3>2. \A k \in j + 1 .. n + 2 - 1 : a[k].kind # "credential"
      BY <1>1, <1>3, <2>2
    <3> QED BY <1>1, <3>1, <3>2 DEF UserAt
  <2> QED BY <1>1, <1>3, <2>1, <2>2 DEF UserAt
<1> QED BY <1>2, <1>3 DEF a, n

\* The worker's user after the first block of q.
Next1(q, c) == IF Head(q).kind = "credential" THEN Head(q).user ELSE c

LEMMA FirstRuns ==
    ASSUME NEW S, NEW q \in Seq(S), q # <<>>, NEW c, NEW i \in 1 .. Len(q), NEW u, UserAt(q, c, i + 1, u)
    PROVE  UserAt(Tail(q), Next1(q, c), i, u)
<1> DEFINE t == Tail(q)
           d == Next1(q, c)
<1>1. /\ Len(q) \in Nat \ {0} /\ Head(q) = q[1]
      /\ \A j \in 1 .. Len(q) - 1 : t[j] = q[j + 1]
  BY Taken
<1> HIDE DEF t
<1>2. \A j \in 1 .. i - 1 : t[j] = q[j + 1] /\ j + 1 \in 1 .. i + 1 - 1
  BY <1>1
<1>3. CASE u = c /\ \A j \in 1 .. i + 1 - 1 : q[j].kind # "credential"
  <2>1. 1 \in 1 .. i + 1 - 1
    BY <1>1
  <2> QED BY <1>1, <1>2, <1>3, <2>1 DEF UserAt, t, Next1
<1>4. ASSUME NEW j \in 1 .. i + 1 - 1, q[j].kind = "credential", q[j].user = u,
             \A k \in j + 1 .. i + 1 - 1 : q[k].kind # "credential"
      PROVE  UserAt(t, d, i, u)
  <2>1. CASE j = 1
    <3>1. \A k \in 1 .. i - 1 : k + 1 \in j + 1 .. i + 1 - 1
      BY <2>1
    <3> QED BY <1>1, <1>2, <1>4, <2>1, <3>1 DEF UserAt, Next1
  <2>2. CASE j # 1
    <3>1. j - 1 \in 1 .. i - 1 /\ t[j - 1] = q[j]
      BY <1>1, <2>2
    <3>2. \A k \in j - 1 + 1 .. i - 1 : k \in 1 .. i - 1 /\ k + 1 \in j + 1 .. i + 1 - 1
      BY <2>2
    <3> QED BY <1>2, <1>4, <3>1, <3>2 DEF UserAt
  <2> QED BY <2>1, <2>2
<1> QED BY <1>3, <1>4 DEF UserAt, t

LEMMA AtTheFront == ASSUME NEW q, NEW c, NEW u, UserAt(q, c, 1, u) PROVE u = c
<1>1. 1 .. 1 - 1 = {}
  OBVIOUS
<1> QED BY <1>1 DEF UserAt

------------------------------------------------------------------------------
(* Views and the snapshots of them *)

LEMMA NoticedIsAView ==
    ASSUME NEW old, NEW view \in View, NEW state
    PROVE  /\ Noticed(old, view, state) \in View
           /\ Noticed(old, view, state).records = view.records
           /\ Noticed(old, view, state).synced = view.synced
           /\ DOMAIN Noticed(old, view, state).raised = DOMAIN view.raised
           /\ Len(Noticed(old, view, state).raised) = Len(view.raised)
           /\ \A i \in DOMAIN view.raised :
                 Noticed(old, view, state).raised[i] <=> view.raised[i] \/ i \in Told(old, view, state)
<1> DEFINE told == Told(old, view, state)
           r == [i \in DOMAIN view.raised |-> view.raised[i] \/ i \in told]
<1> HIDE DEF told
<1>1. view.raised \in Seq(BOOLEAN) /\ Len(view.raised) \in Nat /\ DOMAIN view.raised = 1 .. Len(view.raised)
  BY DEF View
<1>2. r \in Seq(BOOLEAN) /\ Len(r) = Len(view.raised) /\ DOMAIN r = DOMAIN view.raised
  BY <1>1
<1>3. \A i \in DOMAIN view.raised : r[i] <=> view.raised[i] \/ i \in told
  OBVIOUS
<1>4. Noticed(old, view, state) = [view EXCEPT !.raised = r]
  BY DEF Noticed, told
<1> HIDE DEF r
<1>5. /\ [view EXCEPT !.raised = r] \in View
      /\ [view EXCEPT !.raised = r].records = view.records
      /\ [view EXCEPT !.raised = r].synced = view.synced
      /\ [view EXCEPT !.raised = r].raised = r
  BY <1>2 DEF View
<1> QED BY <1>2, <1>3, <1>4, <1>5 DEF told

\* As many calls as listeners are told, so a query is heard of if one of its listeners is told.
LEMMA CallsOfTheTold ==
    ASSUME NEW told, \A u \in Users : IsFiniteSet(told[u]), NEW calls \in Calls(told)
    PROVE  /\ calls \in Seq(Users)
           /\ \A u \in Users : (\E i \in DOMAIN calls : calls[i] = u) <=> told[u] # {}
<1> DEFINE parts == {{u} \X told[u] : u \in Users}
           all == UNION parts
<1>1. IsFiniteSet(parts)
  <2> DEFINE part == [u \in Users |-> {u} \X told[u]]
  <2>1. part \in Surjection(Users, parts)
    BY DEF Surjection
  <2> QED BY <2>1, FS_Surjection, UsersAssumption
<1>2. \A p \in parts : IsFiniteSet(p)
  <2> SUFFICES ASSUME NEW u \in Users PROVE IsFiniteSet({u} \X told[u])
    OBVIOUS
  <2> QED BY FS_Singleton, FS_Product
<1>3. Cardinality(all) \in Nat
  BY <1>1, <1>2, FS_UNION, FS_CardinalityType
<1>4. calls \in [1 .. Cardinality(all) -> Users]
  BY DEF Calls
<1>5. \A u \in Users : Cardinality({i \in DOMAIN calls : calls[i] = u}) = Cardinality(told[u])
  BY DEF Calls
<1> HIDE DEF all, parts
<1>6. calls \in Seq(Users)
  BY <1>3, <1>4
<1>7. ASSUME NEW u \in Users PROVE (\E i \in DOMAIN calls : calls[i] = u) <=> told[u] # {}
  <2> DEFINE here == {i \in DOMAIN calls : calls[i] = u}
  <2>1. IsFiniteSet(here)
    <3>1. IsFiniteSet(1 .. Cardinality(all))
      BY <1>3, FS_Interval
    <3>2. here \in SUBSET (1 .. Cardinality(all))
      BY <1>4
    <3> QED BY <3>1, <3>2, FS_Subset
  <2>2. Cardinality(here) = Cardinality(told[u])
    BY <1>5
  <2>3. here = {} <=> told[u] = {}
    BY <2>1, <2>2, FS_EmptySet
  <2> QED BY <2>3
<1> QED BY <1>6, <1>7

\* The snapshots of the called, in the order of the calls.
SnapshotsOf(next, calls) == [i \in DOMAIN calls |-> Snapshot(next[calls[i]])]

LEMMA SnapshotsAreBlocks ==
    ASSUME NEW next \in [Users -> View], NEW calls \in Seq(Users)
    PROVE  /\ SnapshotsOf(next, calls) \in Seq(MainBlock)
           /\ Len(SnapshotsOf(next, calls)) = Len(calls)
           /\ \A i \in DOMAIN calls :
                 /\ calls[i] \in Users
                 /\ SnapshotsOf(next, calls)[i].kind = "snapshot"
                 /\ SnapshotsOf(next, calls)[i].records = next[calls[i]].records
<1>1. \A i \in DOMAIN calls : calls[i] \in Users
  OBVIOUS
<1>2. \A u \in Users : Snapshot(next[u]) \in MainBlock
  <2> SUFFICES ASSUME NEW u \in Users PROVE Snapshot(next[u]) \in MainBlock
    OBVIOUS
  <2>1. next[u].records \in SUBSET Record
    BY DEF View
  <2> QED BY <2>1 DEF Snapshot, MainBlock
<1>3. SnapshotsOf(next, calls) \in Seq(MainBlock) /\ Len(SnapshotsOf(next, calls)) = Len(calls)
  BY <1>1, <1>2 DEF SnapshotsOf
<1> QED BY <1>1, <1>3 DEF SnapshotsOf, Snapshot

\* What a step that computes new views does to them and to the main queue.
Emitted(next, state) ==
    /\ views' \in [Users -> View]
    /\ \A u \in Users :
          /\ views'[u].records = next[u].records /\ views'[u].synced = next[u].synced
          /\ Len(views'[u].raised) = Len(views[u].raised)
          /\ DOMAIN views'[u].raised = DOMAIN views[u].raised
          /\ \A i \in DOMAIN views[u].raised :
                views'[u].raised[i] <=> views[u].raised[i] \/ i \in Told(views[u], next[u], state)
    /\ \E calls \in Seq(Users) :
          /\ mainQ' = mainQ \o SnapshotsOf(next, calls)
          /\ \A u \in Users : (\E i \in DOMAIN calls : calls[i] = u) <=> Told(views[u], next[u], state) # {}

\* Views of the same listeners.
Views(next) == next \in [Users -> View] /\ \A u \in Users : next[u].raised = views[u].raised

LEMMA EmitEmits ==
    ASSUME NEW next, NEW state, Views(next), Emit(next, state)
    PROVE  Emitted(next, state)
<1> DEFINE told == [u \in Users |-> Told(views[u], next[u], state)]
<1>1. \A u \in Users : next[u] \in View /\ next[u].raised = views[u].raised
  BY DEF Views
<1>2. views' = [u \in Users |-> Noticed(views[u], next[u], state)]
  BY DEF Emit
<1>3. \A u \in Users : IsFiniteSet(told[u])
  <2> SUFFICES ASSUME NEW u \in Users PROVE IsFiniteSet(Told(views[u], next[u], state))
    OBVIOUS
  <2>1. Len(next[u].raised) \in Nat /\ DOMAIN next[u].raised = 1 .. Len(next[u].raised)
    BY <1>1 DEF View
  <2>2. Told(views[u], next[u], state) \in SUBSET (1 .. Len(next[u].raised))
    BY <1>1, <2>1 DEF Told
  <2>3. IsFiniteSet(1 .. Len(next[u].raised))
    BY <2>1, FS_Interval
  <2> QED BY <2>2, <2>3, FS_Subset
<1>4. PICK calls \in Calls(told) : mainQ' = mainQ \o SnapshotsOf(next, calls)
  BY DEF Emit, SnapshotsOf
<1>5. /\ calls \in Seq(Users)
      /\ \A u \in Users : (\E i \in DOMAIN calls : calls[i] = u) <=> told[u] # {}
  <2> HIDE DEF told
  <2> QED BY <1>3, CallsOfTheTold
<1>6. \A u \in Users : views'[u] = Noticed(views[u], next[u], state)
  BY <1>2
<1>7. views' \in [Users -> View]
  BY <1>1, <1>2, NoticedIsAView
<1>8. ASSUME NEW u \in Users
      PROVE  /\ views'[u].records = next[u].records /\ views'[u].synced = next[u].synced
             /\ Len(views'[u].raised) = Len(views[u].raised)
             /\ DOMAIN views'[u].raised = DOMAIN views[u].raised
             /\ \A i \in DOMAIN views[u].raised :
                   views'[u].raised[i] <=> views[u].raised[i] \/ i \in Told(views[u], next[u], state)
  <2> DEFINE old == views[u]
             view == next[u]
  <2>1. view \in View /\ view.raised = old.raised /\ views'[u] = Noticed(old, view, state)
    BY <1>1, <1>6
  <2> HIDE DEF old, view
  <2>2. /\ views'[u].records = view.records /\ views'[u].synced = view.synced
        /\ DOMAIN views'[u].raised = DOMAIN old.raised
        /\ Len(views'[u].raised) = Len(old.raised)
        /\ \A i \in DOMAIN old.raised :
              views'[u].raised[i] <=> old.raised[i] \/ i \in Told(old, view, state)
    BY <2>1, NoticedIsAView
  <2> QED BY <2>2 DEF old, view
<1>9. \A u \in Users : (\E i \in DOMAIN calls : calls[i] = u) <=> Told(views[u], next[u], state) # {}
  BY <1>5
<1>10. \E c \in Seq(Users) :
         /\ mainQ' = mainQ \o SnapshotsOf(next, c)
         /\ \A u \in Users : (\E i \in DOMAIN c : c[i] = u) <=> Told(views[u], next[u], state) # {}
  <2> HIDE DEF told
  <2> QED BY <1>4, <1>5, <1>9, Zenon
<1> HIDE DEF told
<1> QED BY <1>7, <1>8, <1>10, Zenon DEF Emitted

\* A listener more.
LEMMA ListenedIsAView ==
    ASSUME TypeOK, NEW u \in Users
    PROVE  /\ Listened(u) \in View
           /\ Listening(u) => Listened(u).records = views[u].records /\ Listened(u).raised = Append(views[u].raised, FALSE)
           /\ ~Listening(u) => Listened(u).records = LocalRecords(u) /\ Listened(u).raised = <<FALSE>>
<1>1. views[u] \in View /\ views[u].raised \in Seq(BOOLEAN)
  BY DEF TypeOK, View
<1>2. CASE Listening(u)
  <2>1. Append(views[u].raised, FALSE) \in Seq(BOOLEAN)
    BY <1>1
  <2> QED BY <1>1, <1>2, <2>1 DEF Listened, View
<1>3. CASE ~Listening(u)
  <2> DEFINE known == LocalRecords(u)
  <2>1. known \in SUBSET Record
    BY DEF LocalRecords, TypeOK, Anybody
  <2> HIDE DEF known
  <2>2. Listened(u) = [[NoView EXCEPT !.records = known] EXCEPT !.raised = Append(@, FALSE)]
    BY <1>3 DEF Listened, known
  <2>3. NoView \in View /\ NoView.raised = <<>>
    BY DEF NoView, View
  <2> DEFINE computed == [NoView EXCEPT !.records = known]
  <2>4. computed \in View /\ computed.records = known /\ computed.raised = <<>>
    BY <2>1, <2>3 DEF View
  <2> HIDE DEF computed
  <2>5. Append(computed.raised, FALSE) = <<FALSE>> /\ <<FALSE>> \in Seq(BOOLEAN)
    BY <2>4
  <2>6. Listened(u) \in View /\ Listened(u).records = known /\ Listened(u).raised = <<FALSE>>
    <3> DEFINE one == <<FALSE>>
    <3>1. Listened(u) = [computed EXCEPT !.raised = one] /\ one \in Seq(BOOLEAN)
      BY <2>2, <2>5 DEF computed
    <3> HIDE DEF one
    <3>2. Listened(u) \in View /\ Listened(u).records = known /\ Listened(u).raised = one
      BY <2>4, <3>1 DEF View
    <3> QED BY <3>2 DEF one
  <2> QED BY <1>3, <2>6 DEF known
<1> QED BY <1>2, <1>3

LEMMA KnownRecords ==
    ASSUME cache \subseteq Record, pending \in [Anybody -> SUBSET Record], currentUser \in Anybody, NEW u
    PROVE  LocalRecords(u) \in SUBSET Record
BY DEF LocalRecords

LEMMA RecomputedViews ==
    ASSUME TypeOK, cache' \subseteq Record, pending' \in [Anybody -> SUBSET Record], currentUser' \in Anybody
    PROVE  /\ Views(Recomputed)
           /\ \A u \in Users :
                 Recomputed[u].records = IF Listening(u) THEN LocalRecords(u)' ELSE views[u].records
<1>1. \A u \in Users : LocalRecords(u)' \in SUBSET Record
  BY DEF LocalRecords
<1>2. ASSUME NEW u \in Users
      PROVE  /\ Recomputed[u] \in View /\ Recomputed[u].raised = views[u].raised
             /\ Recomputed[u].records = IF Listening(u) THEN LocalRecords(u)' ELSE views[u].records
  <2> DEFINE known == LocalRecords(u)'
             old == views[u]
  <2>1. known \in SUBSET Record /\ old \in View
    BY <1>1 DEF TypeOK
  <2>2. Recomputed[u] = IF Listening(u) THEN [old EXCEPT !.records = known] ELSE old
    BY DEF Recomputed
  <2> HIDE DEF known, old
  <2>3. /\ [old EXCEPT !.records = known] \in View /\ [old EXCEPT !.records = known].raised = old.raised
        /\ [old EXCEPT !.records = known].records = known
    BY <2>1 DEF View
  <2> QED BY <2>1, <2>2, <2>3 DEF known, old
<1>3. Recomputed \in [Users -> View]
  <2>1. Recomputed = [u \in Users |-> Recomputed[u]]
    BY DEF Recomputed
  <2> QED BY <1>2, <2>1
<1> QED BY <1>2, <1>3 DEF Views

\* A step that computes views anew, from what the local store knows after it.
Emits ==
    \E next, state :
        /\ Views(next) /\ Emitted(next, state)
        /\ \A u \in Users :
              \/ Listening(u) /\ next[u].records = LocalRecords(u)'
              \/ /\ next[u].records = views[u].records
                 /\ Listening(u) => LocalRecords(u)' = LocalRecords(u)

LEMMA RecomputedEmits ==
    ASSUME TypeOK, cache' \subseteq Record, pending' \in [Anybody -> SUBSET Record], currentUser' \in Anybody,
           NEW state, Emit(Recomputed, state)
    PROVE  Emits
<1> DEFINE next == Recomputed
<1>1. /\ Views(next)
      /\ \A u \in Users : next[u].records = IF Listening(u) THEN LocalRecords(u)' ELSE views[u].records
  BY RecomputedViews
<1>2. Emit(next, state)
  OBVIOUS
<1> HIDE DEF next
<1>3. Emitted(next, state)
  BY <1>1, <1>2, EmitEmits
<1>4. \A u \in Users :
         \/ Listening(u) /\ next[u].records = LocalRecords(u)'
         \/ next[u].records = views[u].records /\ (Listening(u) => LocalRecords(u)' = LocalRecords(u))
  BY <1>1
<1> QED BY <1>1, <1>3, <1>4, Zenon DEF Emits

LEMMA CredentialEmits == ASSUME TypeOK, HandleCredentialChange PROVE Emits
<1>1. Head(workerQ) \in WorkerBlock /\ Head(workerQ).kind = "credential"
  BY DEF TypeOK, HandleCredentialChange, NextOnWorker
<1>2. currentUser' \in Anybody /\ UNCHANGED <<cache, pending>>
  BY <1>1 DEF HandleCredentialChange, disk, WorkerBlock
<1> QED BY <1>2, RecomputedEmits DEF HandleCredentialChange, TypeOK

LEMMA WriteEmits == ASSUME TypeOK, WriteMutations PROVE Emits /\ pending' \in [Anybody -> SUBSET Record]
<1>1. Head(workerQ) \in WorkerBlock /\ Head(workerQ).kind = "write"
  BY DEF TypeOK, WriteMutations, NextOnWorker
<1>2. Head(workerQ).record \in Record
  BY <1>1 DEF WorkerBlock
<1>3. pending' \in [Anybody -> SUBSET Record] /\ UNCHANGED <<cache, currentUser>>
  BY <1>2 DEF WriteMutations, TypeOK
<1> QED BY <1>3, RecomputedEmits DEF WriteMutations, TypeOK

LEMMA AcknowledgementEmits ==
    ASSUME TypeOK, HandleSuccessfulWrite
    PROVE  Emits /\ pending' \in [Anybody -> SUBSET Record] /\ cache' \subseteq server
<1>1. PICK r \in pending[currentUser] \cap server :
          pending' = [pending EXCEPT ![currentUser] = @ \ {r}] /\ cache' = cache \cup {r}
  BY DEF HandleSuccessfulWrite
<1>2. pending' \in [Anybody -> SUBSET Record] /\ cache' \subseteq server /\ UNCHANGED <<currentUser, server>>
  BY <1>1 DEF HandleSuccessfulWrite, TypeOK
<1> QED BY <1>2, RecomputedEmits DEF HandleSuccessfulWrite, TypeOK

LEMMA RejectionEmits ==
    ASSUME TypeOK, HandleRejectedWrite PROVE Emits /\ pending' \in [Anybody -> SUBSET Record]
<1>1. PICK r \in pending[currentUser] \ server : pending' = [pending EXCEPT ![currentUser] = @ \ {r}]
  BY DEF HandleRejectedWrite
<1>2. pending' \in [Anybody -> SUBSET Record] /\ UNCHANGED <<currentUser, cache>>
  BY <1>1 DEF HandleRejectedWrite, TypeOK
<1> QED BY <1>2, RecomputedEmits DEF HandleRejectedWrite, TypeOK

LEMMA RemoteEventEmits ==
    ASSUME TypeOK, NEW u \in Users, ApplyRemoteEvent(u) PROVE Emits /\ cache' \subseteq server
<1> DEFINE next == [Recomputed EXCEPT ![u].synced = TRUE]
           all == Recomputed
<1>1. /\ cache' \subseteq server /\ cache' \subseteq Record /\ pending' \in [Anybody -> SUBSET Record]
      /\ currentUser' \in Anybody
  BY DEF ApplyRemoteEvent, TypeOK
<1>2. /\ Views(all)
      /\ \A v \in Users : all[v].records = IF Listening(v) THEN LocalRecords(v)' ELSE views[v].records
  BY <1>1, RecomputedViews
<1>3. Emit(next, "online")
  BY DEF ApplyRemoteEvent
<1> HIDE DEF all
<1>4. all \in [Users -> View] /\ \A v \in Users : all[v] \in View /\ all[v].raised = views[v].raised
  BY <1>2 DEF Views
<1>5. ASSUME NEW v \in Users
      PROVE  /\ next[v] \in View /\ next[v].raised = views[v].raised
             /\ next[v].records = all[v].records
  <2>1. next[v] = IF v = u THEN [all[u] EXCEPT !.synced = TRUE] ELSE all[v]
    BY <1>4 DEF all
  <2>2. [all[u] EXCEPT !.synced = TRUE] \in View
    BY <1>4 DEF View
  <2>3. /\ [all[u] EXCEPT !.synced = TRUE].raised = all[u].raised
        /\ [all[u] EXCEPT !.synced = TRUE].records = all[u].records
    BY <1>4 DEF View
  <2> QED BY <1>4, <2>1, <2>2, <2>3
<1>6. next \in [Users -> View]
  <2>1. next = [v \in Users |-> next[v]]
    BY <1>4 DEF all
  <2> HIDE DEF next
  <2> QED BY <1>5, <2>1
<1> HIDE DEF next
<1>7. Views(next)
  BY <1>5, <1>6 DEF Views
<1>8. Emitted(next, "online")
  BY <1>3, <1>7, EmitEmits
<1>9. \A v \in Users :
         \/ Listening(v) /\ next[v].records = LocalRecords(v)'
         \/ next[v].records = views[v].records /\ (Listening(v) => LocalRecords(v)' = LocalRecords(v))
  BY <1>2, <1>5
<1> QED BY <1>1, <1>7, <1>8, <1>9, Zenon DEF Emits

LEMMA OfflineEmits == ASSUME TypeOK, GoOffline PROVE Emits
<1> DEFINE next == [u \in Users |-> [views[u] EXCEPT !.synced = FALSE]]
<1>1. Emit(next, "offline")
  BY DEF GoOffline
<1>2. ASSUME NEW u \in Users
      PROVE  next[u] \in View /\ next[u].raised = views[u].raised /\ next[u].records = views[u].records
  <2>1. views[u] \in View
    BY DEF TypeOK
  <2>2. next[u] = [views[u] EXCEPT !.synced = FALSE]
    OBVIOUS
  <2> HIDE DEF next
  <2> QED BY <2>1, <2>2 DEF View
<1>3. next \in [Users -> View]
  BY <1>2
<1> HIDE DEF next
<1>4. Views(next)
  BY <1>2, <1>3 DEF Views
<1>5. \A u \in Users : LocalRecords(u)' = LocalRecords(u)
  BY DEF GoOffline, LocalRecords, disk
<1>6. Emitted(next, "offline")
  BY <1>1, <1>4, EmitEmits
<1>7. \A u \in Users :
         \/ Listening(u) /\ next[u].records = LocalRecords(u)'
         \/ next[u].records = views[u].records /\ (Listening(u) => LocalRecords(u)' = LocalRecords(u))
  BY <1>2, <1>5
<1> QED BY <1>4, <1>6, <1>7, Zenon DEF Emits

------------------------------------------------------------------------------
(* The types *)

LEMMA EmitsBlocks ==
    ASSUME TypeOK, Emits PROVE views' \in [Users -> View] /\ mainQ' \in Seq(MainBlock)
<1>1. PICK next, state : Views(next) /\ Emitted(next, state)
  BY DEF Emits
<1>2. PICK calls \in Seq(Users) : mainQ' = mainQ \o SnapshotsOf(next, calls)
  BY <1>1 DEF Emitted
<1>3. mainQ \in Seq(MainBlock) /\ SnapshotsOf(next, calls) \in Seq(MainBlock)
  BY <1>1, SnapshotsAreBlocks DEF TypeOK, Views
<1>4. mainQ' \in Seq(MainBlock)
  BY <1>2, <1>3, Joined
<1> QED BY <1>1, <1>4 DEF Emitted

LEMMA MainTakes ==
    ASSUME TypeOK, NEW kind, NextOnMain(kind)
    PROVE  /\ mainQ # <<>> /\ Head(mainQ) \in MainBlock /\ Head(mainQ).kind = kind
           /\ mainQ' = Tail(mainQ) /\ mainQ' \in Seq(MainBlock)
BY DEF TypeOK, NextOnMain

LEMMA WorkerTakes ==
    ASSUME TypeOK, NEW kind, NextOnWorker(kind)
    PROVE  /\ workerQ # <<>> /\ Head(workerQ) \in WorkerBlock /\ Head(workerQ).kind = kind
           /\ workerQ' = Tail(workerQ) /\ workerQ' \in Seq(WorkerBlock)
BY DEF TypeOK, NextOnWorker

LEMMA BlocksThereAre ==
    /\ [kind |-> "initial"] \in MainBlock
    /\ \A u \in Anybody : /\ [kind |-> "changed", user |-> u] \in MainBlock
                          /\ [kind |-> "credential", user |-> u] \in WorkerBlock
    /\ \A u \in Users : [kind |-> "listen", user |-> u] \in WorkerBlock
    /\ \A r \in Record : [kind |-> "write", record |-> r] \in WorkerBlock
    /\ \A b \in MainBlock :
          /\ b.kind \in {"initial", "changed", "snapshot"}
          /\ b.kind = "changed" => b.user \in Anybody
          /\ b.kind = "snapshot" => b.records \in SUBSET Record
    /\ \A b \in WorkerBlock :
          /\ b.kind \in {"credential", "listen", "write"}
          /\ b.kind = "credential" => b.user \in Anybody
          /\ b.kind = "listen" => b.user \in Users
          /\ b.kind = "write" => b.record \in Record
BY DEF MainBlock, WorkerBlock

\* The listener of AuthService starts FirestoreService, stops it, or does nothing.
Listens(blocks) ==
    \/ /\ (first \/ authUser # prevUser) /\ authUser # NoUser
       /\ isSignedIn' = TRUE /\ userID' = authUser /\ UNCHANGED published
       /\ started' = started \cup {authUser}
       /\ workerQ' = workerQ \o Append(blocks, [kind |-> "listen", user |-> authUser])
    \/ /\ (first \/ authUser # prevUser) /\ authUser = NoUser
       /\ isSignedIn' = FALSE /\ userID' = NoUser /\ published' = <<>>
       /\ UNCHANGED started
       /\ workerQ' = workerQ \o blocks
    \/ /\ ~first /\ authUser = prevUser
       /\ UNCHANGED <<isSignedIn, userID, started, published>>
       /\ workerQ' = workerQ \o blocks

LEMMA ListenerCalled ==
    ASSUME NEW blocks, AuthStateDidChange(blocks)
    PROVE  Listens(blocks) /\ first' = FALSE /\ prevUser' = authUser
BY DEF AuthStateDidChange, Start, Stop, Listens

LEMMA ListenerTypes ==
    ASSUME TypeOK, NEW blocks \in Seq(WorkerBlock), AuthStateDidChange(blocks)
    PROVE  /\ workerQ' \in Seq(WorkerBlock) /\ userID' \in Anybody /\ isSignedIn' \in BOOLEAN
           /\ started' \subseteq Users /\ published' \in Seq(SUBSET Record) /\ Len(published') <= 1
           /\ first' \in BOOLEAN /\ prevUser' \in Anybody
<1>1. Listens(blocks) /\ first' = FALSE /\ prevUser' = authUser
  BY ListenerCalled
<1>2. authUser \in Anybody /\ (authUser # NoUser => authUser \in Users)
  BY DEF TypeOK, Anybody
<1>3. workerQ \o blocks \in Seq(WorkerBlock)
  BY Joined DEF TypeOK
<1>4. authUser # NoUser => workerQ \o Append(blocks, [kind |-> "listen", user |-> authUser]) \in Seq(WorkerBlock)
  <2> SUFFICES ASSUME authUser # NoUser
               PROVE  workerQ \o Append(blocks, [kind |-> "listen", user |-> authUser]) \in Seq(WorkerBlock)
    OBVIOUS
  <2> DEFINE listen == [kind |-> "listen", user |-> authUser]
  <2>1. listen \in WorkerBlock
    BY <1>2, BlocksThereAre
  <2> HIDE DEF listen
  <2>2. Append(blocks, listen) \in Seq(WorkerBlock) /\ workerQ \in Seq(WorkerBlock)
    BY <2>1 DEF TypeOK
  <2>3. workerQ \o Append(blocks, listen) \in Seq(WorkerBlock)
    BY <2>2, Joined
  <2> QED BY <2>3 DEF listen
<1>5. <<>> \in Seq(SUBSET Record) /\ Len(<<>>) = 0
  OBVIOUS
<1>6. workerQ' \in Seq(WorkerBlock)
  BY <1>1, <1>3, <1>4 DEF Listens
<1>7. userID' \in Anybody /\ isSignedIn' \in BOOLEAN /\ started' \subseteq Users
  BY <1>1, <1>2 DEF TypeOK, Listens, Anybody
<1>8. published' \in Seq(SUBSET Record) /\ Len(published') <= 1
  <2>1. published' = published \/ published' = <<>>
    BY <1>1 DEF Listens
  <2>2. CASE published' = published
    BY <2>2 DEF TypeOK
  <2>3. CASE published' = <<>>
    BY <2>3
  <2> QED BY <2>1, <2>2, <2>3
<1> QED BY <1>1, <1>2, <1>6, <1>7, <1>8

LEMMA Announcing ==
    ASSUME TypeOK, NEW u \in Anybody PROVE Append(mainQ, [kind |-> "changed", user |-> u]) \in Seq(MainBlock)
<1> DEFINE changed == [kind |-> "changed", user |-> u]
<1>1. changed \in MainBlock
  BY BlocksThereAre
<1> HIDE DEF changed
<1>2. Append(mainQ, changed) \in Seq(MainBlock)
  BY <1>1 DEF TypeOK
<1> QED BY <1>2 DEF changed

LEMMA TypeInit == Init => TypeOK
<1> SUFFICES ASSUME Init PROVE TypeOK
  OBVIOUS
<1>1. mainQ \in Seq(MainBlock)
  <2> DEFINE initial == [kind |-> "initial"]
             announced == [kind |-> "changed", user |-> authUser]
  <2>1. authUser \in Anybody
    BY DEF Init
  <2>2. initial \in MainBlock /\ announced \in MainBlock
    BY <2>1, BlocksThereAre
  <2>3. mainQ = <<initial>> \/ mainQ = <<announced, initial>>
    BY DEF Init
  <2> HIDE DEF initial, announced
  <2>4. <<initial>> \in Seq(MainBlock) /\ <<announced, initial>> \in Seq(MainBlock)
    BY <2>2
  <2> QED BY <2>3, <2>4
<1>2. {1} \subseteq 1 .. MaxRecords /\ 0 \in 0 .. MaxChanges /\ 0 \in 0 .. MaxFaults
  BY RecordBoundsAssumption
<1>3. cache \subseteq server /\ server \subseteq Record
  BY <1>2 DEF Init, Record
<1>4. pending \in [Anybody -> SUBSET Record]
  <2>1. PICK left \in SUBSET [owner : Users, number : {1}] :
            pending = [u \in Anybody |-> {r \in left : r.owner = u}]
    BY DEF Init
  <2>2. left \subseteq Record
    BY <1>2 DEF Record
  <2> QED BY <2>1, <2>2
<1>5. NoView \in View
  BY DEF NoView, View
<1>6. views \in [Users -> View]
  BY <1>5 DEF Init
<1>7. workerQ \in Seq(WorkerBlock) /\ published \in Seq(SUBSET Record) /\ Len(published) <= 1
  BY DEF Init
<1>8. authUser \in Anybody /\ currentUser \in Anybody /\ prevUser \in Anybody /\ userID \in Anybody
  BY DEF Init, Anybody
<1>9. /\ observing \in BOOLEAN /\ first \in BOOLEAN /\ isSignedIn \in BOOLEAN /\ summaryMade \in BOOLEAN
      /\ recordList \subseteq Record /\ started \subseteq Users /\ online \in {"unknown", "online", "offline"}
      /\ changes \in 0 .. MaxChanges /\ faults \in 0 .. MaxFaults
  BY <1>2 DEF Init
<1> QED BY <1>1, <1>3, <1>4, <1>6, <1>7, <1>8, <1>9 DEF TypeOK

LEMMA TypeStep == TypeOK /\ [Next]_vars => TypeOK'
<1> SUFFICES ASSUME TypeOK, [Next]_vars PROVE TypeOK'
  OBVIOUS
<1> USE RecordBoundsAssumption
<1>1. ASSUME NEW u \in Users, SignIn(u) PROVE TypeOK'
  <2>1. mainQ' \in Seq(MainBlock)
    BY <1>1, Announcing DEF SignIn, Anybody
  <2>2. authUser' \in Anybody /\ changes' \in 0 .. MaxChanges
    BY <1>1 DEF SignIn, TypeOK, Anybody
  <2> QED BY <1>1, <2>1, <2>2 DEF SignIn, TypeOK, summary, disk
<1>2. CASE RevokeSession
  <2>1. mainQ' \in Seq(MainBlock)
    BY <1>2, Announcing DEF RevokeSession, Anybody
  <2>2. authUser' \in Anybody /\ changes' \in 0 .. MaxChanges
    BY <1>2 DEF RevokeSession, TypeOK, Anybody
  <2> QED BY <1>2, <2>1, <2>2 DEF RevokeSession, TypeOK, summary, disk
<1>3. CASE RefreshToken
  <2>1. mainQ' \in Seq(MainBlock)
    BY <1>3, Announcing DEF RefreshToken, TypeOK
  <2>2. faults' \in 0 .. MaxFaults
    BY <1>3 DEF RefreshToken, TypeOK
  <2> QED BY <1>3, <2>1, <2>2 DEF RefreshToken, TypeOK, auth, summary, disk
<1>4. CASE InitialCall
  <2>1. mainQ' \in Seq(MainBlock)
    BY <1>4, MainTakes DEF InitialCall
  <2>2. <<>> \in Seq(WorkerBlock)
    OBVIOUS
  <2> QED BY <1>4, <2>1, <2>2, ListenerTypes DEF InitialCall, TypeOK, disk
<1>5. CASE Announced
  <2> DEFINE credential == [kind |-> "credential", user |-> Head(mainQ).user]
  <2>1. mainQ' \in Seq(MainBlock) /\ Head(mainQ) \in MainBlock /\ Head(mainQ).kind = "changed"
    BY <1>5, MainTakes DEF Announced
  <2>2. credential \in WorkerBlock
    BY <2>1, BlocksThereAre
  <2>3. observing => AuthStateDidChange(<<credential>>)
    BY <1>5 DEF Announced
  <2>4. ~observing => workerQ' = workerQ \o <<credential>> /\ UNCHANGED <<first, prevUser, isSignedIn, userID, started, published>>
    BY <1>5 DEF Announced
  <2> HIDE DEF credential
  <2>5. <<credential>> \in Seq(WorkerBlock)
    BY <2>2
  <2>6. workerQ \o <<credential>> \in Seq(WorkerBlock)
    BY <2>5, Joined DEF TypeOK
  <2>7. /\ workerQ' \in Seq(WorkerBlock) /\ userID' \in Anybody /\ isSignedIn' \in BOOLEAN
        /\ started' \subseteq Users /\ published' \in Seq(SUBSET Record) /\ Len(published') <= 1
        /\ first' \in BOOLEAN /\ prevUser' \in Anybody
    BY <2>3, <2>4, <2>5, <2>6, ListenerTypes DEF TypeOK
  <2> QED BY <1>5, <2>1, <2>7 DEF Announced, TypeOK, disk
<1>6. CASE OnSnapshot
  <2>1. mainQ' \in Seq(MainBlock) /\ Head(mainQ) \in MainBlock /\ Head(mainQ).kind = "snapshot"
    BY <1>6, MainTakes DEF OnSnapshot
  <2>2. Head(mainQ).records \in SUBSET Record
    BY <2>1, BlocksThereAre
  <2>3. published' \in Seq(SUBSET Record) /\ Len(published') <= 1 /\ recordList' \subseteq Record
    BY <1>6, <2>2 DEF OnSnapshot, TypeOK
  <2> QED BY <1>6, <2>1, <2>3 DEF OnSnapshot, TypeOK, auth, disk
<1>7. CASE OpenSummary
  <2>1. recordList' \subseteq Record
    BY <1>7 DEF OpenSummary, TypeOK
  <2> QED BY <1>7, <2>1 DEF OpenSummary, TypeOK, auth, disk
<1>8. CASE SignOut
  <2>1. mainQ' \in Seq(MainBlock)
    BY <1>8, Announcing DEF SignOut, TypeOK, Anybody
  <2>2. published' \in Seq(SUBSET Record) /\ Len(published') <= 1
    BY <1>8 DEF SignOut
  <2> QED BY <1>8, <2>1, <2>2 DEF SignOut, TypeOK, disk, Anybody
<1>9. CASE Save
  <2>1. userID \in Users
    BY <1>9 DEF Save, TypeOK, Anybody
  <2>2. PICK r \in NewRecord(userID) : workerQ' = Append(workerQ, [kind |-> "write", record |-> r])
    BY <1>9 DEF Save
  <2>3. r \in Record
    BY <2>1 DEF NewRecord, Record
  <2>4. workerQ' \in Seq(WorkerBlock)
    BY <2>2, <2>3, BlocksThereAre DEF TypeOK
  <2> QED BY <1>9, <2>4 DEF Save, TypeOK, auth, summary, disk
<1>10. CASE HandleCredentialChange
  <2>1. Head(workerQ) \in WorkerBlock /\ Head(workerQ).kind = "credential" /\ workerQ' \in Seq(WorkerBlock)
    BY <1>10, WorkerTakes DEF HandleCredentialChange
  <2>2. currentUser' \in Anybody
    BY <1>10, <2>1, BlocksThereAre DEF HandleCredentialChange
  <2> QED BY <1>10, <2>1, <2>2, CredentialEmits, EmitsBlocks DEF HandleCredentialChange, TypeOK, auth, summary, disk
<1>11. CASE Listen
  <2>1. /\ Head(workerQ) \in WorkerBlock /\ Head(workerQ).kind = "listen" /\ workerQ' \in Seq(WorkerBlock)
    BY <1>11, WorkerTakes DEF Listen
  <2> DEFINE u == Head(workerQ).user
             view == Listened(u)
             told == Told(view, view, online)
  <2>2. u \in Users
    BY <2>1, BlocksThereAre
  <2>3. view \in View
    BY <2>2, ListenedIsAView
  <2>4. Noticed(view, view, online) \in View
    BY <2>3, NoticedIsAView
  <2>5. views' \in [Users -> View]
    BY <1>11, <2>4 DEF Listen, TypeOK
  <2>6. mainQ' = mainQ \o [i \in 1 .. Cardinality(told) |-> Snapshot(view)]
    BY <1>11 DEF Listen
  <2>7. Cardinality(told) \in Nat
    <3>1. view.raised \in Seq(BOOLEAN) /\ Len(view.raised) \in Nat /\ DOMAIN view.raised = 1 .. Len(view.raised)
      BY <2>3 DEF View
    <3>2. told \in SUBSET (1 .. Len(view.raised))
      BY <3>1 DEF Told
    <3>3. IsFiniteSet(1 .. Len(view.raised))
      BY <3>1, FS_Interval
    <3> QED BY <3>2, <3>3, FS_Subset, FS_CardinalityType
  <2>8. Snapshot(view) \in MainBlock
    BY <2>3 DEF Snapshot, MainBlock, View
  <2> HIDE DEF view, told
  <2>9. [i \in 1 .. Cardinality(told) |-> Snapshot(view)] \in Seq(MainBlock)
    BY <2>7, <2>8
  <2>10. mainQ' \in Seq(MainBlock)
    BY <2>6, <2>9, Joined DEF TypeOK
  <2> QED BY <1>11, <2>1, <2>5, <2>10 DEF Listen, TypeOK, auth, summary, disk
<1>12. CASE WriteMutations
  <2>1. workerQ' \in Seq(WorkerBlock)
    BY <1>12, WorkerTakes DEF WriteMutations
  <2> QED BY <1>12, <2>1, WriteEmits, EmitsBlocks DEF WriteMutations, TypeOK, auth, summary
<1>13. CASE HandleSuccessfulWrite
  BY <1>13, AcknowledgementEmits, EmitsBlocks DEF HandleSuccessfulWrite, TypeOK, auth, summary
<1>14. CASE HandleRejectedWrite
  <2>1. faults' \in 0 .. MaxFaults
    BY <1>14 DEF HandleRejectedWrite, TypeOK
  <2> QED BY <1>14, <2>1, RejectionEmits, EmitsBlocks DEF HandleRejectedWrite, TypeOK, auth, summary
<1>15. CASE GoOffline
  <2>1. faults' \in 0 .. MaxFaults
    BY <1>15 DEF GoOffline, TypeOK
  <2> QED BY <1>15, <2>1, OfflineEmits, EmitsBlocks DEF GoOffline, TypeOK, auth, summary, disk
<1>16. ASSUME NEW u \in Users, ApplyRemoteEvent(u) PROVE TypeOK'
  BY <1>16, RemoteEventEmits, EmitsBlocks DEF ApplyRemoteEvent, TypeOK, auth, summary
<1>17. ASSUME NEW u \in Users, HandleRejectedListen(u) PROVE TypeOK'
  <2>1. NoView \in View
    BY DEF NoView, View
  <2> QED BY <1>17, <2>1 DEF HandleRejectedListen, AfterError, TypeOK, auth, summary, disk
<1>18. CASE Stored
  <2>1. PICK r \in {x \in pending[currentUser] : Served(x.owner)} \cup UNION {NewRecord(u) : u \in Users} :
            server' = server \cup {r}
    BY <1>18 DEF Stored
  <2>2. r \in Record
    BY <2>1 DEF NewRecord, Record, TypeOK
  <2> QED BY <1>18, <2>1, <2>2 DEF Stored, TypeOK, auth, summary, disk
<1>19. CASE UNCHANGED vars
  BY <1>19 DEF vars, TypeOK, auth, summary, disk
<1> QED BY <1>1, <1>2, <1>3, <1>4, <1>5, <1>6, <1>7, <1>8, <1>9, <1>10, <1>11, <1>12, <1>13, <1>14, <1>15,
           <1>16, <1>17, <1>18, <1>19 DEF Next, Auth, Main, Worker

\* The state of the list has its types, for any users, numbers of records, changes and faults.
THEOREM RecordsTypes == Spec => []TypeOK
BY TypeInit, TypeStep, PTL DEF Spec

------------------------------------------------------------------------------
(* The user of each block of the worker *)

\* The worker only puts snapshots behind what is on the main queue.
MainGrows ==
    /\ \A i \in DOMAIN mainQ : i \in DOMAIN mainQ' /\ mainQ'[i] = mainQ[i]
    /\ \A i \in DOMAIN mainQ' : i \in DOMAIN mainQ \/ mainQ'[i].kind = "snapshot"

LEMMA GrowsBySnapshots ==
    ASSUME TypeOK, NEW t \in Seq(MainBlock), \A i \in DOMAIN t : t[i].kind = "snapshot", mainQ' = mainQ \o t
    PROVE  MainGrows
<1> DEFINE n == Len(mainQ)
<1>1. mainQ \in Seq(MainBlock)
  BY DEF TypeOK
<1>2. /\ n \in Nat /\ Len(t) \in Nat /\ DOMAIN mainQ = 1 .. n /\ DOMAIN t = 1 .. Len(t)
      /\ DOMAIN mainQ' = 1 .. n + Len(t)
      /\ \A i \in DOMAIN mainQ : mainQ'[i] = mainQ[i]
      /\ \A i \in DOMAIN t : mainQ'[n + i] = t[i]
  BY <1>1, Joined
<1> HIDE DEF n
<1>3. ASSUME NEW i \in DOMAIN mainQ', i \notin DOMAIN mainQ PROVE mainQ'[i].kind = "snapshot"
  <2>1. i - n \in DOMAIN t /\ n + (i - n) = i
    BY <1>2, <1>3
  <2> QED BY <1>2, <2>1
<1>4. \A i \in DOMAIN mainQ : i \in DOMAIN mainQ'
  BY <1>2
<1> QED BY <1>2, <1>3, <1>4 DEF MainGrows

LEMMA EmitsGrows == ASSUME TypeOK, Emits PROVE MainGrows
<1>1. PICK next, state : Views(next) /\ Emitted(next, state)
  BY DEF Emits
<1>2. PICK calls \in Seq(Users) : mainQ' = mainQ \o SnapshotsOf(next, calls)
  BY <1>1 DEF Emitted
<1> DEFINE t == SnapshotsOf(next, calls)
<1>3. /\ t \in Seq(MainBlock) /\ Len(t) = Len(calls)
      /\ \A i \in DOMAIN calls : t[i].kind = "snapshot"
  BY <1>1, SnapshotsAreBlocks DEF Views
<1> HIDE DEF t
<1>4. DOMAIN t = DOMAIN calls
  BY <1>3
<1> QED BY <1>2, <1>3, <1>4, GrowsBySnapshots DEF t

\* What a new listener hears at once.
Answer(view) == [i \in 1 .. Cardinality(Told(view, view, online)) |-> Snapshot(view)]

LEMMA AnswerIsBlocks ==
    ASSUME NEW view \in View
    PROVE  /\ Answer(view) \in Seq(MainBlock)
           /\ \A i \in DOMAIN Answer(view) :
                 Answer(view)[i].kind = "snapshot" /\ Answer(view)[i].records = view.records
           /\ Answer(view) = <<>> <=> Told(view, view, online) = {}
<1> DEFINE told == Told(view, view, online)
           n == Cardinality(told)
<1>1. view.raised \in Seq(BOOLEAN) /\ Len(view.raised) \in Nat /\ DOMAIN view.raised = 1 .. Len(view.raised)
  BY DEF View
<1>2. told \in SUBSET (1 .. Len(view.raised))
  BY <1>1 DEF Told
<1>3. IsFiniteSet(1 .. Len(view.raised))
  BY <1>1, FS_Interval
<1>4. IsFiniteSet(told)
  BY <1>2, <1>3, FS_Subset
<1>5. n \in Nat /\ (n = 0 <=> told = {})
  BY <1>4, FS_CardinalityType, FS_EmptySet
<1>6. Snapshot(view) \in MainBlock /\ Snapshot(view).kind = "snapshot" /\ Snapshot(view).records = view.records
  BY DEF Snapshot, MainBlock, View
<1>7. Answer(view) = [i \in 1 .. n |-> Snapshot(view)]
  BY DEF Answer
<1> DEFINE s == Snapshot(view)
<1> HIDE DEF n, told, s
<1>8. Answer(view) = [i \in 1 .. n |-> s]
  BY <1>7 DEF s
<1>9. /\ Answer(view) \in Seq(MainBlock) /\ Len(Answer(view)) = n /\ DOMAIN Answer(view) = 1 .. n
      /\ \A i \in DOMAIN Answer(view) : Answer(view)[i] = s
  BY <1>5, <1>6, <1>8 DEF s
<1>10. Answer(view) = <<>> <=> n = 0
  BY <1>9
<1> QED BY <1>5, <1>6, <1>9, <1>10 DEF told, s

LEMMA ListenGrows == ASSUME TypeOK, Listen PROVE MainGrows
<1> DEFINE view == Listened(Head(workerQ).user)
<1>1. Head(workerQ).user \in Users
  BY WorkerTakes, BlocksThereAre DEF Listen
<1>2. view \in View
  BY <1>1, ListenedIsAView
<1>3. mainQ' = mainQ \o Answer(view)
  BY DEF Listen, Answer
<1> HIDE DEF view
<1> QED BY <1>2, <1>3, AnswerIsBlocks, GrowsBySnapshots

LEMMA HandedAppended ==
    ASSUME NEW q \in Seq(WorkerBlock), NEW c, Handed(q, c), NEW x,
           x.kind = "write" => UserAt(q, c, Len(q) + 1, x.record.owner),
           x.kind = "listen" => UserAt(q, c, Len(q) + 1, x.user)
    PROVE  Handed(Append(q, x), c)
<1> DEFINE a == Append(q, x)
           n == Len(q)
<1>1. /\ n \in Nat /\ DOMAIN q = 1 .. n /\ DOMAIN a = 1 .. n + 1
      /\ \A i \in DOMAIN q : a[i] = q[i]
      /\ a[n + 1] = x
  BY Appended
<1> SUFFICES ASSUME NEW i \in DOMAIN a
             PROVE  /\ a[i].kind = "write" => UserAt(a, c, i, a[i].record.owner)
                    /\ a[i].kind = "listen" => UserAt(a, c, i, a[i].user)
  BY DEF Handed
<1>2. i \in 1 .. Len(q) + 1
  BY <1>1
<1>3. \A u : UserAt(q, c, i, u) => UserAt(a, c, i, u)
  BY <1>2, FarFromTheEnd
<1> HIDE DEF a
<1>4. CASE i \in DOMAIN q
  BY <1>1, <1>3, <1>4 DEF Handed
<1>5. CASE i = n + 1
  BY <1>1, <1>3, <1>5
<1> QED BY <1>1, <1>4, <1>5

LEMMA HandedTaken ==
    ASSUME NEW q \in Seq(WorkerBlock), q # <<>>, NEW c, Handed(q, c)
    PROVE  Handed(Tail(q), Next1(q, c))
<1> DEFINE t == Tail(q)
<1>1. /\ Len(q) \in Nat \ {0} /\ DOMAIN q = 1 .. Len(q) /\ DOMAIN t = 1 .. Len(q) - 1
      /\ \A i \in DOMAIN t : t[i] = q[i + 1] /\ i + 1 \in DOMAIN q
  BY Taken
<1> SUFFICES ASSUME NEW i \in DOMAIN t
             PROVE  /\ t[i].kind = "write" => UserAt(t, Next1(q, c), i, t[i].record.owner)
                    /\ t[i].kind = "listen" => UserAt(t, Next1(q, c), i, t[i].user)
  BY DEF Handed
<1>2. i \in 1 .. Len(q)
  BY <1>1
<1>3. \A u : UserAt(q, c, i + 1, u) => UserAt(t, Next1(q, c), i, u)
  BY <1>2, FirstRuns
<1> HIDE DEF t
<1> QED BY <1>1, <1>3 DEF Handed

LEMMA LastListenTaken ==
    ASSUME NEW q \in Seq(WorkerBlock), q # <<>>, NEW c, NEW u, Handed(q, c), LastListen(u, q, c)
    PROVE  LastListen(u, Tail(q), Next1(q, c))
<1> DEFINE t == Tail(q)
<1>1. /\ Len(q) \in Nat \ {0} /\ DOMAIN q = 1 .. Len(q) /\ DOMAIN t = 1 .. Len(q) - 1 /\ Len(t) = Len(q) - 1
      /\ Head(q) = q[1]
      /\ \A i \in DOMAIN t : t[i] = q[i + 1] /\ i + 1 \in DOMAIN q
  BY Taken
<1> HIDE DEF t
<1>2. ASSUME NEW j \in DOMAIN q, j # 1 PROVE j - 1 \in DOMAIN t /\ t[j - 1] = q[j]
  BY <1>1, <1>2
<1>3. ASSUME Next1(q, c) # u PROVE \E j \in DOMAIN t : t[j].kind = "listen" /\ t[j].user = u
  <2>1. \E j \in DOMAIN q : j # 1 /\ q[j].kind = "listen" /\ q[j].user = u
    <3>1. CASE q[1].kind = "credential"
      <4>1. q[1].user # u /\ 1 \in DOMAIN q
        BY <1>1, <1>3, <3>1 DEF Next1
      <4>2. PICK j \in 1 + 1 .. Len(q) : q[j].kind = "listen" /\ q[j].user = u
        BY <3>1, <4>1 DEF LastListen
      <4> QED BY <1>1, <4>2
    <3>2. CASE q[1].kind # "credential"
      <4>1. c # u
        BY <1>1, <1>3, <3>2 DEF Next1
      <4>2. PICK j \in DOMAIN q : q[j].kind = "listen" /\ q[j].user = u
        BY <4>1 DEF LastListen
      <4>3. j # 1
        <5>1. j = 1 => UserAt(q, c, 1, u)
          BY <4>2 DEF Handed
        <5> QED BY <4>1, <5>1, AtTheFront
      <4> QED BY <4>2, <4>3
    <3> QED BY <3>1, <3>2
  <2> QED BY <1>2, <2>1
<1>4. ASSUME NEW i \in DOMAIN t, t[i].kind = "credential", t[i].user # u
      PROVE  \E j \in i + 1 .. Len(t) : t[j].kind = "listen" /\ t[j].user = u
  <2>1. i + 1 \in DOMAIN q /\ q[i + 1] = t[i]
    BY <1>1
  <2>2. PICK j \in i + 1 + 1 .. Len(q) : q[j].kind = "listen" /\ q[j].user = u
    BY <1>4, <2>1 DEF LastListen
  <2>3. j \in DOMAIN q /\ j # 1 /\ j - 1 \in i + 1 .. Len(t)
    BY <1>1, <2>1, <2>2
  <2> QED BY <1>2, <2>2, <2>3
<1> QED BY <1>3, <1>4 DEF LastListen, t

LEMMA LastListenAppended ==
    ASSUME NEW q \in Seq(WorkerBlock), NEW c, NEW u, NEW x
    PROVE  /\ LastListen(u, q, c) /\ (x.kind = "credential" => x.user = u) => LastListen(u, Append(q, x), c)
           /\ x.kind = "listen" /\ x.user = u => LastListen(u, Append(q, x), c)
<1> DEFINE a == Append(q, x)
           n == Len(q)
<1>1. /\ n \in Nat /\ DOMAIN q = 1 .. n /\ DOMAIN a = 1 .. n + 1 /\ Len(a) = n + 1
      /\ \A i \in DOMAIN q : a[i] = q[i]
      /\ a[n + 1] = x
  BY Appended
<1> HIDE DEF a, n
<1>2. ASSUME LastListen(u, q, c), x.kind = "credential" => x.user = u PROVE LastListen(u, a, c)
  <2>1. c # u => \E j \in DOMAIN a : a[j].kind = "listen" /\ a[j].user = u
    BY <1>1, <1>2 DEF LastListen
  <2>2. ASSUME NEW i \in DOMAIN a, a[i].kind = "credential", a[i].user # u
        PROVE  \E j \in i + 1 .. Len(a) : a[j].kind = "listen" /\ a[j].user = u
    <3>1. i \in DOMAIN q
      BY <1>1, <1>2, <2>2
    <3>2. PICK j \in i + 1 .. Len(q) : q[j].kind = "listen" /\ q[j].user = u
      BY <1>1, <1>2, <2>2, <3>1 DEF LastListen
    <3>3. j \in DOMAIN q /\ j \in i + 1 .. Len(a)
      BY <1>1, <3>1, <3>2 DEF n
    <3> QED BY <1>1, <3>2, <3>3
  <2> QED BY <2>1, <2>2 DEF LastListen
<1>3. ASSUME x.kind = "listen", x.user = u PROVE LastListen(u, a, c)
  <2>1. n + 1 \in DOMAIN a
    BY <1>1
  <2>2. ASSUME NEW i \in DOMAIN a, a[i].kind = "credential"
        PROVE  n + 1 \in i + 1 .. Len(a)
    BY <1>1, <1>3, <2>2
  <2> QED BY <1>1, <1>3, <2>1, <2>2 DEF LastListen
<1> QED BY <1>2, <1>3 DEF a

\* Steps of the worker and of the backend.
LEMMA Behind ==
    ASSUME TypeOK, Worker \/ Stored \/ UNCHANGED vars
    PROVE  /\ UNCHANGED <<auth, summary>>
           /\ MainGrows
           /\ \/ UNCHANGED <<workerQ, currentUser>>
              \/ workerQ # <<>> /\ workerQ' = Tail(workerQ) /\ currentUser' = Next1(workerQ, currentUser)
<1>1. mainQ' = mainQ => MainGrows
  BY DEF MainGrows
<1>2. CASE HandleCredentialChange
  <2>1. workerQ # <<>> /\ workerQ' = Tail(workerQ) /\ currentUser' = Next1(workerQ, currentUser)
    BY <1>2, WorkerTakes DEF HandleCredentialChange, Next1
  <2> QED BY <1>2, <2>1, CredentialEmits, EmitsGrows DEF HandleCredentialChange
<1>3. CASE Listen
  <2>1. workerQ # <<>> /\ workerQ' = Tail(workerQ) /\ currentUser' = Next1(workerQ, currentUser)
    BY <1>3, WorkerTakes DEF Listen, Next1
  <2> QED BY <1>3, <2>1, ListenGrows DEF Listen
<1>4. CASE WriteMutations
  <2>1. workerQ # <<>> /\ workerQ' = Tail(workerQ) /\ currentUser' = Next1(workerQ, currentUser)
    BY <1>4, WorkerTakes DEF WriteMutations, Next1
  <2> QED BY <1>4, <2>1, WriteEmits, EmitsGrows DEF WriteMutations
<1>5. CASE HandleSuccessfulWrite
  BY <1>5, AcknowledgementEmits, EmitsGrows DEF HandleSuccessfulWrite
<1>6. CASE HandleRejectedWrite
  BY <1>6, RejectionEmits, EmitsGrows DEF HandleRejectedWrite
<1>7. CASE GoOffline
  BY <1>7, OfflineEmits, EmitsGrows DEF GoOffline
<1>8. ASSUME NEW u \in Users, ApplyRemoteEvent(u)
      PROVE  UNCHANGED <<auth, summary, workerQ, currentUser>> /\ MainGrows
  BY <1>8, RemoteEventEmits, EmitsGrows DEF ApplyRemoteEvent
<1>9. ASSUME NEW u \in Users, HandleRejectedListen(u)
      PROVE  UNCHANGED <<auth, summary, workerQ, currentUser>> /\ MainGrows
  BY <1>1, <1>9 DEF HandleRejectedListen
<1>10. CASE Stored
  BY <1>1, <1>10 DEF Stored
<1>11. CASE UNCHANGED vars
  BY <1>1, <1>11 DEF vars
<1> QED BY <1>2, <1>3, <1>4, <1>5, <1>6, <1>7, <1>8, <1>9, <1>10, <1>11 DEF Worker

\* The main queue after its first block, and after one more.
LEMMA MainTaken ==
    ASSUME TypeOK, mainQ # <<>>, mainQ' = Tail(mainQ)
    PROVE  /\ \A i \in DOMAIN mainQ' : i + 1 \in DOMAIN mainQ /\ mainQ'[i] = mainQ[i + 1]
           /\ \A i \in DOMAIN mainQ : i # 1 => i - 1 \in DOMAIN mainQ' /\ mainQ'[i - 1] = mainQ[i]
           /\ Head(mainQ) = mainQ[1] /\ 1 \in DOMAIN mainQ /\ DOMAIN mainQ \subseteq Nat \ {0}
           /\ DOMAIN mainQ' \subseteq Nat \ {0}
BY DEF TypeOK

LEMMA MainAppended ==
    ASSUME TypeOK, NEW x, mainQ' = Append(mainQ, x)
    PROVE  /\ \A i \in DOMAIN mainQ' : (i \in DOMAIN mainQ /\ mainQ'[i] = mainQ[i]) \/ (i = Len(mainQ) + 1 /\ mainQ'[i] = x)
           /\ \A i \in DOMAIN mainQ : i \in DOMAIN mainQ' /\ mainQ'[i] = mainQ[i]
           /\ DOMAIN mainQ = 1 .. Len(mainQ) /\ DOMAIN mainQ' = 1 .. Len(mainQ) + 1 /\ Len(mainQ) \in Nat
           /\ mainQ'[Len(mainQ) + 1] = x
<1> DEFINE a == Append(mainQ, x)
<1>1. mainQ \in Seq(MainBlock)
  BY DEF TypeOK
<1>2. /\ Len(mainQ) \in Nat /\ DOMAIN mainQ = 1 .. Len(mainQ) /\ DOMAIN a = 1 .. Len(mainQ) + 1
      /\ \A i \in DOMAIN mainQ : a[i] = mainQ[i]
      /\ a[Len(mainQ) + 1] = x
  BY <1>1, Appended
<1>3. mainQ' = a
  OBVIOUS
<1> HIDE DEF a
<1> QED BY <1>2, <1>3

LEMMA HeardInit == Init => Heard
<1> SUFFICES ASSUME Init PROVE Heard
  OBVIOUS
<1>1. \A i \in DOMAIN mainQ : mainQ[i].kind = "changed" => mainQ[i].user = authUser
  <2> DEFINE initial == [kind |-> "initial"]
             announced == [kind |-> "changed", user |-> authUser]
  <2>1. initial.kind = "initial" /\ announced.user = authUser
    OBVIOUS
  <2>2. mainQ = <<initial>> \/ mainQ = <<announced, initial>>
    BY DEF Init
  <2> HIDE DEF initial, announced
  <2> QED BY <2>1, <2>2
<1> QED BY <1>1 DEF Init, Heard

\* Who is announced is the user, if there is one.
LEMMA AnnouncedUser ==
    ASSUME TypeOK, Heard, NextOnMain("changed"), authUser # NoUser
    PROVE  Head(mainQ).user = authUser
BY MainTakes, MainTaken DEF Heard

LEMMA HeardOfTheTail ==
    ASSUME TypeOK, Heard, mainQ # <<>>, mainQ' = Tail(mainQ), authUser' = authUser
    PROVE  authUser' # NoUser =>
               \A i \in DOMAIN mainQ' : mainQ'[i].kind = "changed" => mainQ'[i].user = authUser'
BY MainTaken DEF Heard

LEMMA HeardStep == ASSUME TypeOK, Heard, [Next]_vars PROVE Heard'
<1>1. ASSUME NEW u \in Users, SignIn(u) PROVE Heard'
  <2>1. /\ mainQ' = Append(mainQ, [kind |-> "changed", user |-> u]) /\ authUser' = u
        /\ \A i \in DOMAIN mainQ : mainQ[i].kind = "snapshot"
        /\ UNCHANGED <<userID, isSignedIn, observing, first, prevUser>> /\ observing
    BY <1>1 DEF SignIn
  <2>2. \A i \in DOMAIN mainQ' : mainQ'[i].kind = "changed" => mainQ'[i].user = u
    BY <2>1, MainAppended
  <2> QED BY <2>1, <2>2 DEF Heard
<1>2. CASE RevokeSession
  BY <1>2 DEF RevokeSession, Heard
<1>3. CASE RefreshToken
  <2>1. /\ mainQ' = Append(mainQ, [kind |-> "changed", user |-> authUser])
        /\ UNCHANGED <<authUser, userID, isSignedIn, observing, first, prevUser>>
    BY <1>3 DEF RefreshToken, auth
  <2>2. authUser # NoUser => \A i \in DOMAIN mainQ' : mainQ'[i].kind = "changed" => mainQ'[i].user = authUser
    BY <2>1, MainAppended DEF Heard
  <2> QED BY <2>1, <2>2 DEF Heard
<1>4. CASE InitialCall
  <2>1. mainQ # <<>> /\ mainQ' = Tail(mainQ) /\ UNCHANGED <<authUser, observing>>
    BY <1>4, MainTakes DEF InitialCall
  <2>2. Listens(<<>>) /\ first' = FALSE /\ prevUser' = authUser
    BY <1>4, ListenerCalled DEF InitialCall
  <2> QED BY <2>1, <2>2, HeardOfTheTail DEF Heard, Listens
<1>5. CASE Announced
  <2> DEFINE credential == <<[kind |-> "credential", user |-> Head(mainQ).user]>>
  <2>1. mainQ # <<>> /\ mainQ' = Tail(mainQ) /\ UNCHANGED <<authUser, observing>>
    BY <1>5, MainTakes DEF Announced
  <2>2. observing => Listens(credential) /\ first' = FALSE /\ prevUser' = authUser
    BY <1>5, ListenerCalled DEF Announced
  <2>3. ~observing => UNCHANGED <<first, prevUser, isSignedIn, userID>>
    BY <1>5 DEF Announced
  <2> HIDE DEF credential
  <2> QED BY <2>1, <2>2, <2>3, HeardOfTheTail DEF Heard, Listens
<1>6. CASE OnSnapshot
  <2>1. mainQ # <<>> /\ mainQ' = Tail(mainQ) /\ UNCHANGED auth
    BY <1>6, MainTakes DEF OnSnapshot
  <2> QED BY <2>1, HeardOfTheTail DEF Heard, auth
<1>7. CASE OpenSummary
  BY <1>7 DEF OpenSummary, Heard, auth
<1>8. CASE SignOut
  BY <1>8 DEF SignOut, Heard
<1>9. CASE Save
  BY <1>9 DEF Save, Heard, auth
<1>10. CASE Worker \/ Stored \/ UNCHANGED vars
  <2>1. UNCHANGED auth /\ MainGrows
    BY <1>10, Behind
  <2> QED BY <2>1 DEF Heard, auth, MainGrows
<1> QED BY <1>1, <1>2, <1>3, <1>4, <1>5, <1>6, <1>7, <1>8, <1>9, <1>10 DEF Next, Auth, Main

LEMMA Lengthened ==
    ASSUME NEW S, NEW q \in Seq(S), NEW x \in S, NEW y \in S
    PROVE  /\ q \o <<>> = q /\ q \o <<x>> = Append(q, x)
           /\ q \o Append(<<>>, y) = Append(q, y)
           /\ q \o Append(<<x>>, y) = Append(Append(q, x), y)
           /\ Append(q, x) \in Seq(S) /\ Len(Append(q, x)) + 1 = Len(q) + 2
OBVIOUS

LEMMA HandingInit == Init => Handing
<1> SUFFICES ASSUME Init PROVE Handing
  OBVIOUS
<1>1. workerQ = <<>> /\ userID = NoUser
  BY DEF Init
<1>2. DOMAIN workerQ = {} /\ Len(workerQ) = 0
  BY <1>1
<1>3. Handed(workerQ, currentUser)
  BY <1>2 DEF Handed
<1>4. ASSUME NEW i \in DOMAIN mainQ, mainQ[i].kind = "initial"
      PROVE  HeardOf(authUser) \/ \E j \in 1 .. i - 1 : mainQ[j].kind = "changed"
  <2> DEFINE initial == [kind |-> "initial"]
             announced == [kind |-> "changed", user |-> authUser]
  <2>1. announced.kind = "changed"
    OBVIOUS
  <2>2. (mainQ = <<initial>> /\ currentUser = authUser) \/ mainQ = <<announced, initial>>
    BY DEF Init
  <2> HIDE DEF initial, announced
  <2>3. CASE currentUser = authUser
    <3>1. \A j \in 1 .. (Len(workerQ) + 1) - 1 : FALSE
      BY <1>2
    <3> QED BY <2>3, <3>1 DEF HeardOf, UserAt
  <2>4. CASE mainQ = <<announced, initial>>
    <3>1. i = 2
      BY <1>4, <2>1, <2>4
    <3> QED BY <2>1, <2>4, <3>1
  <2> QED BY <2>2, <2>3, <2>4
<1> QED BY <1>1, <1>3, <1>4 DEF Handing, OnTheWorker, AtLaunch

\* A block of its own user is put on the worker's queue; nothing else changes there.
LEMMA BlockHanded ==
    ASSUME TypeOK, Handed(workerQ, currentUser), NEW x \in WorkerBlock,
           workerQ' = Append(workerQ, x), currentUser' = currentUser,
           x.kind = "write" => HeardOf(x.record.owner), x.kind = "listen" => HeardOf(x.user)
    PROVE  /\ Handed(workerQ', currentUser')
           /\ \A u : IF x.kind = "credential" THEN HeardOf(x.user)' ELSE HeardOf(u) => HeardOf(u)'
           /\ \A u : LastListen(u, workerQ, currentUser) /\ (x.kind = "credential" => x.user = u)
                         => LastListen(u, workerQ', currentUser')
           /\ x.kind = "listen" => LastListen(x.user, workerQ', currentUser')
<1>1. workerQ \in Seq(WorkerBlock) /\ Len(workerQ') + 1 = Len(workerQ) + 2
  BY Lengthened DEF TypeOK
<1>2. Handed(workerQ', currentUser')
  BY <1>1, HandedAppended DEF HeardOf
<1>3. \A u : IF x.kind = "credential" THEN HeardOf(x.user)' ELSE HeardOf(u) => HeardOf(u)'
  BY <1>1, AtTheEnd DEF HeardOf
<1>4. \A u : /\ LastListen(u, workerQ, currentUser) /\ (x.kind = "credential" => x.user = u)
                    => LastListen(u, workerQ', currentUser')
             /\ x.kind = "listen" /\ x.user = u => LastListen(u, workerQ', currentUser')
  BY <1>1, LastListenAppended
<1> QED BY <1>2, <1>3, <1>4

\* FirestoreService listens anew, after what came before.
LEMMA ListenHanded ==
    ASSUME NEW q \in Seq(WorkerBlock), NEW c, Handed(q, c), NEW u \in Users, UserAt(q, c, Len(q) + 1, u),
           NEW a, a = Append(q, [kind |-> "listen", user |-> u])
    PROVE  Handed(a, c) /\ UserAt(a, c, Len(a) + 1, u) /\ LastListen(u, a, c)
<1> DEFINE x == [kind |-> "listen", user |-> u]
<1>1. x.kind = "listen" /\ x.user = u /\ x \in WorkerBlock
  BY BlocksThereAre
<1>2. a = Append(q, x)
  OBVIOUS
<1> HIDE DEF x
<1>3. Len(a) + 1 = Len(q) + 2
  BY <1>1, <1>2, Lengthened
<1>4. Handed(a, c)
  BY <1>1, <1>2, HandedAppended
<1>5. UserAt(a, c, Len(a) + 1, u)
  BY <1>1, <1>2, <1>3, AtTheEnd
<1>6. LastListen(u, a, c)
  BY <1>1, <1>2, LastListenAppended
<1> QED BY <1>4, <1>5, <1>6

LEMMA CredentialHanded ==
    ASSUME NEW q \in Seq(WorkerBlock), NEW c, Handed(q, c), NEW u \in Anybody,
           NEW a, a = Append(q, [kind |-> "credential", user |-> u])
    PROVE  /\ a \in Seq(WorkerBlock) /\ Handed(a, c) /\ UserAt(a, c, Len(a) + 1, u)
           /\ LastListen(u, q, c) => LastListen(u, a, c)
<1> DEFINE x == [kind |-> "credential", user |-> u]
<1>1. x.kind = "credential" /\ x.user = u /\ x \in WorkerBlock
  BY BlocksThereAre
<1>2. a = Append(q, x)
  OBVIOUS
<1> HIDE DEF x
<1>3. Len(a) + 1 = Len(q) + 2 /\ a \in Seq(WorkerBlock)
  BY <1>1, <1>2, Lengthened
<1>4. Handed(a, c)
  BY <1>1, <1>2, HandedAppended
<1>5. UserAt(a, c, Len(a) + 1, u)
  BY <1>1, <1>2, <1>3, AtTheEnd
<1>6. LastListen(u, q, c) => LastListen(u, a, c)
  BY <1>1, <1>2, LastListenAppended
<1> QED BY <1>3, <1>4, <1>5, <1>6

LEMMA AnnouncedHanded ==
    ASSUME TypeOK, Heard, OnTheWorker, Announced
    PROVE  OnTheWorker' /\ (authUser # NoUser => HeardOf(authUser)')
<1> DEFINE a == Head(mainQ).user
           x == [kind |-> "credential", user |-> a]
           y == [kind |-> "listen", user |-> authUser]
           q == Append(workerQ, x)
<1>1. a \in Anybody /\ workerQ \in Seq(WorkerBlock)
  BY MainTakes, BlocksThereAre DEF Announced, TypeOK
<1>2. /\ q \in Seq(WorkerBlock) /\ Handed(q, currentUser) /\ UserAt(q, currentUser, Len(q) + 1, a)
      /\ LastListen(a, workerQ, currentUser) => LastListen(a, q, currentUser)
  BY <1>1, CredentialHanded DEF OnTheWorker
<1>3. authUser # NoUser => a = authUser
  BY AnnouncedUser DEF Announced
<1>4. UNCHANGED <<currentUser, authUser>>
  BY DEF Announced
<1>5. workerQ \o <<x>> = q
  BY <1>1
<1>6. observing => Listens(<<x>>)
  BY ListenerCalled DEF Announced
<1>7. ~observing => workerQ' = workerQ \o <<x>> /\ userID' = userID
  BY DEF Announced
<1>8. x \in WorkerBlock
  BY <1>1, BlocksThereAre
<1>9. CASE ~observing
  <2>1. workerQ' = q /\ userID' = NoUser /\ authUser = NoUser
    BY <1>5, <1>7, <1>9 DEF Heard
  <2> HIDE DEF q
  <2> QED BY <1>2, <1>4, <2>1 DEF OnTheWorker
<1>10. CASE observing /\ authUser = NoUser
  <2>1. workerQ' = q /\ userID' = NoUser
    <3>1. ~first /\ authUser = prevUser => userID = NoUser
      BY <1>10 DEF Heard
    <3> QED BY <1>5, <1>6, <1>10, <3>1 DEF Listens
  <2> HIDE DEF q
  <2> QED BY <1>2, <1>4, <1>10, <2>1 DEF OnTheWorker
<1>11. CASE observing /\ authUser # NoUser /\ (first \/ authUser # prevUser)
  <2>1. workerQ' = workerQ \o Append(<<x>>, y) /\ userID' = authUser /\ authUser \in Users
    BY <1>6, <1>11 DEF Listens, TypeOK, Anybody
  <2>2. y \in WorkerBlock
    BY <2>1, BlocksThereAre
  <2>3. workerQ' = Append(q, y)
    <3> HIDE DEF x, y
    <3> QED BY <1>1, <1>8, <2>1, <2>2, Lengthened
  <2> HIDE DEF q
  <2>4. /\ Handed(workerQ', currentUser) /\ UserAt(workerQ', currentUser, Len(workerQ') + 1, authUser)
        /\ LastListen(authUser, workerQ', currentUser)
    BY <1>2, <1>3, <1>11, <2>1, <2>3, ListenHanded
  <2> QED BY <1>4, <2>1, <2>4 DEF OnTheWorker, HeardOf
<1>12. CASE observing /\ authUser # NoUser /\ ~first /\ authUser = prevUser
  <2>1. workerQ' = q /\ userID' = userID /\ userID \in {NoUser, a}
    BY <1>3, <1>5, <1>6, <1>12 DEF Listens, Heard
  <2> HIDE DEF q
  <2> QED BY <1>2, <1>3, <1>4, <1>12, <2>1 DEF OnTheWorker, HeardOf
<1> QED BY <1>9, <1>10, <1>11, <1>12

LEMMA InitialHanded ==
    ASSUME TypeOK, Heard, OnTheWorker, AtLaunch, InitialCall
    PROVE  OnTheWorker' /\ (authUser # NoUser => HeardOf(authUser)')
<1> DEFINE y == [kind |-> "listen", user |-> authUser]
<1>1. workerQ \in Seq(WorkerBlock) /\ UNCHANGED <<currentUser, authUser>>
  BY DEF TypeOK, InitialCall
<1>2. authUser # NoUser => HeardOf(authUser)
  <2>1. 1 \in DOMAIN mainQ /\ mainQ[1].kind = "initial" /\ (\A j \in 1 .. 1 - 1 : FALSE)
    BY MainTakes, MainTaken DEF InitialCall
  <2> QED BY <2>1 DEF AtLaunch
<1>3. Listens(<<>>)
  BY ListenerCalled DEF InitialCall
<1>4. workerQ \o <<>> = workerQ
  BY <1>1
<1>5. CASE (first \/ authUser # prevUser) /\ authUser # NoUser
  <2>1. workerQ' = workerQ \o Append(<<>>, y) /\ userID' = authUser /\ authUser \in Users
    BY <1>3, <1>5 DEF Listens, TypeOK, Anybody
  <2>2. y \in WorkerBlock
    BY <2>1, BlocksThereAre
  <2>3. workerQ' = Append(workerQ, y)
    <3> HIDE DEF y
    <3> QED BY <1>1, <2>1, <2>2, Lengthened
  <2>4. /\ Handed(workerQ', currentUser) /\ UserAt(workerQ', currentUser, Len(workerQ') + 1, authUser)
        /\ LastListen(authUser, workerQ', currentUser)
    BY <1>1, <1>2, <1>5, <2>1, <2>3, ListenHanded DEF OnTheWorker, HeardOf
  <2> QED BY <1>1, <2>1, <2>4 DEF OnTheWorker, HeardOf
<1>6. CASE (first \/ authUser # prevUser) /\ authUser = NoUser
  <2>1. workerQ' = workerQ /\ userID' = NoUser
    BY <1>3, <1>4, <1>6 DEF Listens
  <2> QED BY <1>1, <1>6, <2>1 DEF OnTheWorker
<1>7. CASE ~first /\ authUser = prevUser
  <2>1. workerQ' = workerQ /\ userID' = userID
    BY <1>3, <1>4, <1>7 DEF Listens
  <2> QED BY <1>1, <1>2, <2>1 DEF OnTheWorker, HeardOf
<1> QED BY <1>5, <1>6, <1>7

LEMMA SaveHanded == ASSUME TypeOK, OnTheWorker, Save PROVE OnTheWorker' /\ \A u : HeardOf(u) => HeardOf(u)'
<1>1. userID \in Users /\ userID # NoUser
  BY DEF Save, TypeOK, Anybody
<1>2. PICK r \in NewRecord(userID) : workerQ' = Append(workerQ, [kind |-> "write", record |-> r])
  BY DEF Save
<1> DEFINE x == [kind |-> "write", record |-> r]
<1>3. r \in Record /\ r.owner = userID
  BY <1>1 DEF NewRecord, Record
<1>4. x \in WorkerBlock /\ x.kind = "write" /\ x.record.owner = userID
  BY <1>3, BlocksThereAre
<1>5. workerQ' = Append(workerQ, x) /\ UNCHANGED <<currentUser, userID>>
  BY <1>2 DEF Save, auth
<1> HIDE DEF x
<1>6. /\ Handed(workerQ', currentUser')
      /\ \A u : HeardOf(u) => HeardOf(u)'
      /\ LastListen(userID, workerQ', currentUser')
  BY <1>1, <1>4, <1>5, BlockHanded DEF OnTheWorker
<1>7. HeardOf(userID)'
  BY <1>1, <1>5, <1>6 DEF OnTheWorker, HeardOf
<1> QED BY <1>5, <1>6, <1>7 DEF OnTheWorker, HeardOf

LEMMA BehindHanded ==
    ASSUME TypeOK, OnTheWorker, Worker \/ Stored \/ UNCHANGED vars
    PROVE  OnTheWorker' /\ \A u : HeardOf(u) => HeardOf(u)'
<1>1. UNCHANGED userID
  BY Behind DEF auth
<1>2. CASE UNCHANGED <<workerQ, currentUser>>
  BY <1>1, <1>2 DEF OnTheWorker, HeardOf
<1>3. CASE workerQ # <<>> /\ workerQ' = Tail(workerQ) /\ currentUser' = Next1(workerQ, currentUser)
  <2>1. workerQ \in Seq(WorkerBlock) /\ Len(workerQ) \in 1 .. Len(workerQ) /\ Len(workerQ') + 1 = Len(workerQ)
    BY <1>3 DEF TypeOK
  <2>3. \A u : HeardOf(u) => UserAt(workerQ', currentUser', Len(workerQ') + 1, u)
    BY <1>3, <2>1, FirstRuns DEF HeardOf
  <2>4. Handed(workerQ', currentUser')
    BY <1>3, <2>1, HandedTaken DEF OnTheWorker
  <2>5. userID # NoUser => LastListen(userID, workerQ', currentUser')
    BY <1>3, <2>1, LastListenTaken DEF OnTheWorker
  <2> QED BY <1>1, <2>3, <2>4, <2>5 DEF OnTheWorker, HeardOf
<1> QED BY <1>2, <1>3, Behind

LEMMA LaunchKept ==
    ASSUME TypeOK, AtLaunch, authUser' = authUser, HeardOf(authUser) => HeardOf(authUser)',
           \/ MainGrows
           \/ mainQ # <<>> /\ mainQ' = Tail(mainQ) /\ Head(mainQ).kind # "changed"
           \/ \E x : mainQ' = Append(mainQ, x) /\ x.kind # "initial"
    PROVE  AtLaunch'
<1> SUFFICES ASSUME NEW i \in DOMAIN mainQ', mainQ'[i].kind = "initial", authUser # NoUser
             PROVE  HeardOf(authUser)' \/ \E j \in 1 .. i - 1 : mainQ'[j].kind = "changed"
  BY DEF AtLaunch, HeardOf
<1>1. DOMAIN mainQ = 1 .. Len(mainQ) /\ Len(mainQ) \in Nat
  BY DEF TypeOK
<1>2. CASE MainGrows
  <2>1. i \in DOMAIN mainQ /\ mainQ[i].kind = "initial" /\ \A j \in 1 .. i - 1 : mainQ'[j] = mainQ[j]
    BY <1>1, <1>2 DEF MainGrows
  <2> QED BY <2>1 DEF AtLaunch
<1>3. CASE mainQ # <<>> /\ mainQ' = Tail(mainQ) /\ Head(mainQ).kind # "changed"
  <2>1. i + 1 \in DOMAIN mainQ /\ mainQ[i + 1].kind = "initial" /\ i \in Nat \ {0}
    BY <1>3, MainTaken
  <2>2. CASE HeardOf(authUser)
    BY <2>2
  <2>3. CASE \E j \in 1 .. (i + 1) - 1 : mainQ[j].kind = "changed"
    <3>1. PICK j \in 1 .. (i + 1) - 1 : mainQ[j].kind = "changed"
      BY <2>3
    <3>2. j \in DOMAIN mainQ /\ j # 1
      <4>1. mainQ[1].kind # "changed"
        BY <1>3, MainTaken
      <4> QED BY <1>1, <2>1, <3>1, <4>1
    <3>3. j - 1 \in 1 .. i - 1 /\ mainQ'[j - 1] = mainQ[j]
      BY <1>3, <2>1, <3>1, <3>2, MainTaken
    <3> QED BY <3>1, <3>3
  <2> QED BY <2>1, <2>2, <2>3 DEF AtLaunch
<1>4. CASE \E x : mainQ' = Append(mainQ, x) /\ x.kind # "initial"
  <2>1. PICK x : mainQ' = Append(mainQ, x) /\ x.kind # "initial"
    BY <1>4
  <2>2. /\ i \in DOMAIN mainQ /\ mainQ[i].kind = "initial"
        /\ \A j \in 1 .. i - 1 : mainQ'[j] = mainQ[j]
    <3>1. /\ (i \in DOMAIN mainQ /\ mainQ'[i] = mainQ[i]) \/ (i = Len(mainQ) + 1 /\ mainQ'[i] = x)
          /\ \A j \in DOMAIN mainQ : mainQ'[j] = mainQ[j]
      BY <2>1, MainAppended
    <3>2. i \in DOMAIN mainQ /\ mainQ'[i] = mainQ[i]
      BY <2>1, <3>1
    <3> QED BY <1>1, <3>1, <3>2
  <2> QED BY <2>2 DEF AtLaunch
<1> QED BY <1>2, <1>3, <1>4

LEMMA HandingStep == ASSUME TypeOK, Heard, Handing, [Next]_vars PROVE Handing'
<1> USE DEF Handing
<1>1. ASSUME NEW u \in Users, SignIn(u) PROVE Handing'
  <2>1. /\ mainQ' = Append(mainQ, [kind |-> "changed", user |-> u]) /\ UNCHANGED <<workerQ, currentUser, userID>>
        /\ \A i \in DOMAIN mainQ : mainQ[i].kind = "snapshot"
    BY <1>1 DEF SignIn
  <2>2. \A i \in DOMAIN mainQ' : mainQ'[i].kind # "initial"
    BY <2>1, MainAppended
  <2> QED BY <2>1, <2>2 DEF OnTheWorker, AtLaunch, HeardOf
<1>2. CASE RevokeSession
  BY <1>2 DEF RevokeSession, OnTheWorker, AtLaunch, HeardOf
<1>3. CASE RefreshToken
  <2>1. /\ mainQ' = Append(mainQ, [kind |-> "changed", user |-> authUser])
        /\ UNCHANGED <<authUser, userID, workerQ, currentUser>>
    BY <1>3 DEF RefreshToken, auth
  <2>2. \E x : mainQ' = Append(mainQ, x) /\ x.kind # "initial"
    BY <2>1
  <2> QED BY <2>1, <2>2, LaunchKept DEF OnTheWorker, HeardOf
<1>4. CASE InitialCall
  <2>1. OnTheWorker' /\ (authUser # NoUser => HeardOf(authUser)') /\ authUser' = authUser
    BY <1>4, InitialHanded DEF InitialCall
  <2> QED BY <2>1 DEF AtLaunch, HeardOf
<1>5. CASE Announced
  <2>1. OnTheWorker' /\ (authUser # NoUser => HeardOf(authUser)') /\ authUser' = authUser
    BY <1>5, AnnouncedHanded DEF Announced
  <2> QED BY <2>1 DEF AtLaunch, HeardOf
<1>6. CASE OnSnapshot
  <2>1. /\ mainQ # <<>> /\ mainQ' = Tail(mainQ) /\ Head(mainQ).kind # "changed"
        /\ UNCHANGED <<auth, workerQ, currentUser>>
    BY <1>6, MainTakes DEF OnSnapshot
  <2> QED BY <2>1, LaunchKept DEF OnTheWorker, HeardOf, auth
<1>7. CASE OpenSummary
  BY <1>7 DEF OpenSummary, OnTheWorker, AtLaunch, HeardOf, auth
<1>8. CASE SignOut
  BY <1>8 DEF SignOut, OnTheWorker, AtLaunch
<1>9. CASE Save
  <2>1. UNCHANGED <<authUser, mainQ>> /\ MainGrows
    BY <1>9 DEF Save, auth, MainGrows
  <2>2. HeardOf(authUser) => HeardOf(authUser)'
    BY <1>9, <2>1, SaveHanded DEF HeardOf
  <2> QED BY <1>9, <2>1, <2>2, SaveHanded, LaunchKept
<1>10. CASE Worker \/ Stored \/ UNCHANGED vars
  <2>1. authUser' = authUser /\ MainGrows
    BY <1>10, Behind DEF auth
  <2>2. HeardOf(authUser) => HeardOf(authUser)'
    BY <1>10, <2>1, BehindHanded DEF HeardOf
  <2> QED BY <1>10, <2>1, <2>2, BehindHanded, LaunchKept
<1> QED BY <1>1, <1>2, <1>3, <1>4, <1>5, <1>6, <1>7, <1>8, <1>9, <1>10 DEF Next, Auth, Main

------------------------------------------------------------------------------
(* What the list will show *)

\* The snapshot that comes last is not one of those that went, or came.
LEMMA ShowsTheSame ==
    ASSUME TypeOK, NEW rs, WillShow(rs)', Shown' = Shown,
           \/ mainQ' = mainQ
           \/ mainQ # <<>> /\ mainQ' = Tail(mainQ) /\ Head(mainQ).kind # "snapshot"
           \/ \E x : mainQ' = Append(mainQ, x) /\ x.kind # "snapshot"
    PROVE  WillShow(rs)
<1>1. DOMAIN mainQ = 1 .. Len(mainQ) /\ Len(mainQ) \in Nat
  BY DEF TypeOK
<1>2. CASE mainQ' = mainQ
  BY <1>2 DEF WillShow
<1>3. CASE mainQ # <<>> /\ mainQ' = Tail(mainQ) /\ Head(mainQ).kind # "snapshot"
  <2>1. /\ mainQ[1].kind # "snapshot" /\ Len(mainQ') = Len(mainQ) - 1
        /\ \A i \in DOMAIN mainQ' : i + 1 \in DOMAIN mainQ /\ mainQ'[i] = mainQ[i + 1]
        /\ \A i \in DOMAIN mainQ : i # 1 => i - 1 \in DOMAIN mainQ' /\ mainQ'[i - 1] = mainQ[i]
    BY <1>3, MainTaken DEF TypeOK
  <2>2. CASE rs = Shown /\ \A i \in DOMAIN mainQ' : mainQ'[i].kind # "snapshot"
    <3>1. \A i \in DOMAIN mainQ : mainQ[i].kind # "snapshot"
      BY <2>1, <2>2
    <3> QED BY <2>2, <3>1 DEF WillShow
  <2>3. ASSUME NEW i \in DOMAIN mainQ', mainQ'[i].kind = "snapshot", mainQ'[i].records = rs,
               \A k \in i + 1 .. Len(mainQ') : mainQ'[k].kind # "snapshot"
        PROVE  WillShow(rs)
    <3>1. i + 1 \in DOMAIN mainQ /\ mainQ[i + 1] = mainQ'[i]
      BY <2>1
    <3>2. ASSUME NEW k \in i + 1 + 1 .. Len(mainQ) PROVE mainQ[k].kind # "snapshot"
      <4>1. k \in DOMAIN mainQ /\ k # 1 /\ k - 1 \in i + 1 .. Len(mainQ')
        BY <1>1, <2>1, <3>1
      <4> QED BY <2>1, <2>3, <4>1
    <3> QED BY <2>3, <3>1, <3>2 DEF WillShow
  <2> QED BY <2>2, <2>3 DEF WillShow
<1>4. CASE \E x : mainQ' = Append(mainQ, x) /\ x.kind # "snapshot"
  <2>1. PICK x : mainQ' = Append(mainQ, x) /\ x.kind # "snapshot"
    BY <1>4
  <2>2. /\ \A i \in DOMAIN mainQ : i \in DOMAIN mainQ' /\ mainQ'[i] = mainQ[i]
        /\ \A i \in DOMAIN mainQ' : i \in DOMAIN mainQ \/ mainQ'[i].kind # "snapshot"
        /\ Len(mainQ') = Len(mainQ) + 1
    <3>1. \A i \in DOMAIN mainQ' : (i \in DOMAIN mainQ /\ mainQ'[i] = mainQ[i]) \/ (i = Len(mainQ) + 1 /\ mainQ'[i] = x)
      BY <2>1, MainAppended
    <3>2. \A i \in DOMAIN mainQ : i \in DOMAIN mainQ' /\ mainQ'[i] = mainQ[i]
      BY <2>1, MainAppended
    <3>3. Len(mainQ') = Len(mainQ) + 1
      BY <2>1 DEF TypeOK
    <3> QED BY <2>1, <3>1, <3>2, <3>3
  <2>3. CASE rs = Shown /\ \A i \in DOMAIN mainQ' : mainQ'[i].kind # "snapshot"
    BY <2>2, <2>3 DEF WillShow
  <2>4. ASSUME NEW i \in DOMAIN mainQ', mainQ'[i].kind = "snapshot", mainQ'[i].records = rs,
               \A k \in i + 1 .. Len(mainQ') : mainQ'[k].kind # "snapshot"
        PROVE  WillShow(rs)
    <3>1. i \in DOMAIN mainQ /\ mainQ[i] = mainQ'[i]
      BY <2>2, <2>4
    <3>2. ASSUME NEW k \in i + 1 .. Len(mainQ) PROVE k \in DOMAIN mainQ /\ k \in i + 1 .. Len(mainQ')
      <4> DEFINE n == Len(mainQ)
                 m == Len(mainQ')
      <4>1. i \in 1 .. n /\ m = n + 1 /\ n \in Nat /\ DOMAIN mainQ = 1 .. n /\ k \in i + 1 .. n
        BY <1>1, <2>2, <3>1
      <4> HIDE DEF n, m
      <4>2. k \in 1 .. n /\ k \in i + 1 .. m
        BY <4>1
      <4> QED BY <4>1, <4>2 DEF m
    <3>3. \A k \in i + 1 .. Len(mainQ) : mainQ[k].kind # "snapshot"
      BY <2>2, <2>4, <3>2
    <3> QED BY <2>4, <3>1, <3>3 DEF WillShow
  <2> QED BY <2>3, <2>4 DEF WillShow
<1> QED BY <1>2, <1>3, <1>4

\* A snapshot that is shown will be shown.
LEMMA ShowsTheSnapshot == ASSUME TypeOK, NEW rs, WillShow(rs)', OnSnapshot PROVE WillShow(rs)
<1>1. /\ mainQ # <<>> /\ mainQ' = Tail(mainQ) /\ mainQ[1].kind = "snapshot"
      /\ Len(mainQ') = Len(mainQ) - 1 /\ DOMAIN mainQ = 1 .. Len(mainQ) /\ Len(mainQ) \in Nat
      /\ \A i \in DOMAIN mainQ' : i + 1 \in DOMAIN mainQ /\ mainQ'[i] = mainQ[i + 1]
      /\ \A i \in DOMAIN mainQ : i # 1 => i - 1 \in DOMAIN mainQ' /\ mainQ'[i - 1] = mainQ[i]
      /\ 1 \in DOMAIN mainQ
  BY MainTakes, MainTaken DEF OnSnapshot, TypeOK
<1>2. Shown' = mainQ[1].records
  <2>1. Head(mainQ) = mainQ[1]
    BY <1>1, MainTaken
  <2>2. /\ published' = <<mainQ[1].records>> /\ summaryMade' = summaryMade
        /\ summaryMade => recordList' = mainQ[1].records
    BY <2>1 DEF OnSnapshot
  <2>3. published' # <<>> /\ published'[1] = mainQ[1].records
    BY <2>2
  <2> QED BY <2>2, <2>3 DEF Shown
<1>3. CASE rs = Shown' /\ \A i \in DOMAIN mainQ' : mainQ'[i].kind # "snapshot"
  <2>1. \A k \in 1 + 1 .. Len(mainQ) : mainQ[k].kind # "snapshot"
    <3> SUFFICES ASSUME NEW k \in 1 + 1 .. Len(mainQ) PROVE mainQ[k].kind # "snapshot"
      OBVIOUS
    <3>1. k \in DOMAIN mainQ /\ k # 1
      BY <1>1
    <3>2. k - 1 \in DOMAIN mainQ' /\ mainQ'[k - 1] = mainQ[k]
      BY <1>1, <3>1
    <3> QED BY <1>3, <3>2
  <2> QED BY <1>1, <1>2, <1>3, <2>1 DEF WillShow
<1>4. ASSUME NEW i \in DOMAIN mainQ', mainQ'[i].kind = "snapshot", mainQ'[i].records = rs,
             \A k \in i + 1 .. Len(mainQ') : mainQ'[k].kind # "snapshot"
      PROVE  WillShow(rs)
  <2>1. i + 1 \in DOMAIN mainQ /\ mainQ[i + 1] = mainQ'[i]
    BY <1>1
  <2>2. ASSUME NEW k \in i + 1 + 1 .. Len(mainQ) PROVE mainQ[k].kind # "snapshot"
    <3>1. k \in DOMAIN mainQ /\ k # 1 /\ k - 1 \in i + 1 .. Len(mainQ')
      BY <1>1, <2>1
    <3> QED BY <1>1, <1>4, <3>1
  <2> QED BY <1>4, <2>1, <2>2 DEF WillShow
<1> QED BY <1>3, <1>4 DEF WillShow

\* Snapshots that come replace what would have been shown.
LEMMA ShowsTheLast ==
    ASSUME TypeOK, NEW rs, WillShow(rs)', Shown' = Shown, NEW t \in Seq(MainBlock),
           \A i \in DOMAIN t : t[i].kind = "snapshot", mainQ' = mainQ \o t
    PROVE  (t = <<>> /\ WillShow(rs)) \/ \E i \in DOMAIN t : t[i].records = rs
<1>1. CASE t = <<>>
  <2>1. mainQ' = mainQ
    BY <1>1 DEF TypeOK
  <2> QED BY <1>1, <2>1, ShowsTheSame
<1>2. CASE t # <<>>
  <2> DEFINE n == Len(mainQ)
  <2>1. mainQ \in Seq(MainBlock)
    BY DEF TypeOK
  <2>2. /\ n \in Nat /\ Len(t) \in Nat \ {0} /\ DOMAIN mainQ = 1 .. n /\ DOMAIN t = 1 .. Len(t)
        /\ DOMAIN mainQ' = 1 .. n + Len(t)
        /\ \A i \in DOMAIN t : mainQ'[n + i] = t[i]
    BY <1>2, <2>1, Joined
  <2>3. Len(mainQ') = n + Len(t)
    BY <2>1
  <2> HIDE DEF n
  <2>4. Len(t) \in DOMAIN t /\ n + Len(t) \in DOMAIN mainQ' /\ mainQ'[n + Len(t)].kind = "snapshot"
    BY <2>2
  <2>5. PICK i \in DOMAIN mainQ' :
            /\ mainQ'[i].kind = "snapshot" /\ mainQ'[i].records = rs
            /\ \A k \in i + 1 .. Len(mainQ') : mainQ'[k].kind # "snapshot"
    BY <2>4 DEF WillShow
  <2>6. i = n + Len(t)
    <3>1. i \in 1 .. n + Len(t) /\ n + Len(t) \in Nat
      BY <2>2
    <3>2. i # n + Len(t) => n + Len(t) \in i + 1 .. Len(mainQ')
      BY <2>3, <3>1
    <3> QED BY <2>4, <2>5, <3>2
  <2> QED BY <2>2, <2>4, <2>5, <2>6
<1> QED BY <1>1, <1>2

------------------------------------------------------------------------------
(* What the local store knows *)

\* The worker's user at its first block.
LEMMA FirstIsOwn ==
    ASSUME TypeOK, OnTheWorker, workerQ # <<>>
    PROVE  /\ Head(workerQ).kind = "write" => Head(workerQ).record.owner = currentUser
           /\ Head(workerQ).kind = "listen" => Head(workerQ).user = currentUser
<1>1. 1 \in DOMAIN workerQ /\ Head(workerQ) = workerQ[1]
  BY DEF TypeOK
<1> QED BY <1>1, AtTheFront DEF OnTheWorker, Handed

LEMMA OwnQueuesInit == Init => OwnQueues
<1> SUFFICES ASSUME Init PROVE OwnQueues
  OBVIOUS
<1>1. PICK left : pending = [u \in Anybody |-> {r \in left : r.owner = u}]
  BY DEF Init
<1> QED BY <1>1 DEF OwnQueues

LEMMA OwnQueuesStep == ASSUME TypeOK, OnTheWorker, OwnQueues, [Next]_vars PROVE OwnQueues'
<1>1. CASE WriteMutations
  <2>1. workerQ # <<>> /\ Head(workerQ).kind = "write"
    BY <1>1, WorkerTakes DEF WriteMutations
  <2>2. pending' = [pending EXCEPT ![currentUser] = @ \cup {Head(workerQ).record}]
    BY <1>1 DEF WriteMutations
  <2>3. Head(workerQ).record.owner = currentUser
    BY <2>1, FirstIsOwn
  <2> QED BY <2>2, <2>3 DEF OwnQueues, TypeOK
<1>2. CASE HandleSuccessfulWrite
  <2>1. PICK r : pending' = [pending EXCEPT ![currentUser] = @ \ {r}]
    BY <1>2 DEF HandleSuccessfulWrite
  <2> QED BY <2>1 DEF OwnQueues, TypeOK
<1>3. CASE HandleRejectedWrite
  <2>1. PICK r : pending' = [pending EXCEPT ![currentUser] = @ \ {r}]
    BY <1>3 DEF HandleRejectedWrite
  <2> QED BY <2>1 DEF OwnQueues, TypeOK
<1>4. pending' = pending => OwnQueues'
  BY DEF OwnQueues
<1>5. Auth \/ Main => pending' = pending
  BY DEF Auth, Main, SignIn, RevokeSession, RefreshToken, InitialCall, Announced, OnSnapshot, OpenSummary,
         SignOut, Save, disk
<1>6. Stored \/ HandleCredentialChange \/ Listen \/ GoOffline \/ UNCHANGED vars => pending' = pending
  BY DEF Stored, HandleCredentialChange, Listen, GoOffline, vars, disk
<1>7. \A u \in Users : ApplyRemoteEvent(u) \/ HandleRejectedListen(u) => pending' = pending
  BY DEF ApplyRemoteEvent, HandleRejectedListen, disk
<1> QED BY <1>1, <1>2, <1>3, <1>4, <1>5, <1>6, <1>7 DEF Next, Worker

LEMMA CurrentInit == Init => Current
<1> SUFFICES ASSUME Init PROVE Current
  OBVIOUS
<1>1. \A u \in Users : views[u].raised = <<>>
  BY DEF Init, NoView
<1> QED BY <1>1 DEF Current, Listening

\* What follows of Emits while the views are current: who is told, of what, and who is not.
Telling(t, T) ==
    /\ mainQ' = mainQ \o t
    /\ t = <<>> <=> T = {}
    /\ \A i \in DOMAIN t : t[i].kind = "snapshot" /\ \E u \in T : t[i].records = views'[u].records
    /\ \A u \in T :
          /\ Listening(u)
          /\ views'[u].records = views[u].records => views'[u].records = {}
    /\ \A u \in Users \ T :
          /\ \A i \in DOMAIN views[u].raised :
                /\ views'[u].raised[i] <=> views[u].raised[i]
                /\ views[u].raised[i] => views'[u].records = views[u].records

LEMMA EmitsCurrent ==
    ASSUME TypeOK, Current, Emits
    PROVE  /\ Current'
           /\ \A u \in Users : /\ Listening(u)' <=> Listening(u)
                               /\ Len(views'[u].raised) = Len(views[u].raised)
           /\ \E t \in Seq(MainBlock), T \in SUBSET Users : Telling(t, T)
<1>1. PICK next, state :
          /\ Views(next) /\ Emitted(next, state)
          /\ \A u \in Users :
                \/ Listening(u) /\ next[u].records = LocalRecords(u)'
                \/ /\ next[u].records = views[u].records
                   /\ Listening(u) => LocalRecords(u)' = LocalRecords(u)
  BY DEF Emits
<1>2. ASSUME NEW u \in Users
      PROVE  /\ views[u].raised \in Seq(BOOLEAN) /\ views'[u].raised \in Seq(BOOLEAN)
             /\ next[u].raised = views[u].raised
             /\ views'[u].records = next[u].records /\ views'[u].synced = next[u].synced
             /\ Len(views'[u].raised) = Len(views[u].raised)
             /\ DOMAIN views'[u].raised = DOMAIN views[u].raised
             /\ \A i \in DOMAIN views[u].raised :
                   views'[u].raised[i] <=> views[u].raised[i] \/ i \in Told(views[u], next[u], state)
  <2>1. views[u] \in View /\ views'[u] \in View
    BY <1>1 DEF TypeOK, Emitted
  <2>2. views[u].raised \in Seq(BOOLEAN) /\ views'[u].raised \in Seq(BOOLEAN)
    BY <2>1 DEF View
  <2>3. next[u].raised = views[u].raised
    BY <1>1 DEF Views
  <2> QED BY <1>1, <2>2, <2>3 DEF Emitted
<1>3. ASSUME NEW u \in Users PROVE Listening(u)' <=> Listening(u)
  BY <1>2 DEF Listening
<1>4. ASSUME NEW u \in Users, NEW i \in DOMAIN views[u].raised
      PROVE  /\ i \in Told(views[u], next[u], state)
                 <=> IF views[u].raised[i] THEN next[u].records # views[u].records
                     ELSE next[u].synced \/ next[u].records # {} \/ state = "offline"
             /\ ~views'[u].raised[i] => views'[u].records = {}
             /\ i \in Told(views[u], next[u], state) =>
                   (views'[u].records = views[u].records => views'[u].records = {})
             /\ views[u].raised[i] /\ i \notin Told(views[u], next[u], state) =>
                   views'[u].records = views[u].records
  <2>1. i \in Told(views[u], next[u], state)
            <=> IF views[u].raised[i] THEN next[u].records # views[u].records
                ELSE next[u].synced \/ next[u].records # {} \/ state = "offline"
    BY <1>2 DEF Told, Raises
  <2>2. ~views[u].raised[i] => views[u].records = {}
    BY DEF Current
  <2> QED BY <1>2, <2>1, <2>2
<1>5. \A u \in Users : \A i \in Told(views[u], next[u], state) : i \in DOMAIN views[u].raised
  BY <1>2 DEF Told
<1>6. Current'
  <2>1. ASSUME NEW u \in Users, Listening(u)' PROVE views'[u].records = LocalRecords(u)'
    BY <1>1, <1>2, <1>3, <2>1 DEF Current
  <2>2. ASSUME NEW u \in Users, NEW i \in DOMAIN views'[u].raised, ~views'[u].raised[i]
        PROVE  views'[u].records = {}
    BY <1>2, <1>4, <2>2
  <2> QED BY <2>1, <2>2 DEF Current
<1>7. PICK calls \in Seq(Users) :
          /\ mainQ' = mainQ \o SnapshotsOf(next, calls)
          /\ \A u \in Users : (\E i \in DOMAIN calls : calls[i] = u) <=> Told(views[u], next[u], state) # {}
  BY <1>1 DEF Emitted
<1> DEFINE t == SnapshotsOf(next, calls)
           T == {u \in Users : Told(views[u], next[u], state) # {}}
<1>8. /\ t \in Seq(MainBlock) /\ Len(t) = Len(calls)
      /\ \A i \in DOMAIN calls :
            calls[i] \in Users /\ t[i].kind = "snapshot" /\ t[i].records = next[calls[i]].records
  BY <1>1, SnapshotsAreBlocks DEF Views
<1> HIDE DEF t
<1>9. DOMAIN t = DOMAIN calls /\ (t = <<>> <=> DOMAIN calls = {})
  BY <1>8
<1>10. t = <<>> <=> T = {}
  BY <1>7, <1>8, <1>9
<1>11. ASSUME NEW i \in DOMAIN t PROVE t[i].kind = "snapshot" /\ \E u \in T : t[i].records = views'[u].records
  <2>1. i \in DOMAIN calls /\ calls[i] \in Users /\ t[i].kind = "snapshot" /\ t[i].records = next[calls[i]].records
    BY <1>8, <1>9
  <2>2. calls[i] \in T
    BY <1>7, <2>1
  <2>3. views'[calls[i]].records = next[calls[i]].records
    BY <1>2, <2>1
  <2> QED BY <2>1, <2>2, <2>3
<1>12. ASSUME NEW u \in T PROVE Listening(u) /\ (views'[u].records = views[u].records => views'[u].records = {})
  <2>1. PICK i \in Told(views[u], next[u], state) : i \in DOMAIN views[u].raised
    BY <1>5
  <2> QED BY <1>4, <2>1 DEF Listening
<1>13. ASSUME NEW u \in Users \ T, NEW i \in DOMAIN views[u].raised
       PROVE  /\ views'[u].raised[i] <=> views[u].raised[i]
              /\ views[u].raised[i] => views'[u].records = views[u].records
  BY <1>2, <1>4
<1> HIDE DEF T
<1>14. Telling(t, T)
  BY <1>7, <1>10, <1>11, <1>12, <1>13 DEF Telling, t
<1> QED BY <1>2, <1>3, <1>6, <1>8, <1>14 DEF T

\* A listener is added for the worker's user, who hears at once what the local store knows, or
\* nothing as long as that is nothing.
LEMMA ListenCurrent ==
    ASSUME TypeOK, OnTheWorker, Current, Listen
    PROVE  /\ workerQ # <<>> /\ workerQ' = Tail(workerQ) /\ Head(workerQ).kind = "listen"
           /\ Head(workerQ).user = currentUser /\ currentUser \in Users
           /\ Current'
           /\ \A v \in Users : v # currentUser => views'[v] = views[v]
           /\ views'[currentUser].records = LocalRecords(currentUser)
           /\ \E t \in Seq(MainBlock) :
                 /\ mainQ' = mainQ \o t
                 /\ \A i \in DOMAIN t : t[i].kind = "snapshot" /\ t[i].records = LocalRecords(currentUser)
                 /\ views'[currentUser].raised[Len(views'[currentUser].raised)] => t # <<>>
<1> DEFINE u == Head(workerQ).user
           view == Listened(u)
           noticed == Noticed(view, view, online)
<1>1. /\ workerQ # <<>> /\ workerQ' = Tail(workerQ) /\ Head(workerQ).kind = "listen"
      /\ u \in Users
  BY WorkerTakes, BlocksThereAre DEF Listen
<1>2. u = currentUser
  BY <1>1, FirstIsOwn
<1>3. UNCHANGED <<cache, pending, currentUser>>
  BY DEF Listen, disk
<1>4. \A v : LocalRecords(v)' = LocalRecords(v)
  BY <1>3 DEF LocalRecords
<1>5. views' = [views EXCEPT ![u] = noticed] /\ mainQ' = mainQ \o Answer(view)
  BY DEF Listen, Answer
<1>6. /\ view \in View
      /\ Listening(u) => view.records = views[u].records /\ view.raised = Append(views[u].raised, FALSE)
      /\ ~Listening(u) => view.records = LocalRecords(u) /\ view.raised = <<FALSE>>
  BY <1>1, ListenedIsAView
<1>7. view.records = LocalRecords(u)
  BY <1>1, <1>6 DEF Current
<1>8. /\ view.raised \in Seq(BOOLEAN) /\ Len(view.raised) \in DOMAIN view.raised
      /\ ~view.raised[Len(view.raised)]
  <2> DEFINE r == view.raised
             old == views[u].raised
  <2>1. r = Append(old, FALSE) \/ r = <<FALSE>>
    BY <1>6
  <2>2. old \in Seq(BOOLEAN) /\ r \in Seq(BOOLEAN)
    BY <1>1, <1>6 DEF TypeOK, View
  <2> HIDE DEF r, old
  <2>3. CASE r = Append(old, FALSE)
    <3>1. /\ Len(old) \in Nat /\ Len(r) = Len(old) + 1 /\ DOMAIN r = 1 .. Len(old) + 1
          /\ r[Len(old) + 1] = FALSE
      BY <2>2, <2>3, Appended
    <3> QED BY <2>2, <3>1 DEF r
  <2>4. CASE r = <<FALSE>>
    <3>1. Len(r) = 1 /\ DOMAIN r = 1 .. 1 /\ r[1] = FALSE
      BY <2>4
    <3> QED BY <2>2, <3>1 DEF r
  <2> QED BY <2>1, <2>3, <2>4
<1> HIDE DEF view
<1>9. /\ noticed \in View /\ noticed.records = view.records
      /\ DOMAIN noticed.raised = DOMAIN view.raised /\ Len(noticed.raised) = Len(view.raised)
      /\ \A i \in DOMAIN view.raised :
            noticed.raised[i] <=> view.raised[i] \/ i \in Told(view, view, online)
  BY <1>6, NoticedIsAView
<1> HIDE DEF noticed, u
<1>10. views'[u] = noticed /\ \A v \in Users : v # u => views'[v] = views[v]
  BY <1>1, <1>5 DEF TypeOK
<1>11. ASSUME NEW i \in DOMAIN view.raised, ~noticed.raised[i] PROVE view.records = {}
  <2>1. ~view.raised[i] /\ i \notin Told(view, view, online)
    BY <1>9, <1>11
  <2> QED BY <2>1, <1>11 DEF Told, Raises
<1>12. Current'
  <2>1. ASSUME NEW v \in Users, Listening(v)' PROVE views'[v].records = LocalRecords(v)'
    <3>1. CASE v = u
      BY <1>4, <1>7, <1>9, <1>10, <3>1
    <3>2. CASE v # u
      BY <1>4, <1>10, <2>1, <3>2 DEF Current, Listening
    <3> QED BY <3>1, <3>2
  <2>2. ASSUME NEW v \in Users, NEW i \in DOMAIN views'[v].raised, ~views'[v].raised[i]
        PROVE  views'[v].records = {}
    <3>1. CASE v = u
      BY <1>9, <1>10, <1>11, <2>2, <3>1
    <3>2. CASE v # u
      BY <1>10, <2>2, <3>2 DEF Current
    <3> QED BY <3>1, <3>2
  <2> QED BY <2>1, <2>2 DEF Current
<1> DEFINE t == Answer(view)
<1>13. /\ t \in Seq(MainBlock) /\ (t = <<>> <=> Told(view, view, online) = {})
       /\ \A i \in DOMAIN t : t[i].kind = "snapshot" /\ t[i].records = view.records
  BY <1>6, AnswerIsBlocks
<1> HIDE DEF t
<1>14. views'[u].raised[Len(views'[u].raised)] => t # <<>>
  BY <1>8, <1>9, <1>10, <1>13
<1>15. mainQ' = mainQ \o t
  BY <1>5 DEF t
<1>16. \E s \in Seq(MainBlock) :
          /\ mainQ' = mainQ \o s
          /\ \A i \in DOMAIN s : s[i].kind = "snapshot" /\ s[i].records = LocalRecords(u)
          /\ views'[u].raised[Len(views'[u].raised)] => s # <<>>
  BY <1>7, <1>13, <1>14, <1>15
<1>17. Head(workerQ).user = u
  BY DEF u
<1> QED BY <1>1, <1>2, <1>7, <1>9, <1>10, <1>12, <1>16, <1>17

\* Nobody else touches what the worker has.
LEMMA WorkersOwn ==
    ASSUME Auth \/ Main \/ Stored \/ UNCHANGED vars
    PROVE  UNCHANGED <<currentUser, views, cache, pending>>
<1>1. Auth \/ Main => UNCHANGED <<currentUser, views, cache, pending>>
  BY DEF Auth, Main, SignIn, RevokeSession, RefreshToken, InitialCall, Announced, OnSnapshot, OpenSummary,
         SignOut, Save, disk
<1>2. Stored \/ UNCHANGED vars => UNCHANGED <<currentUser, views, cache, pending>>
  BY DEF Stored, vars, disk
<1> QED BY <1>1, <1>2

\* The steps that compute the views anew.
EmitStep ==
    \/ HandleCredentialChange \/ WriteMutations \/ HandleSuccessfulWrite \/ HandleRejectedWrite \/ GoOffline
    \/ \E u \in Users : ApplyRemoteEvent(u)

LEMMA EmitStepEmits == ASSUME TypeOK, EmitStep PROVE Emits
BY CredentialEmits, WriteEmits, AcknowledgementEmits, RejectionEmits, OfflineEmits, RemoteEventEmits DEF EmitStep

LEMMA RejectedListener ==
    ASSUME TypeOK, NEW u \in Users, HandleRejectedListen(u)
    PROVE  /\ views'[u].raised = <<>> /\ ~Listening(u)'
           /\ \A v \in Users : v # u => views'[v] = views[v]
           /\ \A v : LocalRecords(v)' = LocalRecords(v)
<1>1. views' = [views EXCEPT ![u] = NoView] /\ UNCHANGED <<cache, pending, currentUser>>
  BY DEF HandleRejectedListen, AfterError, disk
<1>2. views'[u] = NoView /\ \A v \in Users : v # u => views'[v] = views[v]
  BY <1>1 DEF TypeOK
<1> QED BY <1>1, <1>2 DEF NoView, Listening, LocalRecords

LEMMA CurrentStep == ASSUME TypeOK, OnTheWorker, Current, [Next]_vars PROVE Current'
<1>1. CASE EmitStep
  BY <1>1, EmitStepEmits, EmitsCurrent
<1>2. CASE Listen
  BY <1>2, ListenCurrent
<1>3. ASSUME NEW u \in Users, HandleRejectedListen(u) PROVE Current'
  BY <1>3, RejectedListener DEF Current, Listening
<1>4. CASE Auth \/ Main \/ Stored \/ UNCHANGED vars
  BY <1>4, WorkersOwn DEF Current, Listening, LocalRecords
<1> QED BY <1>1, <1>2, <1>3, <1>4 DEF Next, Worker, EmitStep

------------------------------------------------------------------------------
(* Who is listened to *)

LEMMA StartedInit == Init => Started
<1> SUFFICES ASSUME Init PROVE Started
  OBVIOUS
<1>1. \A u \in Users : views[u].raised = <<>>
  BY DEF Init, NoView
<1>2. DOMAIN workerQ = {}
  BY DEF Init
<1> QED BY <1>1, <1>2 DEF Started, Listening, Pending

LEMMA PendingAppended ==
    ASSUME TypeOK, NEW x \in WorkerBlock, NEW q \in Seq(WorkerBlock), workerQ' = Append(q, x), NEW u
    PROVE  Pending(u)' <=> (x.kind = "listen" /\ x.user = u) \/ \E i \in DOMAIN q : q[i].kind = "listen" /\ q[i].user = u
<1> DEFINE a == Append(q, x)
<1>1. /\ Len(q) \in Nat /\ DOMAIN q = 1 .. Len(q) /\ DOMAIN a = 1 .. Len(q) + 1
      /\ \A i \in DOMAIN q : a[i] = q[i]
      /\ a[Len(q) + 1] = x
  BY Appended
<1>2. workerQ' = a
  OBVIOUS
<1> HIDE DEF a
<1>3. Len(q) + 1 \in DOMAIN a /\ \A i \in DOMAIN a : i \in DOMAIN q \/ i = Len(q) + 1
  BY <1>1
<1>4. \A i \in DOMAIN q : i \in DOMAIN a
  BY <1>1
<1> QED BY <1>1, <1>2, <1>3, <1>4 DEF Pending

\* A listener of Firestore is on its way once AuthService's listener started FirestoreService.
LEMMA StartsPending ==
    ASSUME TypeOK, NEW a \in Anybody, NEW blocks \in {<<>>, <<[kind |-> "credential", user |-> a]>>}, Listens(blocks)
    PROVE  \A u : Pending(u)' <=>
                \/ Pending(u)
                \/ (first \/ authUser # prevUser) /\ authUser # NoUser /\ u = authUser
<1> DEFINE x == [kind |-> "credential", user |-> a]
           y == [kind |-> "listen", user |-> authUser]
           q == workerQ \o blocks
<1>1. /\ x \in WorkerBlock /\ x.kind = "credential" /\ y.kind = "listen" /\ y.user = authUser
      /\ workerQ \in Seq(WorkerBlock) /\ authUser \in Anybody
  BY BlocksThereAre DEF TypeOK
<1>2. blocks = <<>> \/ blocks = <<x>>
  OBVIOUS
<1> HIDE DEF x
<1>3. /\ q \in Seq(WorkerBlock)
      /\ \A u : (\E i \in DOMAIN q : q[i].kind = "listen" /\ q[i].user = u) <=> Pending(u)
  <2>1. CASE blocks = <<>>
    <3>1. q = workerQ
      BY <1>1, <2>1
    <3> HIDE DEF q
    <3> QED BY <1>1, <3>1 DEF Pending
  <2>2. CASE blocks = <<x>>
    <3>1. q = Append(workerQ, x)
      BY <1>1, <2>2, Lengthened
    <3> HIDE DEF q
    <3>2. /\ Len(workerQ) \in Nat /\ DOMAIN workerQ = 1 .. Len(workerQ) /\ DOMAIN q = 1 .. Len(workerQ) + 1
          /\ \A i \in DOMAIN workerQ : q[i] = workerQ[i]
          /\ q[Len(workerQ) + 1] = x
      BY <1>1, <3>1, Appended
    <3>3. q \in Seq(WorkerBlock)
      BY <1>1, <3>1, Lengthened
    <3>4. \A i \in DOMAIN q : i \in DOMAIN workerQ \/ q[i] = x
      BY <3>2
    <3>5. \A i \in DOMAIN workerQ : i \in DOMAIN q
      BY <3>2
    <3> QED BY <1>1, <3>2, <3>3, <3>4, <3>5 DEF Pending
  <2> QED BY <1>2, <2>1, <2>2
<1>4. CASE (first \/ authUser # prevUser) /\ authUser # NoUser
  <2>1. authUser \in Users /\ workerQ' = workerQ \o Append(blocks, y)
    BY <1>1, <1>4 DEF Listens, Anybody
  <2>2. y \in WorkerBlock
    BY <2>1, BlocksThereAre
  <2> HIDE DEF y
  <2>3. workerQ' = Append(q, y)
    <3>1. CASE blocks = <<>>
      BY <1>1, <2>1, <2>2, <3>1, Lengthened
    <3>2. CASE blocks = <<x>>
      BY <1>1, <2>1, <2>2, <3>2, Lengthened
    <3> QED BY <1>2, <3>1, <3>2
  <2> HIDE DEF q
  <2>4. \A u : Pending(u)' <=> (y.kind = "listen" /\ y.user = u) \/ Pending(u)
    BY <1>3, <2>2, <2>3, PendingAppended
  <2> QED BY <1>1, <1>4, <2>4 DEF y
<1>5. CASE ~((first \/ authUser # prevUser) /\ authUser # NoUser)
  <2>1. workerQ' = q
    BY <1>5 DEF Listens, TypeOK
  <2> HIDE DEF q
  <2> QED BY <1>3, <1>5, <2>1 DEF Pending
<1> QED BY <1>4, <1>5

\* What the other threads do to a list whose last listener was called.
LEMMA StartsAndStops ==
    ASSUME TypeOK, NEW a \in Anybody, NEW blocks \in {<<>>, <<[kind |-> "credential", user |-> a]>>}, Listens(blocks)
    PROVE  /\ started \subseteq started' /\ \A u : Pending(u) => Pending(u)'
           /\ \A u : Pending(u)' => Pending(u) \/ u \in started'
           /\ userID' # NoUser /\ ~Pending(userID)' => UNCHANGED <<userID, started, published>>
<1>1. \A u : Pending(u)' <=>
                \/ Pending(u)
                \/ (first \/ authUser # prevUser) /\ authUser # NoUser /\ u = authUser
  BY StartsPending
<1>2. CASE (first \/ authUser # prevUser) /\ authUser # NoUser
  <2>1. userID' = authUser /\ started' = started \cup {authUser}
    BY <1>2 DEF Listens
  <2>2. \A u : u = userID' => Pending(u)'
    BY <1>1, <1>2, <2>1
  <2>3. Pending(userID)'
    BY <2>2 DEF Pending
  <2> QED BY <1>1, <2>1, <2>3
<1>3. CASE (first \/ authUser # prevUser) /\ authUser = NoUser
  BY <1>1, <1>3 DEF Listens
<1>4. CASE ~first /\ authUser = prevUser
  BY <1>1, <1>4 DEF Listens
<1> QED BY <1>2, <1>3, <1>4

LEMMA ElsewhereShown ==
    ASSUME TypeOK, Auth \/ Main \/ Stored \/ UNCHANGED vars
    PROVE  /\ started \subseteq started' /\ \A u : Pending(u) => Pending(u)'
           /\ \A u : Pending(u)' => Pending(u) \/ u \in started'
           /\ userID' # NoUser /\ ~Pending(userID)' =>
                 UNCHANGED <<userID, started>> /\ \A rs : WillShow(rs)' => WillShow(rs)
<1>1. CASE (\E u \in Users : SignIn(u)) \/ RevokeSession \/ RefreshToken \/ Stored \/ UNCHANGED vars
  <2>1. UNCHANGED <<userID, started, workerQ, summary>>
    BY <1>1 DEF SignIn, RevokeSession, RefreshToken, Stored, vars, auth
  <2>2. mainQ' = mainQ \/ \E x : mainQ' = Append(mainQ, x) /\ x.kind # "snapshot"
    <3>1. mainQ' = mainQ \/ \E u : mainQ' = Append(mainQ, [kind |-> "changed", user |-> u])
      BY <1>1 DEF SignIn, RevokeSession, RefreshToken, Stored, vars
    <3>2. \A u : [kind |-> "changed", user |-> u].kind # "snapshot"
      OBVIOUS
    <3> QED BY <3>1, <3>2
  <2>3. Shown' = Shown
    BY <2>1 DEF Shown, summary
  <2> QED BY <2>1, <2>2, <2>3, ShowsTheSame DEF Pending
<1>2. CASE InitialCall \/ Announced
  <2> DEFINE Runs(blocks) ==
               Listens(blocks) \/ (~observing /\ workerQ' = workerQ \o blocks /\ UNCHANGED <<userID, started, published>>)
  <2>1. PICK a \in Anybody : \E blocks \in {<<>>, <<[kind |-> "credential", user |-> a]>>} : Runs(blocks)
    <3>1. CASE InitialCall
      <4>1. NoUser \in Anybody /\ Listens(<<>>)
        BY <3>1, ListenerCalled DEF InitialCall, Anybody
      <4> QED BY <4>1
    <3>2. CASE Announced
      <4> DEFINE blocks == <<[kind |-> "credential", user |-> Head(mainQ).user]>>
      <4>1. Head(mainQ).user \in Anybody
        BY <3>2, MainTakes, BlocksThereAre DEF Announced
      <4>2. Runs(blocks)
        BY <3>2, ListenerCalled DEF Announced
      <4> QED BY <4>1, <4>2
    <3> QED BY <1>2, <3>1, <3>2
  <2>6. PICK blocks \in {<<>>, <<[kind |-> "credential", user |-> a]>>} : Runs(blocks)
    BY <2>1
  <2>2. UNCHANGED <<summaryMade, recordList>> /\ mainQ # <<>> /\ mainQ' = Tail(mainQ) /\ Head(mainQ).kind # "snapshot"
    BY <1>2, MainTakes DEF InitialCall, Announced
  <2>3. published' = published => \A rs : WillShow(rs)' => WillShow(rs)
    BY <2>2, ShowsTheSame DEF Shown
  <2>4. CASE Listens(blocks)
    BY <2>3, <2>4, StartsAndStops
  <2>5. CASE ~observing /\ workerQ' = workerQ \o blocks /\ UNCHANGED <<userID, started, published>>
    <3> DEFINE x == [kind |-> "credential", user |-> a]
    <3>1. workerQ \in Seq(WorkerBlock) /\ x \in WorkerBlock /\ x.kind = "credential"
      BY BlocksThereAre DEF TypeOK
    <3>2. blocks = <<>> \/ blocks = <<x>>
      OBVIOUS
    <3> HIDE DEF x
    <3>3. workerQ' = workerQ \/ workerQ' = Append(workerQ, x)
      BY <2>5, <3>1, <3>2, Lengthened
    <3>4. \A u : Pending(u)' <=> Pending(u)
      BY <3>1, <3>3, PendingAppended DEF Pending
    <3> QED BY <2>3, <2>5, <3>4
  <2> QED BY <2>6, <2>4, <2>5
<1>3. CASE OnSnapshot
  <2>1. UNCHANGED <<userID, started, workerQ>>
    BY <1>3 DEF OnSnapshot, auth
  <2> QED BY <1>3, <2>1, ShowsTheSnapshot DEF Pending
<1>4. CASE OpenSummary
  <2>1. UNCHANGED <<userID, started, workerQ, mainQ>>
    BY <1>4 DEF OpenSummary, auth
  <2>2. Shown' = Shown
    BY <1>4 DEF OpenSummary, Shown
  <2> QED BY <2>1, <2>2, ShowsTheSame DEF Pending
<1>5. CASE SignOut
  BY <1>5 DEF SignOut, Pending
<1>6. CASE Save
  <2>1. UNCHANGED <<userID, started, mainQ, summary>>
    BY <1>6 DEF Save, auth
  <2>2. PICK x \in WorkerBlock : workerQ' = Append(workerQ, x) /\ x.kind = "write"
    <3>1. userID \in Users
      BY <1>6 DEF Save, TypeOK, Anybody
    <3>2. PICK r \in NewRecord(userID) : workerQ' = Append(workerQ, [kind |-> "write", record |-> r])
      BY <1>6 DEF Save
    <3>3. r \in Record
      BY <3>1 DEF NewRecord, Record
    <3>4. [kind |-> "write", record |-> r] \in WorkerBlock /\ [kind |-> "write", record |-> r].kind = "write"
      BY <3>3, BlocksThereAre
    <3> QED BY <3>2, <3>4
  <2>3. \A u : Pending(u)' <=> Pending(u)
    <3>1. workerQ \in Seq(WorkerBlock)
      BY DEF TypeOK
    <3>2. \A u : Pending(u)' <=>
                   (x.kind = "listen" /\ x.user = u) \/ \E i \in DOMAIN workerQ : workerQ[i].kind = "listen" /\ workerQ[i].user = u
      BY <2>2, <3>1, PendingAppended
    <3>3. \A u : Pending(u)' <=> \E i \in DOMAIN workerQ : workerQ[i].kind = "listen" /\ workerQ[i].user = u
      BY <2>2, <3>2
    <3> QED BY <3>3 DEF Pending
  <2>4. Shown' = Shown
    BY <2>1 DEF Shown, summary
  <2> QED BY <2>1, <2>3, <2>4, ShowsTheSame
<1> QED BY <1>1, <1>2, <1>3, <1>4, <1>5, <1>6 DEF Auth, Main

LEMMA PendingTaken ==
    ASSUME TypeOK, workerQ # <<>>, workerQ' = Tail(workerQ)
    PROVE  \A u : /\ Pending(u)' => Pending(u)
                  /\ Pending(u) => Pending(u)' \/ (Head(workerQ).kind = "listen" /\ Head(workerQ).user = u)
<1>1. workerQ \in Seq(WorkerBlock)
  BY DEF TypeOK
<1>2. /\ Len(workerQ) \in Nat \ {0} /\ DOMAIN workerQ = 1 .. Len(workerQ) /\ DOMAIN workerQ' = 1 .. Len(workerQ) - 1
      /\ Head(workerQ) = workerQ[1]
      /\ \A i \in DOMAIN workerQ' : workerQ'[i] = workerQ[i + 1] /\ i + 1 \in DOMAIN workerQ
  BY <1>1, Taken
<1>3. \A i \in DOMAIN workerQ : i # 1 => i - 1 \in DOMAIN workerQ' /\ workerQ'[i - 1] = workerQ[i]
  BY <1>2
<1> QED BY <1>2, <1>3 DEF Pending

\* The steps of the worker that take no listener.
LEMMA EmitStepTakes ==
    ASSUME TypeOK, EmitStep
    PROVE  /\ UNCHANGED <<auth, summary>>
           /\ \/ UNCHANGED <<workerQ, currentUser>>
              \/ workerQ # <<>> /\ workerQ' = Tail(workerQ) /\ Head(workerQ).kind # "listen"
           /\ \A u : Pending(u)' <=> Pending(u)
<1>1. UNCHANGED <<auth, summary>>
  BY DEF EmitStep, HandleCredentialChange, WriteMutations, HandleSuccessfulWrite, HandleRejectedWrite, GoOffline,
         ApplyRemoteEvent
<1>2. \/ UNCHANGED <<workerQ, currentUser>>
      \/ workerQ # <<>> /\ workerQ' = Tail(workerQ) /\ Head(workerQ).kind # "listen"
  <2>1. CASE HandleCredentialChange
    BY <2>1, WorkerTakes DEF HandleCredentialChange
  <2>2. CASE WriteMutations
    BY <2>2, WorkerTakes DEF WriteMutations
  <2>3. CASE HandleSuccessfulWrite \/ HandleRejectedWrite \/ GoOffline \/ \E u \in Users : ApplyRemoteEvent(u)
    BY <2>3 DEF HandleSuccessfulWrite, HandleRejectedWrite, GoOffline, ApplyRemoteEvent
  <2> QED BY <2>1, <2>2, <2>3 DEF EmitStep
<1>3. CASE UNCHANGED <<workerQ, currentUser>>
  BY <1>1, <1>2, <1>3 DEF Pending
<1>4. CASE workerQ # <<>> /\ workerQ' = Tail(workerQ) /\ Head(workerQ).kind # "listen"
  BY <1>1, <1>2, <1>4, PendingTaken
<1> QED BY <1>2, <1>3, <1>4

LEMMA StartedStep == ASSUME TypeOK, OnTheWorker, Current, Started, [Next]_vars PROVE Started'
<1>1. CASE EmitStep
  <2>1. \A u \in Users : Listening(u)' <=> Listening(u)
    BY <1>1, EmitStepEmits, EmitsCurrent
  <2>2. started' = started /\ \A u : Pending(u)' <=> Pending(u)
    BY <1>1, EmitStepTakes DEF auth
  <2> QED BY <2>1, <2>2 DEF Started
<1>2. CASE Listen
  <2>1. /\ workerQ # <<>> /\ workerQ' = Tail(workerQ) /\ Head(workerQ).kind = "listen"
        /\ Head(workerQ).user = currentUser
        /\ \A v \in Users : v # currentUser => views'[v] = views[v]
    BY <1>2, ListenCurrent
  <2>2. Pending(currentUser)
    <3>1. 1 \in DOMAIN workerQ /\ Head(workerQ) = workerQ[1]
      BY <2>1 DEF TypeOK
    <3> QED BY <2>1, <3>1 DEF Pending
  <2>3. started' = started
    BY <1>2 DEF Listen, auth
  <2>4. ASSUME NEW u \in Users, Listening(u)' \/ Pending(u)' PROVE u \in started'
    <3>1. u # currentUser => Listening(u) \/ Pending(u)
      BY <2>1, <2>4, PendingTaken DEF Listening
    <3> QED BY <2>2, <2>3, <3>1 DEF Started
  <2> QED BY <2>4 DEF Started
<1>3. ASSUME NEW v \in Users, HandleRejectedListen(v) PROVE Started'
  <2>1. UNCHANGED <<workerQ, started>>
    BY <1>3 DEF HandleRejectedListen, auth
  <2>2. ~Listening(v)' /\ \A u \in Users : u # v => views'[u] = views[u]
    BY <1>3, RejectedListener
  <2> QED BY <2>1, <2>2 DEF Started, Listening, Pending
<1>4. CASE Auth \/ Main \/ Stored \/ UNCHANGED vars
  <2>1. views' = views /\ started \subseteq started' /\ \A u : Pending(u)' => Pending(u) \/ u \in started'
    BY <1>4, WorkersOwn, ElsewhereShown
  <2> QED BY <2>1 DEF Started, Listening
<1> QED BY <1>1, <1>2, <1>3, <1>4 DEF Next, Worker, EmitStep

\* Of other users' records the worker learns nothing as long as its user stays.
LEMMA ForeignRecords ==
    ASSUME OwnerOnly, TypeOK, OnTheWorker, OwnQueues, EmitStep, currentUser' = currentUser
    PROVE  \A v \in Users : v # currentUser => LocalRecords(v)' = LocalRecords(v)
<1>1. currentUser \in Anybody /\ pending \in [Anybody -> SUBSET Record]
  BY DEF TypeOK
<1>2. \A r \in pending[currentUser] : r.owner = currentUser
  BY <1>1 DEF OwnQueues
<1>3. CASE UNCHANGED <<cache, pending>>
  BY <1>3 DEF LocalRecords
<1>4. CASE WriteMutations
  <2>1. workerQ # <<>> /\ Head(workerQ).kind = "write"
    BY <1>4, WorkerTakes DEF WriteMutations
  <2>2. Head(workerQ).record.owner = currentUser
    BY <2>1, FirstIsOwn
  <2>3. cache' = cache /\ pending'[currentUser] = pending[currentUser] \cup {Head(workerQ).record}
    BY <1>1, <1>4 DEF WriteMutations
  <2> QED BY <2>2, <2>3 DEF LocalRecords
<1>5. CASE HandleSuccessfulWrite
  <2>1. PICK r \in pending[currentUser] :
            pending' = [pending EXCEPT ![currentUser] = @ \ {r}] /\ cache' = cache \cup {r}
    BY <1>5 DEF HandleSuccessfulWrite
  <2>2. r.owner = currentUser /\ pending'[currentUser] = pending[currentUser] \ {r}
    BY <1>1, <1>2, <2>1
  <2> QED BY <2>1, <2>2 DEF LocalRecords
<1>6. CASE HandleRejectedWrite
  <2>1. PICK r \in pending[currentUser] : pending' = [pending EXCEPT ![currentUser] = @ \ {r}]
    BY <1>6 DEF HandleRejectedWrite
  <2>2. r.owner = currentUser /\ pending'[currentUser] = pending[currentUser] \ {r} /\ cache' = cache
    BY <1>1, <1>2, <1>6, <2>1 DEF HandleRejectedWrite
  <2> QED BY <2>2 DEF LocalRecords
<1>7. ASSUME NEW u \in Users, ApplyRemoteEvent(u)
      PROVE  \A v \in Users : v # currentUser => LocalRecords(v)' = LocalRecords(v)
  <2>1. u = currentUser /\ cache' = cache \cup {r \in server : r.owner = u} /\ pending' = pending
    BY <1>7 DEF ApplyRemoteEvent, Served
  <2> QED BY <2>1 DEF LocalRecords
<1>8. HandleCredentialChange \/ GoOffline => UNCHANGED <<cache, pending>>
  BY DEF HandleCredentialChange, GoOffline, disk
<1> QED BY <1>3, <1>4, <1>5, <1>6, <1>7, <1>8 DEF EmitStep

\* The last listener is called by the user whose it is.
LEMMA CalledUser ==
    ASSUME TypeOK, OnTheWorker, userID # NoUser, ~Pending(userID) PROVE currentUser = userID
BY DEF OnTheWorker, LastListen, Pending

\* Who is called in a step of the worker, and of what.
LEMMA EmitStepShown ==
    ASSUME TypeOK, OnTheWorker, OwnQueues, Current, OnTheWorker', OwnQueues', TypeOK', EmitStep, Called'
    PROVE  /\ currentUser = userID /\ userID' = userID /\ started' = started /\ userID \in Users
           /\ OwnerOnly => \A v \in Users : v # userID => LocalRecords(v)' = LocalRecords(v)
           /\ \A r \in LocalRecords(userID)' : r.owner = userID
           /\ \E T \in SUBSET Users :
                 /\ T = {} => /\ Called /\ views'[userID].records = views[userID].records
                              /\ \A rs : WillShow(rs)' => WillShow(rs)
                 /\ \A u \in T : Listening(u) /\ (views'[u].records = views[u].records => views'[u].records = {})
                 /\ T # {} => \A rs : WillShow(rs)' => \E u \in T : rs = views'[u].records
<1>1. /\ UNCHANGED <<auth, summary>>
      /\ \A u : Pending(u)' <=> Pending(u)
  BY EmitStepTakes
<1>2. userID' = userID /\ started' = started /\ userID # NoUser /\ userID \in Users /\ Shown' = Shown
  BY <1>1 DEF auth, summary, Called, TypeOK, Anybody, Shown
<1>3. ~Pending(userID)
  <2>1. ~Pending(userID)'
    BY DEF Called
  <2>2. \A u : u = userID' => ~Pending(u)'
    BY <2>1 DEF Pending
  <2> QED BY <1>1, <1>2, <2>2
<1>4. currentUser = userID
  BY <1>2, <1>3, CalledUser
<1>5. currentUser' = userID
  <2>1. userID' # NoUser /\ ~Pending(userID)'
    BY <1>2 DEF Called
  <2> QED BY <1>2, <2>1 DEF OnTheWorker, LastListen, Pending
<1>6. OwnerOnly => \A v \in Users : v # userID => LocalRecords(v)' = LocalRecords(v)
  BY <1>4, <1>5, ForeignRecords
<1>7. \A r \in LocalRecords(userID)' : r.owner = userID
  BY <1>2 DEF LocalRecords
<1>8. /\ \A u \in Users : Listening(u)' <=> Listening(u)
      /\ \A u \in Users : Len(views'[u].raised) = Len(views[u].raised)
      /\ \E t \in Seq(MainBlock), T \in SUBSET Users : Telling(t, T)
  BY EmitStepEmits, EmitsCurrent
<1>9. PICK t \in Seq(MainBlock), T \in SUBSET Users : Telling(t, T)
  BY <1>8
<1>10. /\ mainQ' = mainQ \o t /\ (t = <<>> <=> T = {})
       /\ \A i \in DOMAIN t : t[i].kind = "snapshot" /\ \E u \in T : t[i].records = views'[u].records
       /\ \A u \in T : Listening(u) /\ (views'[u].records = views[u].records => views'[u].records = {})
  BY <1>9 DEF Telling
<1>11. \A rs : WillShow(rs)' => (t = <<>> /\ WillShow(rs)) \/ \E i \in DOMAIN t : t[i].records = rs
  BY <1>2, <1>10, ShowsTheLast
<1>12. ASSUME T # {} PROVE \A rs : WillShow(rs)' => \E u \in T : rs = views'[u].records
  <2> SUFFICES ASSUME NEW rs, WillShow(rs)' PROVE \E u \in T : rs = views'[u].records
    OBVIOUS
  <2>1. PICK i \in DOMAIN t : t[i].records = rs
    BY <1>10, <1>11, <1>12
  <2> QED BY <1>10, <2>1
<1>13. ASSUME T = {}
       PROVE  /\ Called /\ views'[userID].records = views[userID].records
              /\ \A rs : WillShow(rs)' => WillShow(rs)
  <2>1. \A rs : WillShow(rs)' => WillShow(rs)
    <3>1. t = <<>> /\ DOMAIN t = {}
      BY <1>10, <1>13
    <3> QED BY <1>11, <3>1
  <2> DEFINE last == Len(views[userID].raised)
  <2>2. Listening(userID)' /\ views'[userID].raised[last]
    BY <1>2, <1>8 DEF Called, Listening
  <2>3. Listening(userID)
    <3>1. \A u \in Users : u = userID => Listening(u)'
      BY <2>2, <1>2 DEF Listening
    <3> QED BY <1>2, <1>8, <3>1
  <2>4. last \in DOMAIN views[userID].raised
    <3>1. views[userID].raised \in Seq(BOOLEAN) /\ views[userID].raised # <<>>
      BY <1>2, <2>3 DEF TypeOK, View, Listening
    <3> QED BY <3>1
  <2>5. \A i \in DOMAIN views[userID].raised :
           /\ views'[userID].raised[i] <=> views[userID].raised[i]
           /\ views[userID].raised[i] => views'[userID].records = views[userID].records
    BY <1>2, <1>9, <1>13 DEF Telling
  <2>6. views[userID].raised[last] /\ views'[userID].records = views[userID].records
    BY <2>2, <2>4, <2>5
  <2> QED BY <1>2, <1>3, <2>1, <2>3, <2>6 DEF Called
<1> QED BY <1>2, <1>4, <1>6, <1>7, <1>10, <1>12, <1>13

\* A new listener's snapshot is the last one.
LEMMA ListenShown ==
    ASSUME TypeOK, OnTheWorker, Current, Listen, Called'
    PROVE  /\ userID' = userID /\ userID \in Users
           /\ \A rs : WillShow(rs)' => rs = LocalRecords(userID) /\ rs = views'[userID].records
<1>1. /\ workerQ # <<>> /\ workerQ' = Tail(workerQ) /\ Head(workerQ).user = currentUser
      /\ views'[currentUser].records = LocalRecords(currentUser)
      /\ \E t \in Seq(MainBlock) :
            /\ mainQ' = mainQ \o t
            /\ \A i \in DOMAIN t : t[i].kind = "snapshot" /\ t[i].records = LocalRecords(currentUser)
            /\ views'[currentUser].raised[Len(views'[currentUser].raised)] => t # <<>>
  BY ListenCurrent
<1>2. userID' = userID /\ userID # NoUser /\ userID \in Users /\ Shown' = Shown
  BY DEF Listen, auth, summary, Shown, Called, TypeOK, Anybody
<1>3. currentUser = userID
  <2>1. \A u : u = userID' => ~Pending(u)'
    BY DEF Called, Pending
  <2>2. currentUser # userID => ~Pending(userID)
    BY <1>1, <1>2, <2>1, PendingTaken
  <2> QED BY <1>2, <2>2, CalledUser
<1>4. PICK t \in Seq(MainBlock) :
          /\ mainQ' = mainQ \o t
          /\ \A i \in DOMAIN t : t[i].kind = "snapshot" /\ t[i].records = LocalRecords(currentUser)
          /\ views'[currentUser].raised[Len(views'[currentUser].raised)] => t # <<>>
  BY <1>1
<1>5. t # <<>>
  BY <1>2, <1>3, <1>4 DEF Called
<1>6. \A rs : WillShow(rs)' => \E i \in DOMAIN t : t[i].records = rs
  BY <1>2, <1>4, <1>5, ShowsTheLast
<1> QED BY <1>1, <1>2, <1>3, <1>4, <1>6

\* Nothing changes for the list in a step that calls no listener.
LEMMA QuietShown ==
    ASSUME TypeOK, [Next]_vars, ~EmitStep, ~Listen, Called'
    PROVE  /\ Called /\ UNCHANGED <<userID, started>> /\ views'[userID] = views[userID]
           /\ \A rs : WillShow(rs)' => WillShow(rs)
<1>1. CASE Auth \/ Main \/ Stored \/ UNCHANGED vars
  <2>1. userID' # NoUser /\ ~Pending(userID)'
    BY DEF Called
  <2>2. views' = views /\ UNCHANGED <<userID, started>> /\ \A rs : WillShow(rs)' => WillShow(rs)
    BY <1>1, <2>1, WorkersOwn, ElsewhereShown
  <2>3. \A u : Pending(u) => Pending(u)'
    BY <1>1, ElsewhereShown
  <2>4. ~Pending(userID)
    <3>1. \A u : u = userID' => ~Pending(u)'
      BY <2>1 DEF Pending
    <3> QED BY <2>2, <2>3, <3>1
  <2> QED BY <2>2, <2>4 DEF Called, Listening
<1>2. ASSUME NEW v \in Users, HandleRejectedListen(v)
      PROVE  /\ Called /\ UNCHANGED <<userID, started>> /\ views'[userID] = views[userID]
             /\ \A rs : WillShow(rs)' => WillShow(rs)
  <2>1. UNCHANGED <<userID, started, workerQ, mainQ>> /\ Shown' = Shown
    BY <1>2 DEF HandleRejectedListen, auth, summary, Shown
  <2>2. /\ views'[v].raised = <<>>
        /\ \A u \in Users : u # v => views'[u] = views[u]
    BY <1>2, RejectedListener
  <2>3. userID \in Users /\ views'[userID].raised # <<>>
    BY <2>1 DEF Called, Listening, TypeOK, Anybody
  <2>4. views'[userID] = views[userID]
    BY <2>2, <2>3
  <2>5. Called
    BY <2>1, <2>4 DEF Called, Listening, Pending
  <2> QED BY <2>1, <2>4, <2>5, ShowsTheSame
<1> QED BY <1>1, <1>2 DEF Next, Worker, EmitStep

LEMMA NobodyElsesStep ==
    ASSUME OwnerOnly, TypeOK, OnTheWorker, OwnQueues, Current, ShowsNobodyElses, [Next]_vars,
           TypeOK', OnTheWorker', OwnQueues', Current'
    PROVE  ShowsNobodyElses'
<1> SUFFICES ASSUME Called', NEW rs \in SUBSET Record, WillShow(rs)'
             PROVE  \A r \in rs : r.owner = userID'
  BY DEF ShowsNobodyElses
<1>1. CASE EmitStep
  <2>1. /\ userID' = userID /\ userID \in Users
        /\ \A v \in Users : v # userID => LocalRecords(v)' = LocalRecords(v)
        /\ \A r \in LocalRecords(userID)' : r.owner = userID
    BY <1>1, EmitStepShown
  <2>2. PICK T \in SUBSET Users :
            /\ T = {} => Called /\ \A s : WillShow(s)' => WillShow(s)
            /\ \A u \in T : Listening(u) /\ (views'[u].records = views[u].records => views'[u].records = {})
            /\ T # {} => \A s : WillShow(s)' => \E u \in T : s = views'[u].records
    BY <1>1, EmitStepShown
  <2>3. CASE T = {}
    BY <2>1, <2>2, <2>3 DEF ShowsNobodyElses
  <2>4. CASE T # {}
    <3>1. PICK u \in T : rs = views'[u].records
      BY <2>2, <2>4
    <3>2. Listening(u)' /\ Listening(u)
      BY <1>1, <2>2, <3>1, EmitStepEmits, EmitsCurrent
    <3>3. views'[u].records = LocalRecords(u)' /\ views[u].records = LocalRecords(u)
      BY <3>2 DEF Current
    <3>4. CASE u = userID
      <4>1. \A v : v = userID' => \A r \in LocalRecords(v)' : r.owner = userID
        BY <2>1 DEF LocalRecords
      <4> QED BY <2>1, <3>1, <3>3, <3>4, <4>1
    <3>5. CASE u # userID
      BY <2>1, <2>2, <3>1, <3>3, <3>5
    <3> QED BY <3>4, <3>5
  <2> QED BY <2>3, <2>4
<1>2. CASE Listen
  BY <1>2, ListenShown DEF LocalRecords
<1>3. CASE ~EmitStep /\ ~Listen
  BY <1>3, QuietShown DEF ShowsNobodyElses
<1> QED BY <1>1, <1>2, <1>3

LEMMA ShowsAllStep ==
    ASSUME TypeOK, OnTheWorker, OwnQueues, Current, Started, ShowsAll, [Next]_vars,
           TypeOK', OnTheWorker', OwnQueues'
    PROVE  ShowsAll'
<1> SUFFICES ASSUME Called', started' = {userID'}, NEW rs \in SUBSET Record, WillShow(rs)'
             PROVE  rs = (views[userID].records)'
  BY DEF ShowsAll
<1>1. CASE EmitStep
  <2>1. userID' = userID /\ started' = started
    BY <1>1, EmitStepShown
  <2>2. PICK T \in SUBSET Users :
            /\ T = {} => /\ Called /\ views'[userID].records = views[userID].records
                         /\ \A s : WillShow(s)' => WillShow(s)
            /\ \A u \in T : Listening(u)
            /\ T # {} => \A s : WillShow(s)' => \E u \in T : s = views'[u].records
    BY <1>1, EmitStepShown
  <2>3. \A u \in T : u = userID
    BY <2>1, <2>2 DEF Started
  <2> QED BY <2>1, <2>2, <2>3 DEF ShowsAll
<1>2. CASE Listen
  BY <1>2, ListenShown
<1>3. CASE ~EmitStep /\ ~Listen
  BY <1>3, QuietShown DEF ShowsAll
<1> QED BY <1>1, <1>2, <1>3

------------------------------------------------------------------------------
(* The theorems *)

ListInv == TypeOK /\ Heard /\ Handing /\ OwnQueues /\ Current /\ Started /\ ShowsAll

LEMMA ListInit == Init => ListInv /\ ShowsNobodyElses
<1> SUFFICES ASSUME Init PROVE ListInv /\ ShowsNobodyElses
  OBVIOUS
<1>1. ~Called
  BY DEF Init, Called
<1> QED BY <1>1, TypeInit, HeardInit, HandingInit, OwnQueuesInit, CurrentInit, StartedInit
        DEF ListInv, ShowsAll, ShowsNobodyElses

LEMMA ListStep == ListInv /\ [Next]_vars => ListInv'
<1> SUFFICES ASSUME ListInv, [Next]_vars PROVE ListInv'
  OBVIOUS
<1>1. TypeOK /\ Heard /\ Handing /\ OwnQueues /\ Current /\ Started /\ ShowsAll
  BY DEF ListInv
<1>2. TypeOK' /\ Heard' /\ Handing'
  BY <1>1, TypeStep, HeardStep, HandingStep
<1>3. OwnQueues' /\ Current' /\ Started'
  BY <1>1, OwnQueuesStep, CurrentStep, StartedStep DEF Handing
<1>4. ShowsAll'
  BY <1>1, <1>2, <1>3, ShowsAllStep DEF Handing
<1> QED BY <1>2, <1>3, <1>4 DEF ListInv

LEMMA NobodyElsesKept ==
    ASSUME OwnerOnly PROVE ListInv /\ ListInv' /\ ShowsNobodyElses /\ [Next]_vars => ShowsNobodyElses'
BY NobodyElsesStep DEF ListInv, Handing

\* Nothing is under way in a settled list: what will be shown is shown.
LEMMA SettledShows ==
    ASSUME TypeOK, Settled
    PROVE  Called /\ userID \in Users /\ recordList \in SUBSET Record /\ WillShow(recordList)
<1>1. DOMAIN workerQ = {} /\ DOMAIN mainQ = {}
  BY DEF Settled
<1>2. ~Pending(userID)
  BY <1>1 DEF Pending
<1>3. WillShow(recordList)
  BY <1>1 DEF Settled, WillShow, Shown
<1> QED BY <1>2, <1>3 DEF Settled, Called, TypeOK, Anybody

\* The records of one user never stay on the screen of the next, for any users and any order
\* of starts, stops, announcements, snapshots, losses and refusals, when the backend serves a
\* collection to its owner only.
THEOREM NobodyElsesShown == ASSUME OwnerOnly PROVE Spec => []NobodyElsesRecords
<1>1. Init => ListInv /\ ShowsNobodyElses
  BY ListInit
<1>2. ListInv /\ [Next]_vars => ListInv'
  BY ListStep
<1>3. ListInv /\ ListInv' /\ ShowsNobodyElses /\ [Next]_vars => ShowsNobodyElses'
  BY NobodyElsesKept
<1>4. ListInv /\ ShowsNobodyElses => NobodyElsesRecords
  BY SettledShows DEF ListInv, NobodyElsesRecords, ShowsNobodyElses
<1> QED BY <1>1, <1>2, <1>3, <1>4, PTL DEF Spec

\* With one user in the launch the settled list is what Firestore knows of the records,
\* whatever was started twice, told twice, refused or lost with the process.
THEOREM WholeList == Spec => []ListIsCurrent
<1>1. ListInv => ListIsCurrent
  <2> SUFFICES ASSUME ListInv, Settled, started = {userID} PROVE recordList = LocalRecords(userID)
    BY DEF ListIsCurrent
  <2>1. TypeOK /\ Current /\ ShowsAll
    BY DEF ListInv
  <2>2. Called /\ userID \in Users /\ recordList \in SUBSET Record /\ WillShow(recordList)
    BY <2>1, SettledShows
  <2>3. recordList = views[userID].records
    BY <2>1, <2>2 DEF ShowsAll
  <2> QED BY <2>1, <2>2, <2>3 DEF Current, Called
<1> QED BY <1>1, ListInit, ListStep, PTL DEF Spec
====
