---- MODULE WriteOwnerProofs ----
(***************************************************************************)
(* The user is changed on FIRAuth's queue, told on the main thread and     *)
(* used on Firestore's worker, while tokens travel through all three: that *)
(* a stream is opened with the token of the user whose queue is written,   *)
(* and that the server refuses no write but on its merits.                 *)
(***************************************************************************)
EXTENDS WritePipelineProofs

------------------------------------------------------------------------------
(* What is known of the user where *)

\* u is the user known when all blocks before the i-th have run, for a thread that knows c now
\* and learns of another user by the blocks of one kind.
UserAt(q, kind, c, i, u) ==
    \/ u = c /\ \A j \in 1 .. i - 1 : q[j].kind # kind
    \/ \E j \in 1 .. i - 1 :
          /\ q[j].kind = kind /\ q[j].user = u
          /\ \A k \in j + 1 .. i - 1 : q[k].kind # kind

\* The main thread has still to hear of, or knows, FIRAuth's user.
Announced == UserAt(mainQ, "changed", knownUser, Len(mainQ) + 1, authUser)

\* Token counters grow.
Counted ==
    /\ \A a \in remote.asks : a.counter <= tokenCounter
    /\ \A i \in DOMAIN mainQ : mainQ[i].kind = "token" => mainQ[i].ask.counter <= tokenCounter

\* A token read since the counter was last changed is the known user's, unless a change of
\* the user is on its way.
AskedFor ==
    \A a \in remote.asks :
        a.user # <<>> /\ a.counter = tokenCounter =>
            \/ a.user = <<knownUser>>
            \/ \E i \in DOMAIN mainQ : mainQ[i].kind = "changed"

\* A token that will reach the worker as it is, is the known user's.
Answered ==
    \A i \in DOMAIN mainQ :
        mainQ[i].kind = "token" /\ mainQ[i].ask.counter = tokenCounter =>
            \/ mainQ[i].ask.user = <<knownUser>>
            \/ \E j \in 1 .. i - 1 : mainQ[j].kind = "changed"

\* Tokens and writes come to the worker while it knows their user.
Handed ==
    /\ UserAt(workerQ, "credential", currentUser, Len(workerQ) + 1, knownUser)
    /\ \A i \in DOMAIN workerQ :
          workerQ[i].kind # "credential" =>
              UserAt(workerQ, "credential", currentUser, i, workerQ[i].user)

OfUser(q, u) == \A i \in DOMAIN q : q[i].user = u

\* An RPC is opened for the user c and carries nothing but his writes, and so did those that
\* were given up for theirs.
Owns(r, c) ==
    /\ r.state = "open" => r.user = c /\ OfUser(r.requests, c)
    /\ \A s \in r.strays : OfUser(s.requests, s.user)

QueuesOwned == \A u \in Anybody : OfUser(queue[u], u)

MainSide == Announced /\ Counted /\ AskedFor /\ Answered

OInv == MainSide /\ Handed /\ Owns(remote, currentUser) /\ QueuesOwned /\ RefusedOnItsMerits

------------------------------------------------------------------------------
(* Blocks come to the end of a queue and leave its front *)

LEMMA Appended ==
    ASSUME NEW S, NEW q \in Seq(S), NEW x
    PROVE  /\ Len(q) \in Nat /\ DOMAIN q = 1 .. Len(q)
           /\ DOMAIN Append(q, x) = 1 .. Len(q) + 1 /\ Len(Append(q, x)) = Len(q) + 1
           /\ \A i \in DOMAIN q : Append(q, x)[i] = q[i]
           /\ Append(q, x)[Len(q) + 1] = x
OBVIOUS

LEMMA AppendFar ==
    ASSUME NEW S, NEW q \in Seq(S), NEW x, NEW kind, NEW c, NEW i \in 1 .. Len(q) + 1, NEW u,
           UserAt(q, kind, c, i, u)
    PROVE  UserAt(Append(q, x), kind, c, i, u)
<1> DEFINE a == Append(q, x)
<1>1. \A j \in DOMAIN q : a[j] = q[j]
  BY Appended
<1>2. Len(q) \in Nat /\ DOMAIN q = 1 .. Len(q)
  OBVIOUS
<1>3. \A j \in 1 .. i - 1 : a[j] = q[j] /\ \A k \in j + 1 .. i - 1 : a[k] = q[k]
  BY <1>1, <1>2
<1> HIDE DEF a
<1> QED BY <1>3 DEF UserAt, a

LEMMA AppendAtEnd ==
    ASSUME NEW S, NEW q \in Seq(S), NEW x, NEW kind, NEW c, NEW u, UserAt(q, kind, c, Len(q) + 1, u)
    PROVE  /\ x.kind # kind => UserAt(Append(q, x), kind, c, Len(Append(q, x)) + 1, u)
           /\ x.kind = kind => UserAt(Append(q, x), kind, c, Len(Append(q, x)) + 1, x.user)
<1> DEFINE a == Append(q, x)
<1>1. /\ Len(q) \in Nat /\ Len(a) + 1 = Len(q) + 2
      /\ \A j \in 1 .. Len(q) : a[j] = q[j]
      /\ a[Len(q) + 1] = x
  BY Appended
<1> HIDE DEF a
<1>2. CASE x.kind = kind
  <2>1. /\ Len(q) + 1 \in 1 .. Len(a) + 1 - 1
        /\ \A k \in Len(q) + 1 + 1 .. Len(a) + 1 - 1 : a[k].kind # kind
    BY <1>1
  <2> QED BY <1>1, <1>2, <2>1 DEF UserAt, a
<1>3. CASE x.kind # kind
  <2>1. CASE u = c /\ \A j \in 1 .. Len(q) + 1 - 1 : q[j].kind # kind
    <3>1. \A j \in 1 .. Len(a) + 1 - 1 : a[j].kind # kind
      BY <1>1, <1>3, <2>1
    <3> QED BY <1>3, <2>1, <3>1 DEF UserAt, a
  <2>2. ASSUME NEW j \in 1 .. Len(q) + 1 - 1, q[j].kind = kind, q[j].user = u,
               \A k \in j + 1 .. Len(q) + 1 - 1 : q[k].kind # kind
        PROVE  UserAt(a, kind, c, Len(a) + 1, u)
    <3>1. j \in 1 .. Len(a) + 1 - 1 /\ a[j].kind = kind /\ a[j].user = u
      BY <1>1, <2>2
    <3>2. \A k \in j + 1 .. Len(a) + 1 - 1 : a[k].kind # kind
      BY <1>1, <1>3, <2>2
    <3> QED BY <3>1, <3>2 DEF UserAt
  <2> QED BY <1>3, <2>1, <2>2 DEF UserAt, a
<1> QED BY <1>2, <1>3 DEF a

LEMMA Shifted ==
    ASSUME NEW S, NEW q \in Seq(S), q # <<>>
    PROVE  /\ Len(q) \in Nat \ {0} /\ Len(Tail(q)) = Len(q) - 1 /\ DOMAIN q = 1 .. Len(q)
           /\ DOMAIN Tail(q) = 1 .. Len(q) - 1 /\ Head(q) = q[1] /\ Tail(q) \in Seq(S)
           /\ \A i \in DOMAIN Tail(q) : Tail(q)[i] = q[i + 1] /\ i + 1 \in DOMAIN q
OBVIOUS

\* The first block runs.
LEMMA TailFollows ==
    ASSUME NEW S, NEW q \in Seq(S), q # <<>>, NEW kind, NEW c, NEW i \in 1 .. Len(q), NEW u,
           UserAt(q, kind, c, i + 1, u)
    PROVE  /\ Head(q).kind = kind => UserAt(Tail(q), kind, Head(q).user, i, u)
           /\ Head(q).kind # kind => UserAt(Tail(q), kind, c, i, u)
<1> DEFINE t == Tail(q)
<1>1. /\ Len(q) \in Nat \ {0} /\ Head(q) = q[1]
      /\ \A j \in 1 .. Len(q) - 1 : t[j] = q[j + 1]
  BY Shifted
<1> HIDE DEF t
<1>2. \A j \in 1 .. i - 1 : t[j] = q[j + 1] /\ j + 1 \in 1 .. i + 1 - 1
  BY <1>1
<1>3. CASE u = c /\ \A j \in 1 .. i + 1 - 1 : q[j].kind # kind
  <2>1. 1 \in 1 .. i + 1 - 1
    BY <1>1
  <2> QED BY <1>1, <1>2, <1>3, <2>1 DEF UserAt, t
<1>4. ASSUME NEW j \in 1 .. i + 1 - 1, q[j].kind = kind, q[j].user = u,
             \A k \in j + 1 .. i + 1 - 1 : q[k].kind # kind
      PROVE  /\ Head(q).kind = kind => UserAt(t, kind, Head(q).user, i, u)
             /\ Head(q).kind # kind => UserAt(t, kind, c, i, u)
  <2>1. CASE j = 1
    <3>1. \A k \in 1 .. i - 1 : k + 1 \in j + 1 .. i + 1 - 1
      BY <2>1
    <3> QED BY <1>1, <1>2, <1>4, <2>1, <3>1 DEF UserAt
  <2>2. CASE j # 1
    <3>1. j - 1 \in 1 .. i - 1 /\ t[j - 1] = q[j]
      BY <1>1, <2>2
    <3>2. \A k \in j - 1 + 1 .. i - 1 : k \in 1 .. i - 1 /\ k + 1 \in j + 1 .. i + 1 - 1
      BY <2>2
    <3> QED BY <1>2, <1>4, <3>1, <3>2 DEF UserAt
  <2> QED BY <2>1, <2>2
<1> QED BY <1>3, <1>4 DEF UserAt, t

LEMMA KnownAtTheFront ==
    ASSUME NEW q, NEW kind, NEW c, NEW u, UserAt(q, kind, c, 1, u) PROVE u = c
<1>1. 1 .. 1 - 1 = {}
  OBVIOUS
<1> QED BY <1>1 DEF UserAt

\* Without a block that tells another user, the user known is the one who will be.
LEMMA NothingNew ==
    ASSUME NEW S, NEW q \in Seq(S), NEW kind, NEW c, NEW u, UserAt(q, kind, c, Len(q) + 1, u),
           \A i \in DOMAIN q : q[i].kind # kind
    PROVE  u = c
<1>1. Len(q) + 1 - 1 = Len(q) /\ DOMAIN q = 1 .. Len(q)
  OBVIOUS
<1> QED BY <1>1 DEF UserAt

------------------------------------------------------------------------------
(* What a turn of the worker does to an RPC, whosever it is *)

\* No ask is lost or made but for a token to come, with the present counter.
OnlyAsks(f, r, k) == \A a \in f.asks : a \in r.asks \/ (a.user = <<>> /\ a.counter = k)

LEMMA PartsOfUser ==
    ASSUME NEW p \in Seq(Batch), NEW b \in Seq(Batch), NEW q \in Seq(Batch), NEW u,
           Front(p \o b, q), OfUser(q, u)
    PROVE  OfUser(p, u) /\ OfUser(b, u)
<1> DEFINE w == p \o b
<1>1. /\ w \in Seq(Batch) /\ Len(w) = Len(p) + Len(b) /\ Len(p) \in Nat /\ Len(b) \in Nat
      /\ \A i \in 1 .. Len(p) : w[i] = p[i]
      /\ \A i \in 1 .. Len(b) : w[Len(p) + i] = b[i]
  OBVIOUS
<1>2. Len(w) <= Len(q) /\ w = SubSeq(q, 1, Len(w))
  BY DEF Front
<1> HIDE DEF w
<1>3. \A i \in 1 .. Len(w) : i \in DOMAIN q /\ w[i] = q[i]
  BY <1>1, <1>2
<1>4. \A i \in 1 .. Len(p) : i \in 1 .. Len(w)
  BY <1>1
<1>5. \A i \in 1 .. Len(b) : Len(p) + i \in 1 .. Len(w)
  BY <1>1
<1>6. \A i \in 1 .. Len(w) : w[i].user = u
  BY <1>3 DEF OfUser
<1>7. \A i \in 1 .. Len(p) : p[i].user = u
  BY <1>1, <1>4, <1>6
<1>8. \A i \in 1 .. Len(b) : b[i].user = u
  BY <1>1, <1>5, <1>6
<1> QED BY <1>7, <1>8 DEF OfUser

LEMMA TogetherOfUser ==
    ASSUME NEW p \in Seq(Batch), NEW b \in Seq(Batch), NEW u, OfUser(p, u), OfUser(b, u)
    PROVE  OfUser(p \o b, u)
<1> DEFINE w == p \o b
<1>1. /\ DOMAIN w = 1 .. Len(p) + Len(b) /\ Len(p) \in Nat /\ Len(b) \in Nat
      /\ \A i \in 1 .. Len(p) : w[i] = p[i]
      /\ \A i \in 1 .. Len(b) : w[Len(p) + i] = b[i]
  OBVIOUS
<1> HIDE DEF w
<1>2. \A i \in DOMAIN w : i \in 1 .. Len(p) \/ \E j \in 1 .. Len(b) : i = Len(p) + j
  <2>1. ASSUME NEW i \in DOMAIN w, i \notin 1 .. Len(p) PROVE \E j \in 1 .. Len(b) : i = Len(p) + j
    <3>1. i - Len(p) \in 1 .. Len(b) /\ i = Len(p) + (i - Len(p))
      BY <1>1, <2>1
    <3> QED BY <3>1
  <2> QED BY <2>1
<1> QED BY <1>1, <1>2 DEF OfUser, w

LEMMA FillOwns ==
    ASSUME NEW r \in Remote, NEW q \in Seq(Batch), NEW k \in Nat, NEW c, Sorted(q),
           Fits(r.pipeline, q), OfUser(q, c), Owns(r, c)
    PROVE  LET f == FillWritePipeline(r, q, k) IN Owns(f, c) /\ OnlyAsks(f, r, k)
<1> DEFINE f == FillWritePipeline(r, q, k)
           b == NextBatches(r, q)
<1>1. b \in Seq(Batch) /\ Filled(r.pipeline \o b, q)
  BY NextBatchesFill
<1>2. IsFill(f, r, b, k)
  BY <1>1, FillFields
<1> HIDE DEF f, b
<1>3. r.pipeline \in Seq(Batch) /\ r.requests \in Seq(Batch)
  BY DEF Remote
<1>4. OfUser(b, c)
  BY <1>1, <1>3, PartsOfUser DEF Filled, Fits
<1>5. f.state = "open" => r.state = "open"
  BY <1>2 DEF IsFill
<1>6. r.state = "open" => OfUser(r.requests \o b, c)
  BY <1>1, <1>3, <1>4, TogetherOfUser DEF Owns
<1>7. f.user = r.user /\ f.strays = r.strays /\ (f.requests = r.requests \/ f.requests = r.requests \o b)
  BY <1>2 DEF IsFill
<1>8. Owns(f, c)
  BY <1>5, <1>6, <1>7 DEF Owns
<1>9. OnlyAsks(f, r, k)
  BY <1>2 DEF IsFill, OnlyAsks
<1> QED BY <1>8, <1>9 DEF f

LEMMA AbandonedOwned ==
    ASSUME NEW r \in Remote, NEW c, Orderly(r), Owns(r, c)
    PROVE  \A s \in Abandoned(r) : OfUser(s.requests, s.user)
<1>1. r.requests # <<>> => r.state = "open"
  BY DEF Orderly
<1>2. ASSUME r.requests # <<>> PROVE OfUser(r.requests, r.user)
  BY <1>1, <1>2 DEF Owns
<1> QED BY <1>2 DEF Abandoned, Owns

\* A closed stream is nobody's.
Nobodys(z, r) ==
    /\ z.state # "open" /\ z.asks = r.asks
    /\ \A s \in z.strays : OfUser(s.requests, s.user)

LEMMA ClosedIsNobodys ==
    ASSUME NEW r \in Remote, NEW c, Orderly(r), Owns(r, c), NEW s \in {"initial", "error"}
    PROVE  Nobodys(Close(r, s), r)
<1>1. Close(r, s).strays = Abandoned(r)
  BY DEF Close, Remote
<1>2. Close(r, s).state # "open" /\ Close(r, s).asks = r.asks
  BY CloseFields
<1> QED BY <1>1, <1>2, AbandonedOwned DEF Nobodys

LEMMA NobodysOwns == ASSUME NEW z, NEW r, Nobodys(z, r), NEW c, NEW k PROVE Owns(z, c) /\ OnlyAsks(z, r, k)
BY DEF Nobodys, Owns, OnlyAsks

LEMMA StoppedIsNobodys ==
    ASSUME NEW r \in Remote, NEW c, Orderly(r), Owns(r, c)
    PROVE  /\ Nobodys([Stop(r) EXCEPT !.pipeline = <<>>, !.state = "initial"], r)
           /\ IsStarted(r) => Nobodys(Stop(r), r)
<1> DEFINE y == Close(r, "initial")
<1>1. y \in Remote /\ Nobodys(y, r)
  BY CloseFields, ClosedIsNobodys
<1> HIDE DEF y
<1>2. CASE IsStarted(r)
  <2>1. Stop(r) = [y EXCEPT !.handshake = FALSE]
    BY <1>2 DEF Stop, y
  <2>2. Nobodys([y EXCEPT !.handshake = FALSE], r)
    BY <1>1 DEF Nobodys, Remote
  <2>3. Nobodys([[y EXCEPT !.handshake = FALSE] EXCEPT !.pipeline = <<>>, !.state = "initial"], r)
    BY <1>1 DEF Nobodys, Remote
  <2> QED BY <2>1, <2>2, <2>3
<1>3. CASE ~IsStarted(r)
  <2>1. Stop(r) = r
    BY <1>3 DEF Stop
  <2>2. Nobodys([r EXCEPT !.pipeline = <<>>, !.state = "initial"], r)
    BY DEF Nobodys, Owns, Remote
  <2> QED BY <1>3, <2>1, <2>2
<1> QED BY <1>2, <1>3

\* For whomever the network is started again.
LEMMA RestartOwns ==
    ASSUME NEW r \in Remote, NEW c, Orderly(r), Owns(r, c),
           NEW q \in Seq(Batch), NEW k \in Nat, NEW d, Sorted(q), OfUser(q, d)
    PROVE  LET f == RestartNetwork(r, q, k) IN Owns(f, d) /\ OnlyAsks(f, r, k)
<1> DEFINE z == [Stop(r) EXCEPT !.pipeline = <<>>, !.state = "initial"]
<1>1. Nobodys(z, r) /\ z \in Remote
  BY StoppedIsNobodys, StopFields DEF Stopped
<1>2. z.pipeline = <<>>
  <2>1. Stop(r) \in Remote
    BY StopFields DEF Stopped, Stop
  <2> QED BY <2>1 DEF Remote
<1>3. RestartNetwork(r, q, k) = FillWritePipeline(z, q, k)
  BY DEF RestartNetwork
<1> HIDE DEF z
<1>4. Owns(z, d) /\ Fits(z.pipeline, q) /\ z.asks = r.asks
  BY <1>1, <1>2, NobodysOwns, FrontOfNothing DEF Nobodys
<1>5. Owns(FillWritePipeline(z, q, k), d) /\ OnlyAsks(FillWritePipeline(z, q, k), z, k)
  BY <1>1, <1>4, FillOwns
<1> QED BY <1>3, <1>4, <1>5 DEF OnlyAsks

LEMMA StartIfNeededOwns ==
    ASSUME NEW r \in Remote, NEW k, NEW c, Owns(r, c)
    PROVE  LET f == StartIfNeeded(r, k) IN Owns(f, c) /\ OnlyAsks(f, r, k)
<1>1. Owns(Start(r, k), c) /\ OnlyAsks(Start(r, k), r, k)
  BY DEF Start, Owns, OnlyAsks, Remote
<1>2. Owns(r, c) /\ OnlyAsks(r, r, k)
  BY DEF OnlyAsks
<1> QED BY <1>1, <1>2 DEF StartIfNeeded

LEMMA CloseOwns ==
    ASSUME NEW r \in Remote, NEW c, Orderly(r), Owns(r, c), NEW code,
           NEW q \in Seq(Batch), NEW k \in Nat, NEW d, Sorted(q), OfUser(q, d),
           RejectsFront(r, code) => Fits(Tail(r.pipeline), q)
    PROVE  LET f == OnWriteStreamClose(r, code, q, k) IN Owns(f, d) /\ OnlyAsks(f, r, k)
<1> DEFINE y == Close(r, "error")
           z == [y EXCEPT !.pipeline = Tail(@), !.state = "initial"]
           h == IF RejectsFront(r, code) THEN FillWritePipeline(z, q, k) ELSE y
           g == [h EXCEPT !.handshake = FALSE]
<1>1. y \in Remote /\ y.pipeline = r.pipeline /\ Nobodys(y, r)
  BY CloseFields, ClosedIsNobodys
<1>2. OnWriteStreamClose(r, code, q, k) = StartIfNeeded(g, k)
  BY DEF OnWriteStreamClose
<1> HIDE DEF y
<1>3. h \in Remote /\ Owns(h, d) /\ OnlyAsks(h, r, k)
  <2>1. CASE RejectsFront(r, code)
    <3>1. Tail(r.pipeline) \in Seq(Batch)
      BY <2>1 DEF RejectsFront, Remote
    <3>2. z \in Remote /\ z.pipeline = Tail(r.pipeline) /\ Nobodys(z, r)
      BY <1>1, <3>1 DEF Remote, Nobodys
    <3> HIDE DEF z
    <3>3. Fits(z.pipeline, q) /\ Owns(z, d) /\ z.asks = r.asks
      BY <2>1, <3>2, NobodysOwns DEF Nobodys
    <3>4. FillWritePipeline(z, q, k) \in Remote
      <4>1. NextBatches(z, q) \in Seq(Batch)
        BY <3>2, <3>3, NextBatchesFill
      <4> QED BY <3>2, <4>1, FillFields DEF IsFill
    <3>5. Owns(FillWritePipeline(z, q, k), d) /\ OnlyAsks(FillWritePipeline(z, q, k), z, k)
      BY <3>2, <3>3, FillOwns
    <3> QED BY <2>1, <3>3, <3>4, <3>5 DEF OnlyAsks
  <2>2. CASE ~RejectsFront(r, code)
    BY <1>1, <2>2, NobodysOwns
  <2> QED BY <2>1, <2>2
<1> HIDE DEF h
<1>4. g \in Remote /\ Owns(g, d) /\ g.asks = h.asks
  BY <1>3 DEF Remote, Owns
<1> HIDE DEF g
<1>5. Owns(StartIfNeeded(g, k), d) /\ OnlyAsks(StartIfNeeded(g, k), g, k)
  BY <1>4, StartIfNeededOwns
<1> QED BY <1>2, <1>3, <1>4, <1>5 DEF OnlyAsks

------------------------------------------------------------------------------
(* What a block that comes or goes does to what is known *)

\* A block is put at the end of the main queue.
LEMMA MainHears ==
    ASSUME MainSide, mainQ \in Seq(MainBlock), tokenCounter \in Nat, NEW x,
           mainQ' = Append(mainQ, x), OnlyAsks(remote', remote, tokenCounter),
           UNCHANGED <<knownUser, tokenCounter>>,
           authUser' = IF x.kind = "changed" THEN x.user ELSE authUser,
           x.kind = "token" =>
               /\ x.ask.counter <= tokenCounter
               /\ x.ask.counter = tokenCounter =>
                      x.ask.user = <<knownUser>> \/ \E i \in DOMAIN mainQ : mainQ[i].kind = "changed"
    PROVE  MainSide'
<1>1. /\ Len(mainQ) \in Nat /\ DOMAIN mainQ = 1 .. Len(mainQ)
      /\ DOMAIN (mainQ') = 1 .. Len(mainQ) + 1 /\ Len(mainQ') = Len(mainQ) + 1
      /\ \A i \in DOMAIN mainQ : mainQ'[i] = mainQ[i]
      /\ mainQ'[Len(mainQ) + 1] = x
  BY Appended
<1>2. \A i \in DOMAIN (mainQ') : i \in DOMAIN mainQ \/ i = Len(mainQ) + 1
  BY <1>1
<1>3. Announced'
  BY AppendAtEnd DEF MainSide, Announced
<1>4. Counted'
  <2>1. \A a \in remote'.asks : a.counter <= tokenCounter
    BY DEF OnlyAsks, MainSide, Counted
  <2>2. \A i \in DOMAIN (mainQ') : mainQ'[i].kind = "token" => mainQ'[i].ask.counter <= tokenCounter
    BY <1>1, <1>2 DEF MainSide, Counted
  <2> QED BY <2>1, <2>2 DEF Counted
<1>5. AskedFor'
  BY <1>1, <1>2 DEF OnlyAsks, MainSide, AskedFor
<1>6. Answered'
  <2>1. SUFFICES ASSUME NEW i \in DOMAIN (mainQ'), mainQ'[i].kind = "token",
                        mainQ'[i].ask.counter = tokenCounter, mainQ'[i].ask.user # <<knownUser>>
                 PROVE  \E j \in 1 .. i - 1 : mainQ'[j].kind = "changed"
    BY DEF Answered
  <2>2. CASE i \in DOMAIN mainQ
    <3>1. \A j \in 1 .. i - 1 : j \in DOMAIN mainQ
      BY <1>1, <2>2
    <3>2. \E j \in 1 .. i - 1 : mainQ[j].kind = "changed"
      BY <1>1, <2>1, <2>2 DEF MainSide, Answered
    <3> QED BY <1>1, <3>1, <3>2
  <2>3. CASE i = Len(mainQ) + 1
    <3>1. 1 .. i - 1 = DOMAIN mainQ
      BY <1>1, <2>3
    <3> QED BY <1>1, <2>1, <2>3, <3>1
  <2> QED BY <1>2, <2>2, <2>3
<1> QED BY <1>3, <1>4, <1>5, <1>6 DEF MainSide

\* The main queue is left alone.
LEMMA MainUntouched ==
    ASSUME MainSide, tokenCounter \in Nat, OnlyAsks(remote', remote, tokenCounter),
           UNCHANGED <<authUser, mainQ, knownUser, tokenCounter>>
    PROVE  MainSide'
<1>1. Announced'
  BY DEF MainSide, Announced
<1>2. Counted'
  BY DEF OnlyAsks, MainSide, Counted
<1>3. AskedFor'
  BY DEF OnlyAsks, MainSide, AskedFor
<1>4. Answered'
  BY DEF MainSide, Answered
<1> QED BY <1>1, <1>2, <1>3, <1>4 DEF MainSide

\* A block of the main queue has run that told nothing of a user.
LEMMA MainGoesOn ==
    ASSUME MainSide, mainQ \in Seq(MainBlock), mainQ # <<>>, tokenCounter \in Nat,
           Head(mainQ).kind # "changed", mainQ' = Tail(mainQ),
           OnlyAsks(remote', remote, tokenCounter), UNCHANGED <<authUser, knownUser, tokenCounter>>
    PROVE  MainSide'
<1>1. /\ Len(mainQ) \in Nat \ {0} /\ Len(mainQ') = Len(mainQ) - 1 /\ DOMAIN mainQ = 1 .. Len(mainQ)
      /\ DOMAIN (mainQ') = 1 .. Len(mainQ) - 1 /\ Head(mainQ) = mainQ[1]
      /\ \A i \in DOMAIN (mainQ') : mainQ'[i] = mainQ[i + 1] /\ i + 1 \in DOMAIN mainQ
  BY Shifted
<1>2. Announced'
  <2>1. Len(mainQ) \in 1 .. Len(mainQ) /\ Len(mainQ') + 1 = Len(mainQ)
    BY <1>1
  <2>2. UserAt(Tail(mainQ), "changed", knownUser, Len(mainQ), authUser)
    BY <2>1, TailFollows DEF MainSide, Announced
  <2> QED BY <2>1, <2>2 DEF Announced
<1>3. Counted'
  BY <1>1 DEF OnlyAsks, MainSide, Counted
<1>4. AskedFor'
  <2>1. ASSUME NEW i \in DOMAIN mainQ, mainQ[i].kind = "changed"
        PROVE  \E j \in DOMAIN (mainQ') : mainQ'[j].kind = "changed"
    <3>1. i # 1 /\ i - 1 \in DOMAIN (mainQ') /\ i - 1 + 1 = i
      BY <1>1, <2>1
    <3> QED BY <1>1, <2>1, <3>1
  <2> QED BY <2>1 DEF OnlyAsks, MainSide, AskedFor
<1>5. Answered'
  <2>1. SUFFICES ASSUME NEW i \in DOMAIN (mainQ'), mainQ'[i].kind = "token",
                        mainQ'[i].ask.counter = tokenCounter, mainQ'[i].ask.user # <<knownUser>>
                 PROVE  \E j \in 1 .. i - 1 : mainQ'[j].kind = "changed"
    BY DEF Answered
  <2>2. PICK j \in 1 .. i + 1 - 1 : mainQ[j].kind = "changed"
    BY <1>1, <2>1 DEF MainSide, Answered
  <2>3. j # 1 /\ j - 1 \in 1 .. i - 1 /\ j - 1 \in DOMAIN (mainQ') /\ j - 1 + 1 = j
    BY <1>1, <2>2
  <2> QED BY <1>1, <2>2, <2>3
<1> QED BY <1>2, <1>3, <1>4, <1>5 DEF MainSide

\* A block is put at the end of the worker's queue.
LEMMA WorkerHears ==
    ASSUME Handed, workerQ \in Seq(WorkerBlock), NEW x, workerQ' = Append(workerQ, x),
           currentUser' = currentUser,
           \/ x.kind = "credential" /\ knownUser' = x.user
           \/ x.kind # "credential" /\ x.user = knownUser /\ knownUser' = knownUser
    PROVE  Handed'
<1>1. /\ Len(workerQ) \in Nat /\ DOMAIN workerQ = 1 .. Len(workerQ)
      /\ DOMAIN (workerQ') = 1 .. Len(workerQ) + 1 /\ Len(workerQ') = Len(workerQ) + 1
      /\ \A i \in DOMAIN workerQ : workerQ'[i] = workerQ[i]
      /\ workerQ'[Len(workerQ) + 1] = x
  BY Appended
<1>2. UserAt(workerQ', "credential", currentUser, Len(workerQ') + 1, knownUser')
  BY AppendAtEnd DEF Handed
<1>3. ASSUME NEW i \in DOMAIN (workerQ'), workerQ'[i].kind # "credential"
      PROVE  UserAt(workerQ', "credential", currentUser, i, workerQ'[i].user)
  <2>1. i \in 1 .. Len(workerQ) + 1
    BY <1>1
  <2>2. UserAt(workerQ, "credential", currentUser, i, workerQ'[i].user)
    <3>1. CASE i \in DOMAIN workerQ
      BY <1>1, <1>3, <3>1 DEF Handed
    <3>2. CASE i = Len(workerQ) + 1
      BY <1>1, <1>3, <3>2 DEF Handed
    <3> QED BY <1>1, <3>1, <3>2
  <2> QED BY <2>1, <2>2, AppendFar
<1> QED BY <1>2, <1>3 DEF Handed

LEMMA WorkerUntouched ==
    ASSUME Handed, UNCHANGED <<workerQ, currentUser, knownUser>> PROVE Handed'
BY DEF Handed

\* A block of the worker's queue has run.
LEMMA WorkerGoesOn ==
    ASSUME Handed, workerQ \in Seq(WorkerBlock), workerQ # <<>>, workerQ' = Tail(workerQ),
           knownUser' = knownUser,
           currentUser' = IF Head(workerQ).kind = "credential" THEN Head(workerQ).user ELSE currentUser
    PROVE  Handed'
<1>1. /\ Len(workerQ) \in Nat \ {0} /\ Len(workerQ') = Len(workerQ) - 1
      /\ DOMAIN (workerQ') = 1 .. Len(workerQ) - 1
      /\ \A i \in DOMAIN (workerQ') : workerQ'[i] = workerQ[i + 1] /\ i + 1 \in DOMAIN workerQ
  BY Shifted
<1>2. UserAt(workerQ', "credential", currentUser', Len(workerQ') + 1, knownUser')
  <2>1. Len(workerQ) \in 1 .. Len(workerQ) /\ Len(workerQ') + 1 = Len(workerQ)
    BY <1>1
  <2>2. UserAt(Tail(workerQ), "credential", currentUser', Len(workerQ), knownUser)
    BY <2>1, TailFollows DEF Handed
  <2> QED BY <2>1, <2>2
<1>3. ASSUME NEW i \in DOMAIN (workerQ'), workerQ'[i].kind # "credential"
      PROVE  UserAt(workerQ', "credential", currentUser', i, workerQ'[i].user)
  <2>1. i \in 1 .. Len(workerQ)
    BY <1>1
  <2>2. UserAt(workerQ, "credential", currentUser, i + 1, workerQ'[i].user)
    BY <1>1, <1>3 DEF Handed
  <2> QED BY <2>1, <2>2, TailFollows
<1> QED BY <1>2, <1>3 DEF Handed

\* The first block is for the user the worker knows.
LEMMA FirstIsOurs ==
    ASSUME Handed, workerQ \in Seq(WorkerBlock), workerQ # <<>>, Head(workerQ).kind # "credential"
    PROVE  Head(workerQ).user = currentUser
<1>1. 1 \in DOMAIN workerQ /\ Head(workerQ) = workerQ[1]
  OBVIOUS
<1> QED BY <1>1, KnownAtTheFront DEF Handed

------------------------------------------------------------------------------
(* The steps of FIRAuth and of the main thread *)

\* What the invariant of the client says here.
LEMMA Types ==
    ASSUME IInv
    PROVE  /\ mainQ \in Seq(MainBlock) /\ workerQ \in Seq(WorkerBlock) /\ tokenCounter \in Nat
           /\ remote \in Remote /\ remote.asks \subseteq Ask /\ Orderly(remote)
           /\ currentUser \in Anybody /\ authUser \in Anybody /\ knownUser \in Anybody
BY DEF IInv, TypeOK, InOrder, Remote

LEMMA AsksAreNobodys ==
    ASSUME NEW r \in Remote, NEW s, NEW c, Owns(r, c)
    PROVE  Owns([r EXCEPT !.asks = s], c) /\ [r EXCEPT !.asks = s].asks = s
BY DEF Owns, Remote

LEMMA NoAskLost == ASSUME NEW r, NEW k PROVE OnlyAsks(r, r, k)
BY DEF OnlyAsks

LEMMA StoresUntouched ==
    ASSUME QueuesOwned, RefusedOnItsMerits, UNCHANGED <<queue, refused>>
    PROVE  QueuesOwned' /\ RefusedOnItsMerits'
BY DEF QueuesOwned, RefusedOnItsMerits

LEMMA ChangeUserOwner == ASSUME IInv, OInv, NEW u \in Anybody, ChangeUser(u) PROVE OInv'
<1> DEFINE x == [kind |-> "changed", user |-> u]
<1>1. mainQ' = Append(mainQ, x) /\ authUser' = u
      /\ UNCHANGED <<knownUser, tokenCounter, workerQ, currentUser, remote, queue, refused>>
  BY DEF ChangeUser, syncEngine, localStore, backend
<1>2. x.kind = "changed" /\ x.user = u
  OBVIOUS
<1> HIDE DEF x
<1>3. MainSide'
  <2>1. OnlyAsks(remote', remote, tokenCounter)
    BY <1>1, NoAskLost
  <2> QED BY <1>1, <1>2, <2>1, Types, MainHears DEF OInv
<1> QED BY <1>1, <1>3, WorkerUntouched, StoresUntouched DEF OInv

LEMMA RefreshTokenOwner == ASSUME IInv, OInv, RefreshToken PROVE OInv'
<1> DEFINE x == [kind |-> "changed", user |-> authUser]
<1>1. mainQ' = Append(mainQ, x)
      /\ UNCHANGED <<authUser, knownUser, tokenCounter, workerQ, currentUser, remote, queue, refused>>
  BY DEF RefreshToken, syncEngine, localStore, backend
<1>2. x.kind = "changed" /\ x.user = authUser
  OBVIOUS
<1> HIDE DEF x
<1>3. MainSide'
  <2>1. OnlyAsks(remote', remote, tokenCounter)
    BY <1>1, NoAskLost
  <2> QED BY <1>1, <1>2, <2>1, Types, MainHears DEF OInv
<1> QED BY <1>1, <1>3, WorkerUntouched, StoresUntouched DEF OInv

\* FIRAuth's user is the known one, if nothing else is on its way.
LEMMA TakeTokenOwner == ASSUME IInv, OInv, NEW ask \in remote.asks, TakeToken(ask) PROVE OInv'
<1> DEFINE taken == [ask EXCEPT !.user = <<authUser>>]
           s == (remote.asks \ {ask}) \cup {taken}
<1>1. remote' = [remote EXCEPT !.asks = s] /\ ask \in Ask
      /\ UNCHANGED <<authUser, mainQ, knownUser, tokenCounter, workerQ, currentUser, queue, refused>>
  BY Types DEF TakeToken, identity, syncEngine, localStore, backend, Remote
<1>2. taken.user = <<authUser>> /\ taken.counter = ask.counter
  BY <1>1 DEF Ask
<1>3. remote'.asks = s /\ Owns(remote', currentUser')
  BY <1>1, Types, AsksAreNobodys DEF OInv
<1>4. \A a \in remote'.asks : a \in remote.asks \/ a = taken
  BY <1>3
<1> HIDE DEF taken, s
<1>5. Counted'
  BY <1>1, <1>2, <1>4 DEF OInv, MainSide, Counted
<1>6. AskedFor'
  <2>1. (\A i \in DOMAIN mainQ : mainQ[i].kind # "changed") => authUser = knownUser
    BY Types, NothingNew DEF OInv, MainSide, Announced
  <2> QED BY <1>1, <1>2, <1>4, <2>1 DEF OInv, MainSide, AskedFor
<1>7. MainSide'
  BY <1>1, <1>5, <1>6 DEF OInv, MainSide, Announced, Answered
<1> QED BY <1>1, <1>3, <1>7, WorkerUntouched, StoresUntouched DEF OInv

LEMMA GiveTokenOwner ==
    ASSUME IInv, OInv, NEW ask \in remote.asks, NEW ok \in BOOLEAN, GiveToken(ask, ok) PROVE OInv'
<1> DEFINE x == [kind |-> "token", ask |-> ask, ok |-> ok]
           s == remote.asks \ {ask}
<1>1. ask.user # <<>> /\ remote' = [remote EXCEPT !.asks = s] /\ mainQ' = Append(mainQ, x)
      /\ UNCHANGED <<authUser, knownUser, tokenCounter, workerQ, currentUser, queue, refused>>
  BY Types DEF GiveToken, syncEngine, localStore, backend, Remote
<1>2. x.kind = "token" /\ x.ask = ask
  OBVIOUS
<1>3. remote'.asks = s /\ Owns(remote', currentUser')
  BY <1>1, Types, AsksAreNobodys DEF OInv
<1>4. OnlyAsks(remote', remote, tokenCounter)
  BY <1>3 DEF OnlyAsks
<1> HIDE DEF x, s
<1>5. /\ ask.counter <= tokenCounter
      /\ ask.counter = tokenCounter =>
             ask.user = <<knownUser>> \/ \E i \in DOMAIN mainQ : mainQ[i].kind = "changed"
  BY <1>1 DEF OInv, MainSide, Counted, AskedFor
<1>6. MainSide'
  BY <1>1, <1>2, <1>4, <1>5, Types, MainHears DEF OInv
<1> QED BY <1>1, <1>3, <1>6, WorkerUntouched, StoresUntouched DEF OInv

\* No token read before is of use any more.
LEMMA AuthStateOwner == ASSUME IInv, OInv, OnAuthStateChange PROVE OInv'
<1> DEFINE u == Head(mainQ).user
           x == [kind |-> "credential", user |-> u]
<1>1. mainQ # <<>> /\ Head(mainQ).kind = "changed" /\ mainQ' = Tail(mainQ)
      /\ knownUser' = u /\ tokenCounter' = tokenCounter + 1 /\ workerQ' = Append(workerQ, x)
      /\ UNCHANGED <<authUser, remote, currentUser, queue, refused>>
  BY DEF OnAuthStateChange, NextOnMain, syncEngine, localStore, backend
<1>2. x.kind = "credential" /\ x.user = u
  OBVIOUS
<1> HIDE DEF x, u
<1>3. /\ Len(mainQ) \in Nat \ {0} /\ Len(mainQ') = Len(mainQ) - 1
      /\ \A i \in DOMAIN (mainQ') : mainQ'[i] = mainQ[i + 1] /\ i + 1 \in DOMAIN mainQ
  BY <1>1, Types, Shifted
<1>4. Announced'
  <2>1. Len(mainQ) \in 1 .. Len(mainQ) /\ Len(mainQ') + 1 = Len(mainQ)
    BY <1>3
  <2>2. UserAt(Tail(mainQ), "changed", u, Len(mainQ), authUser)
    BY <1>1, <2>1, Types, TailFollows DEF OInv, MainSide, Announced, u
  <2> QED BY <1>1, <2>1, <2>2 DEF Announced
<1>5. /\ \A a \in Ask : a.counter \in Nat
      /\ \A i \in DOMAIN mainQ : mainQ[i].kind = "token" => mainQ[i].ask.counter \in Nat
  <2>1. \A i \in DOMAIN mainQ : mainQ[i] \in MainBlock
    BY Types
  <2>2. \A b \in MainBlock : b.kind = "token" => b.ask.counter \in Nat
    BY DEF MainBlock, GivenAsk
  <2> QED BY <2>1, <2>2 DEF Ask
<1>6. \A n \in Nat : n <= tokenCounter => n <= tokenCounter' /\ n # tokenCounter'
  BY <1>1, Types
<1>7. \A a \in remote'.asks : a.counter <= tokenCounter' /\ a.counter # tokenCounter'
  BY <1>1, <1>5, <1>6, Types DEF OInv, MainSide, Counted
<1>8. \A i \in DOMAIN (mainQ') : mainQ'[i].kind = "token" =>
          mainQ'[i].ask.counter <= tokenCounter' /\ mainQ'[i].ask.counter # tokenCounter'
  BY <1>3, <1>5, <1>6 DEF OInv, MainSide, Counted
<1>9. MainSide'
  BY <1>4, <1>7, <1>8 DEF MainSide, Counted, AskedFor, Answered
<1>10. Handed'
  BY <1>1, <1>2, Types, WorkerHears DEF OInv
<1> QED BY <1>1, <1>9, <1>10, StoresUntouched DEF OInv

LEMMA OnTokenOwner == ASSUME IInv, OInv, OnToken PROVE OInv'
<1> DEFINE ask == Head(mainQ).ask
           again == [closes |-> ask.closes, counter |-> tokenCounter, user |-> <<>>]
           x == [kind |-> "token", closes |-> ask.closes, user |-> ask.user[1], ok |-> Head(mainQ).ok]
           s == remote.asks \cup {again}
<1>1. mainQ # <<>> /\ Head(mainQ).kind = "token" /\ mainQ' = Tail(mainQ)
      /\ \/ ask.counter # tokenCounter /\ remote' = [remote EXCEPT !.asks = s] /\ workerQ' = workerQ
         \/ ask.counter = tokenCounter /\ workerQ' = Append(workerQ, x) /\ remote' = remote
      /\ UNCHANGED <<authUser, knownUser, tokenCounter, currentUser, queue, refused>>
  BY Types DEF OnToken, NextOnMain, syncEngine, localStore, backend, Remote
<1>2. x.kind = "token" /\ x.user = ask.user[1] /\ again.user = <<>> /\ again.counter = tokenCounter
  OBVIOUS
<1>3. Owns(remote', currentUser') /\ OnlyAsks(remote', remote, tokenCounter)
  <2>1. Owns([remote EXCEPT !.asks = s], currentUser) /\ [remote EXCEPT !.asks = s].asks = s
    BY Types, AsksAreNobodys DEF OInv
  <2>2. OnlyAsks([remote EXCEPT !.asks = s], remote, tokenCounter)
    BY <1>2, <2>1 DEF OnlyAsks
  <2>3. Owns(remote, currentUser) /\ OnlyAsks(remote, remote, tokenCounter)
    BY NoAskLost DEF OInv
  <2> HIDE DEF ask, again, x, s
  <2> QED BY <1>1, <2>1, <2>2, <2>3
<1> HIDE DEF x, again, s
<1>4. MainSide'
  BY <1>1, <1>3, Types, MainGoesOn DEF OInv
<1>5. Handed'
  <2>1. ASSUME ask.counter = tokenCounter PROVE ask.user[1] = knownUser
    <3>1. 1 \in DOMAIN mainQ /\ mainQ[1] = Head(mainQ) /\ 1 .. 1 - 1 = {}
      BY <1>1, Types
    <3>2. ask.user = <<knownUser>>
      BY <1>1, <2>1, <3>1 DEF OInv, MainSide, Answered
    <3> QED BY <3>2
  <2> QED BY <1>1, <1>2, <2>1, Types, WorkerHears, WorkerUntouched DEF OInv
<1> QED BY <1>1, <1>3, <1>4, <1>5, StoresUntouched DEF OInv

LEMMA OnAnswerOwner == ASSUME IInv, OInv, OnAnswer PROVE OInv'
<1>1. mainQ # <<>> /\ Head(mainQ).kind = "answer" /\ mainQ' = Tail(mainQ)
      /\ UNCHANGED <<authUser, knownUser, tokenCounter, workerQ, currentUser, remote, queue, refused>>
  BY DEF OnAnswer, NextOnMain, syncEngine, localStore, backend
<1>2. OnlyAsks(remote', remote, tokenCounter)
  BY <1>1, NoAskLost
<1>3. MainSide'
  BY <1>1, <1>2, Types, MainGoesOn DEF OInv
<1> QED BY <1>1, <1>3, WorkerUntouched, StoresUntouched DEF OInv

LEMMA WriteOwner == ASSUME IInv, OInv, NEW ok \in Verdicts, Write(ok) PROVE OInv'
<1> DEFINE x == [kind |-> "write", user |-> knownUser, doc |-> issued', ok |-> ok]
<1>1. workerQ' = Append(workerQ, x)
      /\ UNCHANGED <<authUser, mainQ, knownUser, tokenCounter, currentUser, remote, queue, refused>>
  BY DEF Write, identity, syncEngine, localStore, backend
<1>2. x.kind = "write" /\ x.user = knownUser
  OBVIOUS
<1> HIDE DEF x
<1>3. OnlyAsks(remote', remote, tokenCounter)
  BY <1>1, NoAskLost
<1>4. MainSide'
  BY <1>1, <1>3, Types, MainUntouched DEF OInv
<1>5. Handed'
  BY <1>1, <1>2, Types, WorkerHears DEF OInv
<1> QED BY <1>1, <1>4, <1>5, StoresUntouched DEF OInv

------------------------------------------------------------------------------
(* The steps of the worker *)

\* The user's queue, which the worker fills the pipeline from.
LEMMA Queue ==
    ASSUME IInv, OInv, NEW u \in Anybody
    PROVE  queue[u] \in Seq(Batch) /\ Sorted(queue[u]) /\ OfUser(queue[u], u)
BY DEF IInv, TypeOK, Queues, OInv, QueuesOwned

\* A turn of the worker that leaves the main thread and the queues alone.
LEMMA RemoteOnly ==
    ASSUME IInv, OInv, Owns(remote', currentUser), OnlyAsks(remote', remote, tokenCounter),
           UNCHANGED <<authUser, mainQ, knownUser, tokenCounter, currentUser, queue, refused>>,
           \/ workerQ' = workerQ
           \/ workerQ # <<>> /\ Head(workerQ).kind # "credential" /\ workerQ' = Tail(workerQ)
    PROVE  OInv'
<1>1. MainSide'
  BY Types, MainUntouched DEF OInv
<1>2. Handed'
  BY Types, WorkerGoesOn, WorkerUntouched DEF OInv
<1> QED BY <1>1, <1>2, StoresUntouched DEF OInv

\* The next block tells the worker the user the queue is then written of.
LEMMA CredentialOwner == ASSUME IInv, OInv, HandleCredentialChange PROVE OInv'
<1>1. /\ workerQ # <<>> /\ Head(workerQ).kind = "credential" /\ workerQ' = Tail(workerQ)
      /\ currentUser' = Head(workerQ).user
      /\ remote' = RestartNetwork(remote, queue[currentUser'], tokenCounter)
      /\ UNCHANGED <<authUser, mainQ, knownUser, tokenCounter, queue, refused>>
  BY DEF HandleCredentialChange, NextOnWorker, identity, backend
<1>2. currentUser' \in Anybody
  <2>1. Head(workerQ) \in WorkerBlock
    BY <1>1, Types
  <2> QED BY <1>1, <2>1 DEF WorkerBlock, Anybody
<1>3. Owns(remote', currentUser') /\ OnlyAsks(remote', remote, tokenCounter)
  BY <1>1, <1>2, Types, Queue, RestartOwns DEF OInv
<1>4. MainSide'
  BY <1>1, <1>3, Types, MainUntouched DEF OInv
<1>5. Handed'
  BY <1>1, Types, WorkerGoesOn DEF OInv
<1> QED BY <1>1, <1>3, <1>4, <1>5, StoresUntouched DEF OInv

\* The write is of the user the worker knows, and goes into his queue.
LEMMA HandleWriteOwner == ASSUME IInv, OInv, HandleWrite PROVE OInv'
<1> DEFINE write == Head(workerQ)
           x == [id |-> nextId, user |-> write.user, doc |-> write.doc, ok |-> write.ok]
           q == queue[currentUser]
<1>1. /\ Worker /\ workerQ # <<>> /\ write.kind = "write" /\ workerQ' = Tail(workerQ)
      /\ queue' = [queue EXCEPT ![currentUser] = Append(q, x)]
      /\ remote' = FillWritePipeline(remote, queue'[currentUser], tokenCounter)
      /\ UNCHANGED <<authUser, mainQ, knownUser, tokenCounter, currentUser, refused>>
  BY DEF HandleWrite, NextOnWorker, identity, backend
<1>2. x \in Batch /\ x.id = nextId
  <2>1. write \in WorkerBlock /\ nextId \in Nat \ {0}
    BY <1>1 DEF IInv, TypeOK
  <2>2. write.user \in Users /\ write.doc \in Doc /\ write.ok \in BOOLEAN
    BY <1>1, <2>1 DEF WorkerBlock
  <2> QED BY <2>1, <2>2 DEF Batch
<1>3. x.user = currentUser
  BY <1>1, Types, FirstIsOurs DEF OInv
<1> HIDE DEF x
<1>4. /\ currentUser \in Anybody /\ q \in Seq(Batch) /\ Sorted(q) /\ Fits(remote.pipeline, q)
      /\ \A i \in DOMAIN q : q[i].id < x.id
  BY <1>1, <1>2, Types, BeforeATurn DEF IInv, Queues
<1>5. /\ queue'[currentUser] = Append(q, x)
      /\ Append(q, x) \in Seq(Batch) /\ Sorted(Append(q, x)) /\ Fits(remote.pipeline, Append(q, x))
  BY <1>1, <1>2, <1>4, BehindTheQueue DEF IInv, TypeOK
<1>6. QueuesOwned'
  <2>1. OfUser(q, currentUser)
    BY <1>4 DEF OInv, QueuesOwned
  <2>2. \A i \in DOMAIN Append(q, x) : (i \in DOMAIN q /\ Append(q, x)[i] = q[i]) \/ Append(q, x)[i] = x
    BY <1>4, Appended
  <2>3. OfUser(Append(q, x), currentUser)
    BY <1>3, <2>1, <2>2 DEF OfUser
  <2>4. ASSUME NEW u \in Anybody PROVE OfUser(queue'[u], u)
    <3>1. CASE u = currentUser
      BY <1>5, <2>3, <3>1
    <3>2. CASE u # currentUser
      <4>1. queue'[u] = queue[u]
        BY <1>1, <3>2 DEF IInv, TypeOK
      <4> QED BY <4>1 DEF OInv, QueuesOwned
    <3> QED BY <3>1, <3>2
  <2> QED BY <2>4 DEF QueuesOwned
<1>7. Owns(remote', currentUser) /\ OnlyAsks(remote', remote, tokenCounter)
  <2>1. OfUser(Append(q, x), currentUser)
    BY <1>4, <1>5, <1>6 DEF QueuesOwned
  <2> QED BY <1>1, <1>5, <2>1, Types, FillOwns DEF OInv
<1>8. MainSide'
  BY <1>1, <1>7, Types, MainUntouched DEF OInv
<1>9. Handed'
  BY <1>1, Types, WorkerGoesOn DEF OInv
<1>10. RefusedOnItsMerits'
  BY <1>1 DEF OInv, RefusedOnItsMerits
<1> QED BY <1>1, <1>6, <1>7, <1>8, <1>9, <1>10 DEF OInv

\* The token is of the user the worker knows.
LEMMA ResumeStartOwner == ASSUME IInv, OInv, ResumeStart PROVE OInv'
<1> DEFINE token == Head(workerQ)
           q == queue[currentUser]
           opened == [remote EXCEPT !.state = "open", !.user = token.user, !.hello = "asked"]
           failed == OnWriteStreamClose(remote, "Unknown", q, tokenCounter)
<1>1. /\ Worker /\ workerQ # <<>> /\ token.kind = "token" /\ workerQ' = Tail(workerQ)
      /\ \/ remote' = remote
         \/ remote.state = "starting" /\ (remote' = opened \/ remote' = failed)
      /\ UNCHANGED <<authUser, mainQ, knownUser, tokenCounter, currentUser, queue, refused>>
  BY DEF ResumeStart, NextOnWorker, identity, syncEngine, localStore, backend
<1>2. token.user = currentUser
  BY <1>1, Types, FirstIsOurs DEF OInv
<1>3. ASSUME remote.state = "starting"
      PROVE  Owns(opened, currentUser) /\ OnlyAsks(opened, remote, tokenCounter)
  <2>1. remote.requests = <<>>
    BY <1>3, Types DEF Orderly
  <2>2. /\ opened.user = currentUser /\ opened.requests = <<>> /\ opened.asks = remote.asks
        /\ opened.strays = remote.strays
    BY <1>2, <2>1, Types DEF Remote
  <2> HIDE DEF opened
  <2>3. OfUser(<<>>, currentUser)
    BY DEF OfUser
  <2> QED BY <2>2, <2>3 DEF OInv, Owns, OnlyAsks
<1>4. Owns(failed, currentUser) /\ OnlyAsks(failed, remote, tokenCounter)
  <2>1. ~RejectsFront(remote, "Unknown")
    BY DEF RejectsFront, IsPermanentWriteError
  <2> QED BY <2>1, Types, Queue, CloseOwns DEF OInv
<1>5. Owns(remote', currentUser) /\ OnlyAsks(remote', remote, tokenCounter)
  BY <1>1, <1>3, <1>4, NoAskLost DEF OInv
<1> QED BY <1>1, <1>5, RemoteOnly

LEMMA BackoffOwner == ASSUME IInv, OInv, BackoffElapses PROVE OInv'
<1> DEFINE z == [remote EXCEPT !.state = "initial"]
<1>1. /\ remote.state = "backoff" /\ remote' = Start(z, tokenCounter)
      /\ UNCHANGED <<authUser, mainQ, knownUser, tokenCounter, workerQ, currentUser, queue, refused>>
  BY DEF BackoffElapses, identity, syncEngine, localStore, backend
<1>2. z \in Remote /\ z.state = "initial" /\ z.asks = remote.asks /\ z.strays = remote.strays
  BY Types DEF Remote
<1> HIDE DEF z
<1>3. Owns(Start(z, tokenCounter), currentUser) /\ OnlyAsks(Start(z, tokenCounter), z, tokenCounter)
  BY <1>2 DEF Start, OInv, Owns, OnlyAsks, Remote
<1>4. OnlyAsks(remote', remote, tokenCounter)
  BY <1>1, <1>2, <1>3 DEF OnlyAsks
<1> QED BY <1>1, <1>3, <1>4, RemoteOnly

LEMMA IdleTimeoutOwner == ASSUME IInv, OInv, IdleTimeout PROVE OInv'
<1>1. /\ remote' = Stop(remote) /\ remote.idle
      /\ UNCHANGED <<authUser, mainQ, knownUser, tokenCounter, workerQ, currentUser, queue, refused>>
  BY DEF IdleTimeout, identity, syncEngine, localStore, backend
<1>2. IsStarted(remote)
  BY <1>1, Types DEF Orderly, IsStarted
<1>3. Owns(remote', currentUser) /\ OnlyAsks(remote', remote, tokenCounter)
  BY <1>1, <1>2, Types, StoppedIsNobodys, NobodysOwns DEF OInv
<1> QED BY <1>1, <1>3, RemoteOnly

LEMMA NetworkChangesOwner == ASSUME IInv, OInv, NetworkChanges PROVE OInv'
<1>1. /\ remote' = RestartNetwork(remote, queue[currentUser], tokenCounter)
      /\ UNCHANGED <<authUser, mainQ, knownUser, tokenCounter, workerQ, currentUser, queue, refused>>
  BY DEF NetworkChanges, identity, syncEngine, localStore, backend
<1>2. Owns(remote', currentUser) /\ OnlyAsks(remote', remote, tokenCounter)
  BY <1>1, Types, Queue, RestartOwns DEF OInv
<1> QED BY <1>1, <1>2, RemoteOnly

\* What is sent is the front of the user's queue.
LEMMA HandshakeOwner == ASSUME IInv, OInv, OnHandshakeComplete PROVE OInv'
<1> DEFINE y == [remote EXCEPT !.hello = "none", !.handshake = TRUE]
           p == remote.pipeline
<1>1. /\ Worker /\ remote' = WriteMutations(y, p)
      /\ UNCHANGED <<authUser, mainQ, knownUser, tokenCounter, workerQ, currentUser, queue, refused>>
  BY DEF OnHandshakeComplete, identity, syncEngine, localStore, backend
<1>2. OfUser(p, currentUser)
  <2>1. p \in Seq(Batch) /\ <<>> \in Seq(Batch) /\ p \o <<>> = p
    BY Types DEF Remote
  <2>2. Front(p, queue[currentUser])
    BY <1>1, BeforeATurn DEF Fits
  <2> QED BY <2>1, <2>2, Types, Queue, PartsOfUser
<1>3. /\ y \in Remote /\ y.state = remote.state /\ y.user = remote.user /\ y.asks = remote.asks
      /\ y.strays = remote.strays /\ y.requests = remote.requests /\ y.requests \in Seq(Batch)
  BY Types DEF Remote
<1> HIDE DEF y
<1>4. /\ remote'.state = y.state /\ remote'.user = y.user /\ remote'.asks = y.asks
      /\ remote'.strays = y.strays
      /\ remote'.requests = y.requests \/ remote'.requests = y.requests \o p
  BY <1>1, <1>3 DEF WriteMutations, Remote
<1>5. remote.state = "open" => OfUser(remote'.requests, currentUser)
  <2>1. p \in Seq(Batch)
    BY Types DEF Remote
  <2> QED BY <1>2, <1>3, <1>4, <2>1, TogetherOfUser DEF OInv, Owns
<1>6. Owns(remote', currentUser) /\ OnlyAsks(remote', remote, tokenCounter)
  BY <1>3, <1>4, <1>5 DEF OInv, Owns, OnlyAsks
<1> QED BY <1>1, <1>6, RemoteOnly

\* The fields that no answer of the server changes.
SameRpc(z, r) ==
    z.state = r.state /\ z.user = r.user /\ z.requests = r.requests /\ z.strays = r.strays
        /\ z.asks = r.asks

LEMMA SameRpcOwns ==
    ASSUME NEW z, NEW r, SameRpc(z, r), NEW c, Owns(r, c), NEW k PROVE Owns(z, c) /\ OnlyAsks(z, r, k)
BY DEF SameRpc, Owns, OnlyAsks

\* An answer on the main queue tells nothing of a user.
LEMMA AnswersTellNoUser ==
    ASSUME IInv, MainSide, NEW batch, NEW answer, mainQ' = mainQ \o Answers(batch, answer),
           OnlyAsks(remote', remote, tokenCounter), UNCHANGED <<authUser, knownUser, tokenCounter>>
    PROVE  MainSide'
<1> DEFINE cs == callbacks[currentUser]
<1>1. CASE \E c \in cs : c.id = batch.id
  <2> DEFINE d == (CHOOSE c \in cs : c.id = batch.id).doc
             x == [kind |-> "answer", answer |-> answer, doc |-> d]
  <2>1. Answers(batch, answer) = <<x>>
    BY <1>1 DEF Answers
  <2>2. x.kind = "answer"
    OBVIOUS
  <2> HIDE DEF x
  <2>3. mainQ' = Append(mainQ, x)
    BY <2>1, Types, AppendIsConcat
  <2> QED BY <2>2, <2>3, Types, MainHears
<1>2. CASE ~\E c \in cs : c.id = batch.id
  <2>1. Answers(batch, answer) = <<>>
    BY <1>2 DEF Answers
  <2>2. mainQ' = mainQ
    BY <2>1, Types, ConcatEmptySeq
  <2> QED BY <2>2, Types, MainUntouched
<1> QED BY <1>1, <1>2

LEMMA ResultOwner == ASSUME IInv, OInv, OnMutationResult PROVE OInv'
<1> DEFINE z == [remote EXCEPT !.responses = Tail(@), !.pipeline = Tail(@)]
<1>1. /\ \/ remote' = remote /\ mainQ' = mainQ
         \/ remote' = z /\ mainQ' = mainQ \o Answers(Head(remote.pipeline), "ok")
      /\ UNCHANGED <<authUser, knownUser, tokenCounter, workerQ, currentUser, queue, refused>>
  BY DEF OnMutationResult, localStore, backend
<1>2. SameRpc(z, remote) /\ SameRpc(remote, remote)
  BY Types DEF SameRpc, Remote
<1> HIDE DEF z
<1>3. Owns(remote', currentUser) /\ OnlyAsks(remote', remote, tokenCounter)
  BY <1>1, <1>2, SameRpcOwns DEF OInv
<1>4. MainSide'
  BY <1>1, <1>3, Types, MainUntouched, AnswersTellNoUser DEF OInv
<1> QED BY <1>1, <1>3, <1>4, WorkerUntouched, StoresUntouched DEF OInv

\* The user's queue without its first batch is still his.
LEMMA FrontOwned ==
    ASSUME IInv, QueuesOwned, NEW q, q = queue[currentUser], q # <<>>,
           queue' = [queue EXCEPT ![currentUser] = Tail(q)]
    PROVE  /\ queue'[currentUser] = Tail(q) /\ Tail(q) \in Seq(Batch) /\ Sorted(Tail(q))
           /\ OfUser(Tail(q), currentUser) /\ QueuesOwned'
<1>1. currentUser \in Anybody /\ queue \in [Anybody -> Seq(Batch)] /\ q \in Seq(Batch) /\ Sorted(q)
  BY DEF IInv, TypeOK, Queues
<1>2. Tail(q) \in Seq(Batch) /\ Sorted(Tail(q)) /\ queue'[currentUser] = Tail(q)
  BY <1>1, SortedTail
<1>3. OfUser(Tail(q), currentUser)
  <2>1. \A i \in DOMAIN Tail(q) : Tail(q)[i] = q[i + 1] /\ i + 1 \in DOMAIN q
    BY <1>1, Shifted
  <2> QED BY <1>1, <2>1 DEF QueuesOwned, OfUser
<1>4. ASSUME NEW u \in Anybody PROVE OfUser(queue'[u], u)
  <2>1. CASE u = currentUser
    BY <1>2, <1>3, <2>1
  <2>2. CASE u # currentUser
    <3>1. queue'[u] = queue[u]
      BY <1>1, <2>2
    <3> QED BY <3>1 DEF QueuesOwned
  <2> QED BY <2>1, <2>2
<1> QED BY <1>2, <1>3, <1>4 DEF QueuesOwned

LEMMA AcknowledgeOwner == ASSUME IInv, OInv, AcknowledgeBatch PROVE OInv'
<1> DEFINE q == queue[currentUser]
<1>1. /\ acking # <<>> /\ crash' = ~InQueue(acking[1])
      /\ queue' = (IF crash' THEN queue ELSE Removed(acking[1]))
      /\ remote' = FillWritePipeline(remote, queue'[currentUser], tokenCounter)
      /\ UNCHANGED <<authUser, mainQ, knownUser, tokenCounter, workerQ, currentUser, refused>>
  BY DEF AcknowledgeBatch, identity, backend
<1> HIDE DEF q
<1>2. q # <<>> /\ Fits(remote.pipeline, Tail(q))
  BY <1>1, AckedIsFirst DEF q
<1>3. queue' = [queue EXCEPT ![currentUser] = Tail(q)]
  BY <1>1, AckedIsFirst DEF q
<1>4. /\ queue'[currentUser] = Tail(q) /\ Tail(q) \in Seq(Batch) /\ Sorted(Tail(q))
      /\ OfUser(Tail(q), currentUser) /\ QueuesOwned'
  BY <1>2, <1>3, FrontOwned DEF OInv, q
<1>5. Owns(remote', currentUser) /\ OnlyAsks(remote', remote, tokenCounter)
  BY <1>1, <1>2, <1>4, Types, FillOwns DEF OInv
<1>6. MainSide'
  BY <1>1, <1>5, Types, MainUntouched DEF OInv
<1>7. RefusedOnItsMerits'
  BY <1>1 DEF OInv, RefusedOnItsMerits
<1> QED BY <1>1, <1>4, <1>5, <1>6, <1>7, WorkerUntouched DEF OInv

LEMMA FinishOwner == ASSUME IInv, OInv, OnStreamFinish PROVE OInv'
<1> DEFINE q == queue[currentUser]
           p == remote.pipeline
           batch == Head(p)
<1>1. /\ Worker
      /\ remote' = OnWriteStreamClose(remote, remote.ended, queue'[currentUser], tokenCounter)
      /\ UNCHANGED <<authUser, knownUser, tokenCounter, workerQ, currentUser, refused>>
  BY DEF OnStreamFinish, backend
<1>2. Filled(p, q) /\ p \in Seq(Batch) /\ q \in Seq(Batch) /\ Sorted(q) /\ OfUser(q, currentUser)
  BY <1>1, BeforeATurn, Types, Queue DEF Remote
<1>3. CASE RejectsFront(remote, remote.ended)
  <2>1. /\ crash' = ~InQueue(batch) /\ queue' = (IF crash' THEN queue ELSE Removed(batch))
        /\ mainQ' = mainQ \o Answers(batch, "failed")
    BY <1>3 DEF OnStreamFinish
  <2>2. p # <<>>
    BY <1>3 DEF RejectsFront
  <2> HIDE DEF batch, p, q
  <2>3. q # <<>> /\ batch = q[1] /\ Fits(Tail(p), Tail(q))
    BY <1>2, <2>2, TailFits DEF batch
  <2>4. queue' = [queue EXCEPT ![currentUser] = Tail(q)]
    BY <1>2, <2>1, <2>3, RemovedFirst DEF q
  <2>5. /\ queue'[currentUser] = Tail(q) /\ Tail(q) \in Seq(Batch) /\ Sorted(Tail(q))
        /\ OfUser(Tail(q), currentUser) /\ QueuesOwned'
    BY <2>3, <2>4, FrontOwned DEF OInv, q
  <2>6. Owns(remote', currentUser) /\ OnlyAsks(remote', remote, tokenCounter)
    BY <1>1, <2>3, <2>5, Types, CloseOwns DEF OInv, p
  <2>7. MainSide'
    BY <1>1, <2>1, <2>6, AnswersTellNoUser DEF OInv
  <2>8. RefusedOnItsMerits'
    BY <1>1 DEF OInv, RefusedOnItsMerits
  <2> QED BY <1>1, <2>5, <2>6, <2>7, <2>8, WorkerUntouched DEF OInv
<1>4. CASE ~RejectsFront(remote, remote.ended)
  <2>1. UNCHANGED <<queue, mainQ>>
    BY <1>4 DEF OnStreamFinish
  <2> HIDE DEF batch, p, q
  <2>2. remote' = OnWriteStreamClose(remote, remote.ended, q, tokenCounter)
    BY <1>1, <2>1 DEF q
  <2>3. Owns(remote', currentUser) /\ OnlyAsks(remote', remote, tokenCounter)
    BY <1>2, <1>4, <2>2, Types, CloseOwns DEF OInv
  <2> QED BY <1>1, <2>1, <2>3, RemoteOnly
<1> QED BY <1>3, <1>4

------------------------------------------------------------------------------
(* The steps of the server and of the network *)

\* All that is sent on an RPC is of the user whose token opened it.
LEMMA OnlyOnMerits ==
    ASSUME NEW requests \in Seq(Batch), requests # <<>>, NEW u, OfUser(requests, u)
    PROVE  /\ ~Accepts(u, Head(requests)) => ~Head(requests).ok
           /\ Tail(requests) \in Seq(Batch) /\ OfUser(Tail(requests), u)
<1>1. /\ 1 \in DOMAIN requests /\ Head(requests) = requests[1] /\ Tail(requests) \in Seq(Batch)
      /\ \A i \in DOMAIN Tail(requests) : Tail(requests)[i] = requests[i + 1] /\ i + 1 \in DOMAIN requests
  BY Shifted
<1> QED BY <1>1 DEF OfUser, Accepts

LEMMA ServerGreetsOwner == ASSUME IInv, OInv, ServerGreets PROVE OInv'
<1>1. /\ remote' = [remote EXCEPT !.hello = "answered"]
      /\ UNCHANGED <<authUser, mainQ, knownUser, tokenCounter, workerQ, currentUser, queue, refused>>
  BY DEF ServerGreets, identity, syncEngine, localStore, backend
<1>2. SameRpc(remote', remote)
  BY <1>1, Types DEF SameRpc, Remote
<1> QED BY <1>1, <1>2, SameRpcOwns, RemoteOnly DEF OInv

LEMMA RpcBreaksOwner == ASSUME IInv, OInv, NEW code \in FaultCodes, RpcBreaks(code) PROVE OInv'
<1>1. /\ \E n \in 0 .. Len(remote.responses) :
            remote' = [remote EXCEPT !.ended = code, !.responses = SubSeq(@, 1, n)]
      /\ UNCHANGED <<authUser, mainQ, knownUser, tokenCounter, workerQ, currentUser, queue, refused>>
  BY DEF RpcBreaks, identity, syncEngine, localStore, backend
<1>2. SameRpc(remote', remote)
  BY <1>1, Types DEF SameRpc, Remote
<1> QED BY <1>1, <1>2, SameRpcOwns, RemoteOnly DEF OInv

\* A write of the server's that leaves the client alone.
LEMMA ServerSteps ==
    ASSUME IInv, OInv, Owns(remote', currentUser), remote'.asks = remote.asks,
           \/ refused' = refused
           \/ \E b : refused' = refused \cup {b} /\ ~b.ok,
           UNCHANGED <<authUser, mainQ, knownUser, tokenCounter, workerQ, currentUser, queue>>
    PROVE  OInv'
<1>1. OnlyAsks(remote', remote, tokenCounter)
  BY DEF OnlyAsks
<1>2. MainSide'
  BY <1>1, Types, MainUntouched DEF OInv
<1>3. RefusedOnItsMerits'
  BY DEF OInv, RefusedOnItsMerits
<1>4. QueuesOwned'
  BY DEF OInv, QueuesOwned
<1> QED BY <1>2, <1>3, <1>4, WorkerUntouched DEF OInv

LEMMA ServerHandlesOwner == ASSUME IInv, OInv, ServerHandles PROVE OInv'
<1> DEFINE batch == Head(remote.requests)
           rest == Tail(remote.requests)
<1>1. /\ remote.requests # <<>>
      /\ \/ /\ remote' = [remote EXCEPT !.requests = rest, !.responses = Append(@, batch)]
            /\ refused' = refused
         \/ /\ remote' = [remote EXCEPT !.requests = rest, !.ended = "PermissionDenied"]
            /\ refused' = refused \cup {batch} /\ ~Accepts(remote.user, batch)
      /\ UNCHANGED <<authUser, mainQ, knownUser, tokenCounter, workerQ, currentUser, queue>>
  BY Types DEF ServerHandles, identity, syncEngine, localStore, Remote
<1>2. remote.state = "open" /\ remote.user = currentUser
  BY <1>1, Types DEF Orderly, OInv, Owns
<1>3. /\ ~Accepts(remote.user, batch) => ~batch.ok
      /\ OfUser(rest, currentUser)
  <2>1. remote.requests \in Seq(Batch)
    BY Types DEF Remote
  <2> QED BY <1>1, <1>2, <2>1, OnlyOnMerits DEF OInv, Owns
<1> HIDE DEF batch, rest
<1>4. /\ remote'.state = remote.state /\ remote'.user = remote.user /\ remote'.requests = rest
      /\ remote'.strays = remote.strays /\ remote'.asks = remote.asks
  BY <1>1, Types DEF Remote
<1>5. Owns(remote', currentUser)
  BY <1>2, <1>3, <1>4 DEF OInv, Owns
<1> QED BY <1>1, <1>3, <1>4, <1>5, ServerSteps

LEMMA StrayArrivesOwner == ASSUME IInv, OInv, NEW stray \in remote.strays, StrayArrives(stray) PROVE OInv'
<1> DEFINE batch == Head(stray.requests)
           rest == Tail(stray.requests)
           next == [stray EXCEPT !.requests = rest]
           t == remote.strays \ {stray}
           s == t \cup (IF rest = <<>> THEN {} ELSE {next})
<1>1. /\ \/ refused' = refused /\ remote' = [remote EXCEPT !.strays = s]
         \/ refused' = refused \cup {batch} /\ ~Accepts(stray.user, batch)
            /\ remote' = [remote EXCEPT !.strays = t]
      /\ UNCHANGED <<authUser, mainQ, knownUser, tokenCounter, workerQ, currentUser, queue>>
  BY Types DEF StrayArrives, identity, syncEngine, localStore, Remote
<1>2. stray \in Stray /\ OfUser(stray.requests, stray.user)
  BY Types DEF Remote, OInv, Owns
<1>3. /\ ~Accepts(stray.user, batch) => ~batch.ok
      /\ OfUser(rest, stray.user)
  <2>1. stray.requests \in Seq(Batch) /\ stray.requests # <<>>
    BY <1>2 DEF Stray
  <2> QED BY <1>2, <2>1, OnlyOnMerits
<1>4. next.user = stray.user /\ next.requests = rest
  BY <1>2 DEF Stray
<1> HIDE DEF batch, rest, next
<1>5. \A x \in s : OfUser(x.requests, x.user)
  BY <1>3, <1>4 DEF OInv, Owns
<1>6. \A x \in t : OfUser(x.requests, x.user)
  BY DEF OInv, Owns
<1> HIDE DEF s, t
<1>7. /\ remote'.state = remote.state /\ remote'.user = remote.user
      /\ remote'.requests = remote.requests /\ remote'.asks = remote.asks
      /\ remote'.strays = s \/ remote'.strays = t
  BY <1>1, Types DEF Remote
<1>8. Owns(remote', currentUser)
  BY <1>5, <1>6, <1>7 DEF OInv, Owns
<1> QED BY <1>1, <1>3, <1>7, <1>8, ServerSteps

------------------------------------------------------------------------------
(* Starting, for the first time and again *)

\* Right after the start nobody asks for anything, and what the main thread has still to
\* hear is who is signed in.
LEMMA AtTheStart ==
    ASSUME NEW k, NEW a, NEW m,
           \/ k = a /\ m = <<>>
           \/ m = <<[kind |-> "changed", user |-> a]>>
    PROVE  /\ UserAt(m, "changed", k, Len(m) + 1, a)
           /\ \A i \in DOMAIN m : m[i].kind # "token"
           /\ UserAt(<<>>, "credential", k, Len(<<>>) + 1, k) /\ DOMAIN <<>> = {}
<1>1. Len(<<>>) = 0 /\ DOMAIN <<>> = {} /\ 1 .. 0 + 1 - 1 = {}
  OBVIOUS
<1>2. UserAt(<<>>, "credential", k, Len(<<>>) + 1, k)
  BY <1>1 DEF UserAt
<1>3. CASE k = a /\ m = <<>>
  <2>1. UserAt(m, "changed", k, Len(m) + 1, a)
    BY <1>1, <1>3 DEF UserAt
  <2> QED BY <1>1, <1>2, <1>3, <2>1
<1>4. CASE m = <<[kind |-> "changed", user |-> a]>>
  <2>1. Len(m) = 1 /\ DOMAIN m = {1} /\ m[1].kind = "changed" /\ m[1].user = a
    BY <1>4
  <2>2. 1 \in 1 .. 1 + 1 - 1 /\ 1 + 1 .. 1 + 1 - 1 = {}
    OBVIOUS
  <2>3. UserAt(m, "changed", k, Len(m) + 1, a)
    BY <2>1, <2>2 DEF UserAt
  <2> QED BY <1>1, <1>2, <2>1, <2>3
<1> QED BY <1>3, <1>4

LEMMA InitOwned == Init => OInv
<1> SUFFICES ASSUME Init PROVE OInv
  OBVIOUS
<1>1. /\ \/ knownUser = authUser /\ mainQ = <<>>
         \/ mainQ = <<[kind |-> "changed", user |-> authUser]>>
      /\ workerQ = <<>> /\ currentUser = knownUser /\ remote = Fresh /\ refused = {}
      /\ queue = [u \in Anybody |-> <<>>]
  BY DEF Init
<1>2. Fresh.asks = {} /\ Fresh.state = "initial" /\ Fresh.strays = {}
  BY DEF Fresh
<1>3. MainSide
  BY <1>1, <1>2, AtTheStart DEF MainSide, Announced, Counted, AskedFor, Answered
<1>4. Handed
  BY <1>1, AtTheStart DEF Handed
<1>5. Owns(remote, currentUser)
  BY <1>1, <1>2 DEF Owns
<1>6. QueuesOwned /\ RefusedOnItsMerits
  <2>1. DOMAIN <<>> = {}
    OBVIOUS
  <2> QED BY <1>1, <2>1 DEF QueuesOwned, OfUser, RefusedOnItsMerits
<1> QED BY <1>3, <1>4, <1>5, <1>6 DEF OInv

LEMMA RelaunchOwner == ASSUME IInv, OInv, Relaunch PROVE OInv'
<1> DEFINE y == [Fresh EXCEPT !.strays = Abandoned(remote)]
           q == queue[knownUser']
<1>1. /\ authUser' = authUser /\ tokenCounter' = 0 /\ workerQ' = <<>> /\ currentUser' = knownUser'
      /\ remote' = FillWritePipeline(y, q, 0)
      /\ UNCHANGED <<queue, refused>>
  BY DEF Relaunch, Launch, backend
<1>2. \/ knownUser' = authUser /\ mainQ' = <<>>
      \/ knownUser' = NoUser /\ mainQ' = <<[kind |-> "changed", user |-> authUser]>>
  BY <1>1 DEF Relaunch, Launch
<1>3. knownUser' \in Anybody
  BY <1>2, Types DEF Anybody
<1>4. q \in Seq(Batch) /\ Sorted(q) /\ OfUser(q, knownUser')
  BY <1>3, Queue
<1>5. y \in Remote /\ y.pipeline = <<>> /\ y.asks = {} /\ Owns(y, knownUser')
  <2>1. /\ y.pipeline = <<>> /\ y.asks = {} /\ y.state = "initial" /\ y.strays = Abandoned(remote)
    BY DEF Fresh
  <2>2. y \in Remote
    <3>1. Abandoned(remote) \in SUBSET Stray /\ Fresh \in Remote
      BY Types, AbandonedStrays, FreshIsOrderly
    <3> QED BY <3>1, StraysOnly
  <2>3. \A s \in Abandoned(remote) : OfUser(s.requests, s.user)
    BY Types, AbandonedOwned DEF OInv
  <2> HIDE DEF y
  <2> QED BY <2>1, <2>2, <2>3 DEF Owns
<1> HIDE DEF y, q
<1>6. Owns(remote', currentUser') /\ OnlyAsks(remote', y, 0)
  <2>1. Fits(y.pipeline, q)
    BY <1>4, <1>5, FrontOfNothing
  <2> QED BY <1>1, <1>4, <1>5, <2>1, FillOwns
<1>7. \A a \in remote'.asks : a.user = <<>> /\ a.counter = 0
  BY <1>5, <1>6 DEF OnlyAsks
<1>8. MainSide'
  <2>1. Announced' /\ \A i \in DOMAIN (mainQ') : mainQ'[i].kind # "token"
    BY <1>1, <1>2, AtTheStart DEF Announced
  <2>2. 0 <= 0
    OBVIOUS
  <2> QED BY <1>1, <1>7, <2>1, <2>2 DEF MainSide, Counted, AskedFor, Answered
<1>9. Handed'
  BY <1>1, AtTheStart DEF Handed
<1>10. QueuesOwned' /\ RefusedOnItsMerits'
  BY <1>1, StoresUntouched DEF OInv
<1> QED BY <1>6, <1>8, <1>9, <1>10 DEF OInv

------------------------------------------------------------------------------
(* The theorems *)

LEMMA StutterOwner == ASSUME OInv, UNCHANGED vars PROVE OInv'
<1>1. UNCHANGED <<authUser, mainQ, knownUser, tokenCounter, workerQ, currentUser, queue, remote, refused>>
  BY DEF vars, identity, syncEngine, localStore, backend
<1> QED BY <1>1 DEF OInv, MainSide, Announced, Counted, AskedFor, Answered, Handed, QueuesOwned,
                    RefusedOnItsMerits

LEMMA OInvIsInductive == IInv /\ OInv /\ [Next]_vars => OInv'
<1> SUFFICES ASSUME IInv, OInv, [Next]_vars PROVE OInv'
  OBVIOUS
<1>1. CASE Relaunch
  BY <1>1, RelaunchOwner
<1>2. CASE Auth
  <2>1. ASSUME NEW u \in Anybody, ChangeUser(u) PROVE OInv'
    BY <2>1, ChangeUserOwner
  <2>2. CASE RefreshToken
    BY <2>2, RefreshTokenOwner
  <2>3. ASSUME NEW ask \in remote.asks, TakeToken(ask) PROVE OInv'
    BY <2>3, TakeTokenOwner
  <2>4. ASSUME NEW ask \in remote.asks, NEW ok \in BOOLEAN, GiveToken(ask, ok) PROVE OInv'
    BY <2>4, GiveTokenOwner
  <2> QED BY <1>2, <2>1, <2>2, <2>3, <2>4 DEF Auth
<1>3. CASE Main
  <2>1. ASSUME NEW ok \in Verdicts, Write(ok) PROVE OInv'
    BY <2>1, WriteOwner
  <2> QED BY <1>3, <2>1, AuthStateOwner, OnTokenOwner, OnAnswerOwner DEF Main
<1>4. CASE WorkerStep
  BY <1>4, CredentialOwner, HandleWriteOwner, ResumeStartOwner, BackoffOwner, IdleTimeoutOwner,
     NetworkChangesOwner, HandshakeOwner, ResultOwner, AcknowledgeOwner, FinishOwner DEF WorkerStep
<1>5. CASE Server
  <2>1. ASSUME NEW code \in FaultCodes, RpcBreaks(code) PROVE OInv'
    BY <2>1, RpcBreaksOwner
  <2>2. ASSUME NEW stray \in remote.strays, StrayArrives(stray) PROVE OInv'
    BY <2>2, StrayArrivesOwner
  <2> QED BY <1>5, <2>1, <2>2, ServerGreetsOwner, ServerHandlesOwner DEF Server
<1>6. CASE UNCHANGED vars
  BY <1>6, StutterOwner
<1> QED BY <1>1, <1>2, <1>3, <1>4, <1>5, <1>6 DEF Next

\* In every state of every behaviour, whatever the three threads know of the user.
THEOREM AlwaysOwned == Spec => [](IInv /\ OInv)
<1>1. Init => IInv /\ OInv
  BY InitIsInOrder, InitOwned
<1>2. IInv /\ OInv /\ [Next]_vars => (IInv /\ OInv)'
  BY IInvIsInductive, OInvIsInductive
<1> QED BY <1>1, <1>2, PTL DEF Spec

\* An open stream was opened with the token of the user whose queue is written: ResumeStart
\* on the worker, with a token OnToken let through on the main thread and FIRAuth read on its
\* own queue, after any changes of the user.
THEOREM OwnersStream == Spec => []OpenedForItsOwner
<1>1. OInv => OpenedForItsOwner
  BY DEF OInv, Owns, OpenedForItsOwner
<1> QED BY <1>1, AlwaysOwned, PTL

\* ServerHandles and StrayArrives refuse no write that the server accepts of its own user:
\* none is ever sent with the token of somebody else.
THEOREM MeritsDecide == Spec => []RefusedOnItsMerits
<1>1. OInv => RefusedOnItsMerits
  BY DEF OInv
<1> QED BY <1>1, AlwaysOwned, PTL

------------------------------------------------------------------------------
(* Who waits for which write.  The map of callbacks and the mutation queue *)
(* name a write by a number each, given together and taken away in         *)
(* different turns: the caller who waits for a number waits for the write  *)
(* that has it now.                                                        *)

\* The batch that c waits for is in the queue.
Waits(c, q) == \E i \in DOMAIN q : q[i].id = c.id /\ q[i].doc = c.doc

\* A batch whose caller was told is waited for by nobody, though it is still in the queue.
CInv ==
    /\ \A u \in Anybody : \A c \in callbacks[u] : Waits(c, queue[u])
    /\ acking # <<>> => \A c \in callbacks[currentUser] : c.id # acking[1].id

LEMMA WaitsForTheLast ==
    ASSUME NEW q \in Seq(Batch), NEW x, NEW c
    PROVE  /\ Waits(c, q) => Waits(c, Append(q, x))
           /\ c.id = x.id /\ c.doc = x.doc => Waits(c, Append(q, x))
<1> DEFINE a == Append(q, x)
<1>1. /\ \A i \in DOMAIN q : i \in DOMAIN a /\ a[i] = q[i]
      /\ Len(q) + 1 \in DOMAIN a /\ a[Len(q) + 1] = x
  BY AppendProperties
<1> HIDE DEF a
<1> QED BY <1>1 DEF Waits, a

LEMMA WaitsForAnother ==
    ASSUME NEW q \in Seq(Batch), q # <<>>, NEW c, c.id # q[1].id, Waits(c, q)
    PROVE  Waits(c, Tail(q))
<1>1. PICK i \in DOMAIN q : q[i].id = c.id /\ q[i].doc = c.doc
  BY DEF Waits
<1>2. i # 1
  BY <1>1
<1>3. i - 1 \in DOMAIN Tail(q) /\ Tail(q)[i - 1] = q[i]
  BY <1>2
<1> QED BY <1>1, <1>3 DEF Waits

\* Steps that neither tell a caller nor touch the queues.
LEMMA CallbacksUntouched ==
    ASSUME CInv, UNCHANGED <<callbacks, queue, acking, currentUser>> PROVE CInv'
BY DEF CInv

LEMMA CallbackTypes ==
    ASSUME IInv
    PROVE  /\ callbacks \in [Anybody -> SUBSET [id : Nat \ {0}, doc : Doc]]
           /\ queue \in [Anybody -> Seq(Batch)] /\ currentUser \in Anybody
           /\ remote.pipeline \in Seq(Batch)
BY DEF IInv, TypeOK, Remote

\* The number is new, so that the caller is entered for it.
LEMMA HandleWriteCallback == ASSUME IInv, CInv, HandleWrite PROVE CInv'
<1> DEFINE write == Head(workerQ)
           x == [id |-> nextId, user |-> write.user, doc |-> write.doc, ok |-> write.ok]
           entry == [id |-> x.id, doc |-> x.doc]
           q == queue[currentUser]
<1>1. /\ Worker
      /\ queue' = [queue EXCEPT ![currentUser] = Append(q, x)]
      /\ callbacks' = [callbacks EXCEPT ![currentUser] = Registered(@, x)]
      /\ UNCHANGED <<currentUser, acking>>
  BY DEF HandleWrite, NextOnWorker
<1>2. entry.id = x.id /\ entry.doc = x.doc
  OBVIOUS
<1>3. \A c \in Registered(callbacks[currentUser], x) : c \in callbacks[currentUser] \/ c = entry
  BY DEF Registered
<1> HIDE DEF x, entry
<1>4. ASSUME NEW u \in Anybody, NEW c \in callbacks'[u] PROVE Waits(c, queue'[u])
  <2>1. CASE u = currentUser
    <3>1. queue'[u] = Append(q, x) /\ q \in Seq(Batch) /\ (c \in callbacks[u] \/ c = entry)
      BY <1>1, <1>3, <1>4, <2>1, CallbackTypes
    <3>2. c \in callbacks[u] => Waits(c, q)
      BY <2>1 DEF CInv
    <3> QED BY <1>2, <3>1, <3>2, WaitsForTheLast
  <2>2. CASE u # currentUser
    <3>1. queue'[u] = queue[u] /\ callbacks'[u] = callbacks[u]
      BY <1>1, <2>2, CallbackTypes
    <3> QED BY <1>4, <3>1 DEF CInv
  <2> QED BY <2>1, <2>2
<1>5. acking' = <<>>
  BY <1>1 DEF Worker
<1> QED BY <1>4, <1>5 DEF CInv

LEMMA UnregisteredOthers ==
    ASSUME IInv, NEW batch
    PROVE  /\ \A u \in Anybody : Unregistered(batch)[u] \subseteq callbacks[u]
           /\ \A c \in Unregistered(batch)[currentUser] : c.id # batch.id
BY CallbackTypes DEF Unregistered

\* The caller is told a turn before the batch goes.
LEMMA ResultCallback == ASSUME IInv, CInv, OnMutationResult PROVE CInv'
<1> DEFINE batch == Head(remote.pipeline)
<1>1. UNCHANGED <<currentUser, queue>>
  BY DEF OnMutationResult, localStore
<1>2. CASE remote.pipeline = <<>>
  BY <1>1, <1>2, CallbacksUntouched DEF OnMutationResult
<1>3. CASE remote.pipeline # <<>>
  <2>1. callbacks' = Unregistered(batch) /\ acking' = <<batch>>
    BY <1>3 DEF OnMutationResult
  <2> HIDE DEF batch
  <2>2. acking'[1] = batch
    BY <2>1
  <2>3. \A c \in callbacks'[currentUser'] : c.id # batch.id
    BY <1>1, <2>1, UnregisteredOthers
  <2>4. \A u \in Anybody : \A c \in callbacks'[u] : Waits(c, queue'[u])
    BY <1>1, <2>1, UnregisteredOthers DEF CInv
  <2> QED BY <2>2, <2>3, <2>4 DEF CInv
<1> QED BY <1>2, <1>3

\* The first batch goes, and nobody waits for it.
LEMMA FirstGoes ==
    ASSUME IInv, CInv, NEW q, q = queue[currentUser], q \in Seq(Batch), q # <<>>,
           queue' = [queue EXCEPT ![currentUser] = Tail(q)],
           currentUser' = currentUser, acking' = <<>>,
           \A u \in Anybody : callbacks'[u] \subseteq callbacks[u],
           \A c \in callbacks'[currentUser] : c.id # q[1].id
    PROVE  CInv'
<1>1. ASSUME NEW u \in Anybody, NEW c \in callbacks'[u] PROVE Waits(c, queue'[u])
  <2>1. Waits(c, queue[u])
    BY <1>1 DEF CInv
  <2>2. CASE u = currentUser
    <3>1. queue'[u] = Tail(q)
      BY <2>2, CallbackTypes
    <3> QED BY <1>1, <2>1, <2>2, <3>1, WaitsForAnother
  <2>3. CASE u # currentUser
    <3>1. queue'[u] = queue[u]
      BY <2>3, CallbackTypes
    <3> QED BY <2>1, <3>1
  <2> QED BY <2>2, <2>3
<1> QED BY <1>1 DEF CInv

LEMMA AcknowledgeCallback == ASSUME IInv, CInv, AcknowledgeBatch PROVE CInv'
<1> DEFINE q == queue[currentUser]
<1>1. /\ acking # <<>> /\ acking' = <<>> /\ crash' = ~InQueue(acking[1])
      /\ queue' = (IF crash' THEN queue ELSE Removed(acking[1]))
      /\ UNCHANGED <<currentUser, callbacks>>
  BY DEF AcknowledgeBatch
<1>2. q \in Seq(Batch) /\ q # <<>> /\ acking[1] = q[1]
  BY <1>1, AckedIsFirst
<1>3. queue' = [queue EXCEPT ![currentUser] = Tail(q)]
  BY <1>1, AckedIsFirst
<1>4. \A c \in callbacks'[currentUser] : c.id # q[1].id
  BY <1>1, <1>2 DEF CInv
<1> HIDE DEF q
<1> QED BY <1>1, <1>2, <1>3, <1>4, FirstGoes DEF q

LEMMA FinishCallback == ASSUME IInv, CInv, OnStreamFinish PROVE CInv'
<1> DEFINE q == queue[currentUser]
           p == remote.pipeline
           batch == Head(p)
<1>1. Worker /\ UNCHANGED <<currentUser, acking>>
  BY DEF OnStreamFinish
<1>2. CASE RejectsFront(remote, remote.ended)
  <2>1. /\ crash' = ~InQueue(batch) /\ queue' = (IF crash' THEN queue ELSE Removed(batch))
        /\ callbacks' = Unregistered(batch)
    BY <1>2 DEF OnStreamFinish
  <2>2. p # <<>> /\ p \in Seq(Batch) /\ q \in Seq(Batch) /\ Filled(p, q) /\ Sorted(q)
    BY <1>1, <1>2, BeforeATurn, CallbackTypes DEF RejectsFront
  <2>3. (\A u \in Anybody : callbacks'[u] \subseteq callbacks[u])
        /\ \A c \in callbacks'[currentUser] : c.id # batch.id
    BY <2>1, UnregisteredOthers
  <2> HIDE DEF batch, p, q
  <2>4. q # <<>> /\ batch = q[1]
    BY <2>2, TailFits DEF batch
  <2>5. queue' = [queue EXCEPT ![currentUser] = Tail(q)]
    BY <2>1, <2>2, <2>4, RemovedFirst DEF q
  <2> QED BY <1>1, <2>2, <2>3, <2>4, <2>5, FirstGoes DEF Worker, q
<1>3. CASE ~RejectsFront(remote, remote.ended)
  BY <1>1, <1>3, CallbacksUntouched DEF OnStreamFinish
<1> QED BY <1>2, <1>3

\* Callers do not survive the process.
LEMMA RelaunchCallback == ASSUME Relaunch PROVE CInv'
BY DEF Relaunch, Launch, CInv

\* Another user's callbacks are not touched, nor is there a batch that is acknowledged.
LEMMA CredentialCallback == ASSUME CInv, HandleCredentialChange PROVE CInv'
BY DEF HandleCredentialChange, NextOnWorker, Worker, CInv

LEMMA CInvIsInductive == IInv /\ CInv /\ [Next]_vars => CInv'
<1> SUFFICES ASSUME IInv, CInv, [Next]_vars PROVE CInv'
  OBVIOUS
<1> USE DEF syncEngine, localStore
<1>1. CASE Relaunch
  BY <1>1, RelaunchCallback
<1>2. CASE Auth
  BY <1>2, CallbacksUntouched DEF Auth, ChangeUser, RefreshToken, TakeToken, GiveToken
<1>3. CASE Main
  BY <1>3, CallbacksUntouched DEF Main, OnAuthStateChange, OnToken, OnAnswer, Write
<1>4. CASE WorkerStep
  <2>1. CASE ResumeStart \/ BackoffElapses \/ IdleTimeout \/ NetworkChanges \/ OnHandshakeComplete
    BY <2>1, CallbacksUntouched
       DEF ResumeStart, BackoffElapses, IdleTimeout, NetworkChanges, OnHandshakeComplete
  <2> QED BY <1>4, <2>1, HandleWriteCallback, ResultCallback, AcknowledgeCallback, FinishCallback,
             CredentialCallback DEF WorkerStep
<1>5. CASE Server
  BY <1>5, CallbacksUntouched DEF Server, ServerGreets, ServerHandles, RpcBreaks, StrayArrives
<1>6. CASE UNCHANGED vars
  BY <1>6, CallbacksUntouched DEF vars
<1> QED BY <1>1, <1>2, <1>3, <1>4, <1>5, <1>6 DEF Next

\* In every state of every behaviour nobody waits for a batch that is not in the queue.
THEOREM AlwaysWaitedFor == Spec => [](IInv /\ CInv)
<1>1. Init => IInv /\ CInv
  <2>1. Init => CInv
    BY DEF Init, CInv
  <2> QED BY <2>1, InitIsInOrder
<1>2. IInv /\ CInv /\ [Next]_vars => (IInv /\ CInv)'
  BY IInvIsInductive, CInvIsInductive
<1> QED BY <1>1, <1>2, PTL DEF Spec

\* The caller entered in mutation_callbacks_ under an id waits for the write that is in the
\* queue under this id, though ids are computed anew at every launch and change of user.
THEOREM CallersWaitForTheirs == Spec => []CallbackOfItsWrite
<1>1. ASSUME IInv, CInv, NEW u \in Anybody, NEW c \in callbacks[u]
      PROVE  \E i \in DOMAIN queue[u] :
                 /\ queue[u][i].doc = c.doc
                 /\ \A j \in DOMAIN queue[u] : queue[u][j].id = c.id <=> j = i
  <2> DEFINE q == queue[u]
  <2>1. q \in Seq(Batch) /\ Sorted(q)
    BY <1>1 DEF IInv, TypeOK, Queues
  <2>2. PICK i \in DOMAIN q : q[i].id = c.id /\ q[i].doc = c.doc
    BY <1>1 DEF CInv, Waits
  <2> HIDE DEF q
  <2>3. ASSUME NEW j \in DOMAIN q, q[j].id = c.id PROVE j = i
    <3>1. q[i].id \in Nat /\ i \in Nat /\ j \in Nat
      BY <2>1, BatchIds
    <3>2. ~(i < j) /\ ~(j < i)
      BY <2>1, <2>2, <2>3, <3>1 DEF Sorted
    <3> QED BY <3>1, <3>2
  <2> QED BY <2>2, <2>3 DEF q
<1>2. IInv /\ CInv => CallbackOfItsWrite
  BY <1>1 DEF CallbackOfItsWrite
<1> QED BY <1>2, AlwaysWaitedFor, PTL
====
