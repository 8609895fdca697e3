---- MODULE WritePipelineProofs ----
(***************************************************************************)
(* That the client's assertions hold, the pipeline is the front of the     *)
(* queue, the stream runs while there is something to write, and results   *)
(* fit the pipeline: for any users, any number of writes and of faults,    *)
(* and a pipeline of any length.  The invariant, then its steps, then what *)
(* follows from it.                                                        *)
(***************************************************************************)
EXTENDS RemoteStoreProofs

------------------------------------------------------------------------------
(* Tokens on their way *)

\* What is at the front of the main queue is taken away.
LEMMA TailOfMain ==
    ASSUME NEW r \in Remote, NEW m \in Seq(MainBlock), NEW w, m # <<>>, Tokens(r, m, w)
    PROVE  /\ Tokens(r, Tail(m), w)
           /\ Head(m).kind = "token" /\ Head(m).ask.closes = r.closes =>
                  NoToken(r, Tail(m), w) /\ r.state = "starting"
<1>1. /\ Len(Tail(m)) = Len(m) - 1 /\ DOMAIN Tail(m) = 1 .. Len(m) - 1
      /\ DOMAIN m = 1 .. Len(m) /\ Len(m) \in Nat \ {0} /\ Head(m) = m[1]
  OBVIOUS
<1>2. \A i \in DOMAIN Tail(m) : Tail(m)[i] = m[i + 1] /\ i + 1 \in DOMAIN m
  BY <1>1
<1>3. \A i \in MainNow(r, Tail(m)) : i \in Nat \ {0} /\ i + 1 \in MainNow(r, m)
  BY <1>1, <1>2 DEF MainNow
<1>4. \A i, j \in MainNow(r, Tail(m)) : i + 1 = j + 1 => i = j
  BY <1>3
<1>5. \A i, j \in MainNow(r, Tail(m)) : i = j
  BY <1>3, <1>4 DEF Tokens
<1>6. MainNow(r, m) = {} => MainNow(r, Tail(m)) = {}
  BY <1>3
<1>7. \A i \in DOMAIN Tail(m) : Tail(m)[i].kind = "token" => Tail(m)[i].ask.closes <= r.closes
  BY <1>2 DEF Tokens
<1>8. Tokens(r, Tail(m), w)
  BY <1>3, <1>5, <1>6, <1>7 DEF Tokens, NoToken
<1>9. ASSUME Head(m).kind = "token", Head(m).ask.closes = r.closes 
      PROVE  NoToken(r, Tail(m), w) /\ r.state = "starting"
  <2>1. 1 \in MainNow(r, m)
    BY <1>1, <1>9 DEF MainNow
  <2>2. AsksNow(r) = {} /\ WorkerNow(r, w) = {} /\ r.state = "starting"
    BY <2>1 DEF Tokens, NoToken
  <2>3. \A i \in MainNow(r, Tail(m)) : i + 1 = 1
    BY <1>3, <2>1 DEF Tokens
  <2> QED BY <1>3, <2>2, <2>3 DEF NoToken
<1> QED BY <1>8, <1>9

\* What is at the front of the worker's queue is taken away.
LEMMA TailOfWorker ==
    ASSUME NEW r \in Remote, NEW m, NEW w \in Seq(WorkerBlock), w # <<>>, Tokens(r, m, w)
    PROVE  /\ Tokens(r, m, Tail(w))
           /\ Head(w).kind = "token" /\ Head(w).closes = r.closes =>
                  NoToken(r, m, Tail(w)) /\ r.state = "starting"
<1>1. /\ Len(Tail(w)) = Len(w) - 1 /\ DOMAIN Tail(w) = 1 .. Len(w) - 1
      /\ DOMAIN w = 1 .. Len(w) /\ Len(w) \in Nat \ {0} /\ Head(w) = w[1]
  OBVIOUS
<1>2. \A i \in DOMAIN Tail(w) : Tail(w)[i] = w[i + 1] /\ i + 1 \in DOMAIN w
  BY <1>1
<1>3. \A i \in WorkerNow(r, Tail(w)) : i \in Nat \ {0} /\ i + 1 \in WorkerNow(r, w)
  BY <1>1, <1>2 DEF WorkerNow
<1>4. \A i, j \in WorkerNow(r, Tail(w)) : i + 1 = j + 1 => i = j
  BY <1>3
<1>5. \A i, j \in WorkerNow(r, Tail(w)) : i = j
  BY <1>3, <1>4 DEF Tokens
<1>6. WorkerNow(r, w) = {} => WorkerNow(r, Tail(w)) = {}
  BY <1>3
<1>7. \A i \in DOMAIN Tail(w) : Tail(w)[i].kind = "token" => Tail(w)[i].closes <= r.closes
  BY <1>2 DEF Tokens
<1>8. Tokens(r, m, Tail(w))
  BY <1>3, <1>5, <1>6, <1>7 DEF Tokens, NoToken
<1>9. ASSUME Head(w).kind = "token", Head(w).closes = r.closes
      PROVE  NoToken(r, m, Tail(w)) /\ r.state = "starting"
  <2>1. 1 \in WorkerNow(r, w)
    BY <1>1, <1>9 DEF WorkerNow
  <2>2. AsksNow(r) = {} /\ MainNow(r, m) = {} /\ r.state = "starting"
    BY <2>1 DEF Tokens, NoToken
  <2>3. \A i \in WorkerNow(r, Tail(w)) : i + 1 = 1
    BY <1>3, <2>1 DEF Tokens
  <2> QED BY <1>3, <2>2, <2>3 DEF NoToken
<1> QED BY <1>8, <1>9

\* A block that is no token of now is put into the main queue.
LEMMA AppendToMain ==
    ASSUME NEW r, NEW m \in Seq(MainBlock), NEW w, NEW x \in MainBlock, Tokens(r, m, w)
    PROVE  /\ x.kind # "token" => Tokens(r, Append(m, x), w)
           /\ x.kind = "token" /\ x.ask.closes <= r.closes /\ x.ask.closes # r.closes =>
                  Tokens(r, Append(m, x), w)
           /\ x.kind = "token" /\ x.ask.closes = r.closes /\ r.closes \in Nat
                  /\ NoToken(r, m, w) /\ r.state = "starting" => Tokens(r, Append(m, x), w)
<1> DEFINE a == Append(m, x)
<1>1. /\ Len(m) \in Nat /\ DOMAIN m = 1 .. Len(m) /\ DOMAIN a = 1 .. Len(m) + 1
      /\ \A i \in DOMAIN m : a[i] = m[i]
      /\ a[Len(m) + 1] = x
  BY AppendProperties
<1>2. \A i \in DOMAIN a : i \in DOMAIN m \/ i = Len(m) + 1
  BY <1>1
<1> HIDE DEF a
<1>3. CASE x.kind # "token" \/ x.ask.closes # r.closes
  <2>1. MainNow(r, a) = MainNow(r, m)
    <3>1. \A i \in MainNow(r, a) : i \in MainNow(r, m)
      BY <1>1, <1>2, <1>3 DEF MainNow
    <3>2. \A i \in MainNow(r, m) : i \in MainNow(r, a)
      BY <1>1 DEF MainNow
    <3> QED BY <3>1, <3>2
  <2>2. ASSUME x.kind = "token" => x.ask.closes <= r.closes
        PROVE  \A i \in DOMAIN a : a[i].kind = "token" => a[i].ask.closes <= r.closes
    BY <1>1, <1>2, <2>2 DEF Tokens
  <2>3. ASSUME x.kind = "token" => x.ask.closes <= r.closes PROVE Tokens(r, a, w)
    BY <2>1, <2>2, <2>3 DEF Tokens, NoToken
  <2> QED BY <1>3, <2>3 DEF a
<1>4. CASE x.kind = "token" /\ x.ask.closes = r.closes /\ r.closes \in Nat
           /\ NoToken(r, m, w) /\ r.state = "starting"
  <2>1. \A i \in MainNow(r, a) : i = Len(m) + 1
    BY <1>1, <1>2, <1>4 DEF MainNow, NoToken
  <2>2. \A i \in DOMAIN a : a[i].kind = "token" => a[i].ask.closes <= r.closes
    BY <1>1, <1>2, <1>4 DEF Tokens
  <2>3. Tokens(r, a, w)
    BY <1>4, <2>1, <2>2 DEF Tokens, NoToken
  <2> QED BY <2>3 DEF a
<1> QED BY <1>3, <1>4 DEF a
\* A block that is no token of now is put into the worker's queue.
LEMMA AppendToWorker ==
    ASSUME NEW r, NEW m, NEW w \in Seq(WorkerBlock), NEW x \in WorkerBlock, Tokens(r, m, w)
    PROVE  /\ x.kind # "token" => Tokens(r, m, Append(w, x))
           /\ x.kind = "token" /\ x.closes <= r.closes /\ x.closes # r.closes =>
                  Tokens(r, m, Append(w, x))
           /\ x.kind = "token" /\ x.closes = r.closes /\ r.closes \in Nat
                  /\ NoToken(r, m, w) /\ r.state = "starting" => Tokens(r, m, Append(w, x))
<1> DEFINE a == Append(w, x)
<1>1. /\ Len(w) \in Nat /\ DOMAIN w = 1 .. Len(w) /\ DOMAIN a = 1 .. Len(w) + 1
      /\ \A i \in DOMAIN w : a[i] = w[i]
      /\ a[Len(w) + 1] = x
  BY AppendProperties
<1>2. \A i \in DOMAIN a : i \in DOMAIN w \/ i = Len(w) + 1
  BY <1>1
<1> HIDE DEF a
<1>3. CASE x.kind # "token" \/ x.closes # r.closes
  <2>1. WorkerNow(r, a) = WorkerNow(r, w)
    <3>1. \A i \in WorkerNow(r, a) : i \in WorkerNow(r, w)
      BY <1>1, <1>2, <1>3 DEF WorkerNow
    <3>2. \A i \in WorkerNow(r, w) : i \in WorkerNow(r, a)
      BY <1>1 DEF WorkerNow
    <3> QED BY <3>1, <3>2
  <2>2. ASSUME x.kind = "token" => x.closes <= r.closes
        PROVE  \A i \in DOMAIN a : a[i].kind = "token" => a[i].closes <= r.closes
    BY <1>1, <1>2, <2>2 DEF Tokens
  <2>3. ASSUME x.kind = "token" => x.closes <= r.closes PROVE Tokens(r, m, a)
    BY <2>1, <2>2, <2>3 DEF Tokens, NoToken
  <2> QED BY <1>3, <2>3 DEF a
<1>4. CASE x.kind = "token" /\ x.closes = r.closes /\ r.closes \in Nat
           /\ NoToken(r, m, w) /\ r.state = "starting"
  <2>1. \A i \in WorkerNow(r, a) : i = Len(w) + 1
    BY <1>1, <1>2, <1>4 DEF WorkerNow, NoToken
  <2>2. \A i \in DOMAIN a : a[i].kind = "token" => a[i].closes <= r.closes
    BY <1>1, <1>2, <1>4 DEF Tokens
  <2>3. Tokens(r, m, a)
    BY <1>4, <2>1, <2>2 DEF Tokens, NoToken
  <2> QED BY <2>3 DEF a
<1> QED BY <1>3, <1>4 DEF a

------------------------------------------------------------------------------
(* The invariant *)

\* Every queue is in the order of its ids, and the next id is above them all.
Queues ==
    \A u \in Anybody : Sorted(queue[u]) /\ \A i \in DOMAIN queue[u] : queue[u][i].id < nextId

\* Between two turns of the worker all is in order; in the middle of an acknowledgement
\* the pipeline is not yet filled again, and the stream perhaps not yet started.
InOrder ==
    /\ Filled(acking \o remote.pipeline, queue[currentUser])
    /\ Orderly(remote)
    /\ InStep(remote)
    /\ acking = <<>> => Running(remote)
    /\ Tokens(remote, mainQ, workerQ)

IInv == TypeOK /\ ~crash /\ Queues /\ InOrder

\* The blocks of the main queue and of the worker's.
LEMMA ChangedBlock == ASSUME NEW u \in Anybody PROVE [kind |-> "changed", user |-> u] \in MainBlock
BY DEF MainBlock

LEMMA TokenBlock ==
    ASSUME NEW ask \in GivenAsk, NEW ok \in BOOLEAN
    PROVE  [kind |-> "token", ask |-> ask, ok |-> ok] \in MainBlock
BY DEF MainBlock

LEMMA AnswerBlock ==
    ASSUME NEW d \in Doc, NEW answer \in {"ok", "failed"}
    PROVE  [kind |-> "answer", answer |-> answer, doc |-> d] \in MainBlock
BY DEF MainBlock

LEMMA CredentialBlock ==
    ASSUME NEW u \in Anybody PROVE [kind |-> "credential", user |-> u] \in WorkerBlock
BY DEF WorkerBlock

LEMMA OpenBlock ==
    ASSUME NEW u \in Anybody, NEW n \in Nat, NEW ok \in BOOLEAN
    PROVE  [kind |-> "token", closes |-> n, user |-> u, ok |-> ok] \in WorkerBlock
BY DEF WorkerBlock

LEMMA WriteBlock ==
    ASSUME NEW u \in Users, NEW d \in Doc, NEW ok \in BOOLEAN
    PROVE  [kind |-> "write", user |-> u, doc |-> d, ok |-> ok] \in WorkerBlock
BY DEF WorkerBlock

\* Steps of FIRAuth and of the main thread change nothing of the stream but the tokens asked for.
LEMMA AsksOnly ==
    ASSUME NEW r \in Remote, NEW s \in SUBSET Ask
    PROVE  LET z == [r EXCEPT !.asks = s]
           IN  /\ z \in Remote
               /\ z.pipeline = r.pipeline /\ z.state = r.state /\ z.closes = r.closes /\ z.asks = s
               /\ Orderly(r) => Orderly(z)
               /\ InStep(r) => InStep(z)
               /\ Running(r) => Running(z)
<1> DEFINE z == [r EXCEPT !.asks = s]
<1>1. /\ z \in Remote
      /\ z.pipeline = r.pipeline /\ z.state = r.state /\ z.handshake = r.handshake
      /\ z.idle = r.idle /\ z.closes = r.closes /\ z.asks = s /\ z.hello = r.hello
      /\ z.requests = r.requests /\ z.responses = r.responses /\ z.ended = r.ended
  BY DEF Remote
<1> HIDE DEF z
<1> QED BY <1>1 DEF Orderly, InStep, Running, IsStarted, z

\* The worker begins a turn.
LEMMA BeforeATurn ==
    ASSUME IInv, Worker
    PROVE  /\ remote \in Remote /\ Orderly(remote) /\ InStep(remote) /\ Running(remote)
           /\ queue[currentUser] \in Seq(Batch) /\ Sorted(queue[currentUser])
           /\ Filled(remote.pipeline, queue[currentUser]) /\ Fits(remote.pipeline, queue[currentUser])
           /\ mainQ \in Seq(MainBlock) /\ workerQ \in Seq(WorkerBlock)
           /\ Tokens(remote, mainQ, workerQ)
           /\ tokenCounter \in Nat
<1>1. <<>> \o remote.pipeline = remote.pipeline
  BY DEF IInv, TypeOK, Remote
<1>2. queue[currentUser] \in Seq(Batch) /\ Sorted(queue[currentUser])
  BY DEF IInv, TypeOK, Queues
<1> QED BY <1>1, <1>2 DEF IInv, TypeOK, InOrder, Worker, Filled

\* The worker ends a turn, with what the functions of RemoteStore made of the stream.
LEMMA AfterATurn ==
    ASSUME acking' = <<>>, Sound(remote', queue'[currentUser'], mainQ', workerQ')
    PROVE  remote' \in Remote /\ InOrder'
<1>1. <<>> \o (remote').pipeline = (remote').pipeline
  BY DEF Sound, Remote
<1> QED BY <1>1 DEF Sound, InOrder

LEMMA FreshIsOrderly ==
    /\ Fresh \in Remote /\ Orderly(Fresh) /\ InStep(Fresh) /\ Running(Fresh)
    /\ Fresh.pipeline = <<>> /\ Fresh.asks = {} /\ Fresh.state = "initial" /\ Fresh.closes = 0
BY DEF Fresh, Remote, Orderly, InStep, Running, IsStarted, Anybody

LEMMA InitIsInOrder == Init => IInv
<1> SUFFICES ASSUME Init PROVE IInv
  OBVIOUS
<1>1. /\ Fresh \in Remote /\ Orderly(Fresh) /\ InStep(Fresh) /\ Running(Fresh)
      /\ Fresh.pipeline = <<>> /\ Fresh.asks = {}
  BY FreshIsOrderly
<1>2. TypeOK
  <2>1. authUser \in Anybody /\ knownUser \in Anybody /\ currentUser \in Anybody
    BY DEF Init, Anybody
  <2>2. mainQ \in Seq(MainBlock)
    <3> DEFINE x == [kind |-> "changed", user |-> authUser]
    <3>1. x \in MainBlock
      BY <2>1, ChangedBlock
    <3> HIDE DEF x
    <3>2. mainQ = <<>> \/ mainQ = <<x>>
      BY DEF Init, x
    <3>3. <<>> \in Seq(MainBlock) /\ <<x>> \in Seq(MainBlock)
      BY <3>1
    <3> QED BY <3>2, <3>3
  <2>3. issued \in 0 .. MaxWrites /\ changes \in 0 .. MaxChanges /\ faults \in 0 .. MaxFaults
    BY WriteBoundsAssumption DEF Init
  <2>4. /\ queue \in [Anybody -> Seq(Batch)] /\ acking \in Seq(Batch) /\ Len(acking) <= 1
        /\ workerQ \in Seq(WorkerBlock)
    BY DEF Init
  <2>5. callbacks \in [Anybody -> SUBSET [id : Nat \ {0}, doc : Doc]]
    BY DEF Init
  <2>6. told \in [Doc -> {"nothing", "ok", "failed"}]
    BY DEF Init, Doc
  <2>7. nextId \in Nat \ {0} /\ tokenCounter \in Nat
    BY DEF Init
  <2>9. crash \in BOOLEAN
    BY DEF Init
  <2>8. remote \in Remote /\ applied \subseteq Batch /\ refused \subseteq Batch
    BY <1>1 DEF Init
  <2> QED BY <2>1, <2>2, <2>3, <2>4, <2>5, <2>6, <2>7, <2>8, <2>9 DEF TypeOK
<1>3. Queues
  BY DEF Init, Queues, Sorted
<1>4. Tokens(remote, mainQ, workerQ)
  <2>1. \A i \in DOMAIN mainQ : mainQ[i].kind # "token"
    BY DEF Init
  <2>2. DOMAIN workerQ = {}
    BY DEF Init
  <2> QED BY <1>1, <2>1, <2>2 DEF Init, Tokens, NoToken, AsksNow, MainNow, WorkerNow
<1>5. Filled(acking \o remote.pipeline, queue[currentUser])
  <2>1. currentUser \in Anybody /\ acking \o remote.pipeline = <<>> /\ queue[currentUser] = <<>>
    BY <1>1, <1>2 DEF Init, TypeOK
  <2>2. <<>> \in Seq(Batch)
    OBVIOUS
  <2>3. Fits(<<>>, <<>>)
    BY <2>2, FrontOfNothing
  <2>4. Len(<<>>) = 0
    OBVIOUS
  <2> QED BY <2>1, <2>3, <2>4 DEF Filled
<1> QED BY <1>1, <1>2, <1>3, <1>4, <1>5 DEF Init, IInv, InOrder

------------------------------------------------------------------------------
(* The steps of FIRAuth and of the main thread *)

LEMMA StreamUntouched ==
    ASSUME IInv, NEW s \in SUBSET Ask, remote' = [remote EXCEPT !.asks = s],
           UNCHANGED <<queue, nextId, currentUser, acking, crash>>,
           Tokens(remote', mainQ', workerQ')
    PROVE  remote' \in Remote /\ ~crash' /\ Queues' /\ InOrder'
<1>1. remote \in Remote /\ Orderly(remote) /\ InStep(remote) /\ (acking = <<>> => Running(remote))
  BY DEF IInv, TypeOK, InOrder
<1>2. /\ remote' \in Remote /\ remote'.pipeline = remote.pipeline
      /\ Orderly(remote') /\ InStep(remote') /\ (acking = <<>> => Running(remote'))
  BY <1>1, AsksOnly
<1>3. ~crash' /\ Queues'
  BY DEF IInv, Queues
<1> QED BY <1>2, <1>3 DEF IInv, InOrder

LEMMA SameAsks == ASSUME NEW r \in Remote PROVE r.asks \in SUBSET Ask /\ r = [r EXCEPT !.asks = r.asks]
BY DEF Remote

LEMMA ChangeUserStep == ASSUME IInv, NEW u \in Anybody, ChangeUser(u) PROVE IInv'
<1> DEFINE x == [kind |-> "changed", user |-> u]
<1>1. x \in MainBlock /\ x.kind # "token"
  BY ChangedBlock
<1>2. mainQ' = Append(mainQ, x) /\ authUser' = u /\ changes' = changes + 1 /\ changes < MaxChanges
      /\ UNCHANGED <<knownUser, tokenCounter, workerQ, syncEngine, localStore, remote, backend, told,
                     issued, faults, crash>>
  BY DEF ChangeUser
<1> HIDE DEF x
<1>3. remote \in Remote /\ mainQ \in Seq(MainBlock) /\ Tokens(remote, mainQ, workerQ)
  BY DEF IInv, TypeOK, InOrder
<1>4. Tokens(remote', mainQ', workerQ')
  BY <1>1, <1>2, <1>3, AppendToMain
<1>5. ~crash' /\ Queues' /\ InOrder'
  BY <1>2, <1>3, <1>4, SameAsks, StreamUntouched DEF syncEngine, localStore
<1>6. mainQ' \in Seq(MainBlock) /\ changes' \in 0 .. MaxChanges
  BY <1>1, <1>2, <1>3, WriteBoundsAssumption DEF IInv, TypeOK
<1>7. TypeOK'
  BY <1>2, <1>6 DEF IInv, TypeOK, syncEngine, localStore, backend
<1> QED BY <1>5, <1>7 DEF IInv

LEMMA RefreshTokenStep == ASSUME IInv, RefreshToken PROVE IInv'
<1> DEFINE x == [kind |-> "changed", user |-> authUser]
<1>1. x \in MainBlock /\ x.kind # "token"
  BY ChangedBlock DEF IInv, TypeOK
<1>2. mainQ' = Append(mainQ, x) /\ faults' = faults + 1 /\ faults < MaxFaults
      /\ UNCHANGED <<authUser, knownUser, tokenCounter, workerQ, syncEngine, localStore, remote,
                     backend, told, issued, changes, crash>>
  BY DEF RefreshToken
<1> HIDE DEF x
<1>3. remote \in Remote /\ mainQ \in Seq(MainBlock) /\ Tokens(remote, mainQ, workerQ)
  BY DEF IInv, TypeOK, InOrder
<1>4. Tokens(remote', mainQ', workerQ')
  BY <1>1, <1>2, <1>3, AppendToMain
<1>5. ~crash' /\ Queues' /\ InOrder'
  BY <1>2, <1>3, <1>4, SameAsks, StreamUntouched DEF syncEngine, localStore
<1>6. mainQ' \in Seq(MainBlock) /\ faults' \in 0 .. MaxFaults
  BY <1>1, <1>2, <1>3, WriteBoundsAssumption DEF IInv, TypeOK
<1>7. TypeOK'
  BY <1>2, <1>6 DEF IInv, TypeOK, syncEngine, localStore, backend
<1> QED BY <1>5, <1>7 DEF IInv

\* A token that is read is the same one still to come.
LEMMA TakeTokenStep == ASSUME IInv, NEW ask \in remote.asks, TakeToken(ask) PROVE IInv'
<1> DEFINE taken == [ask EXCEPT !.user = <<authUser>>]
           s == (remote.asks \ {ask}) \cup {taken}
<1>1. remote \in Remote /\ remote.asks \subseteq Ask /\ ask \in Ask /\ authUser \in Anybody
      /\ Tokens(remote, mainQ, workerQ)
  BY DEF IInv, TypeOK, InOrder, Remote
<1>2. remote' = [remote EXCEPT !.asks = s]
      /\ UNCHANGED <<identity, workerQ, syncEngine, localStore, backend, told, budget, crash>>
  BY <1>1 DEF TakeToken, Remote
<1>3. taken \in Ask /\ taken.closes = ask.closes
  BY <1>1 DEF Ask
<1> HIDE DEF taken
<1>4. s \in SUBSET Ask
  BY <1>1, <1>3
<1>5. remote'.asks = s /\ remote'.closes = remote.closes /\ remote'.state = remote.state
  BY <1>1, <1>2, <1>4, AsksOnly
<1> HIDE DEF s
<1>6. Tokens(remote', mainQ, workerQ)
  <2>1. \A a \in remote'.asks : a.closes <= remote'.closes
    BY <1>1, <1>3, <1>5 DEF Tokens, s
  <2>2. MainNow(remote', mainQ) = MainNow(remote, mainQ) /\ WorkerNow(remote', workerQ) = WorkerNow(remote, workerQ)
    BY <1>5 DEF MainNow, WorkerNow
  <2>3. CASE ask.closes = remote.closes
    <3>1. AsksNow(remote') = {taken} /\ ask \in AsksNow(remote)
      BY <1>1, <1>3, <1>5, <2>3 DEF Tokens, AsksNow, s
    <3> QED BY <1>1, <1>5, <2>1, <2>2, <3>1 DEF Tokens, NoToken
  <2>4. CASE ask.closes # remote.closes
    <3>1. AsksNow(remote') = AsksNow(remote)
      BY <1>3, <1>5, <2>4 DEF AsksNow, s
    <3> QED BY <1>1, <1>5, <2>1, <2>2, <3>1 DEF Tokens, NoToken
  <2> QED BY <2>3, <2>4
<1>7. remote' \in Remote /\ ~crash' /\ Queues' /\ InOrder'
  BY <1>2, <1>4, <1>6, StreamUntouched DEF identity, syncEngine, localStore
<1>8. TypeOK'
  BY <1>2, <1>7 DEF IInv, TypeOK, identity, syncEngine, localStore, backend, budget
<1> QED BY <1>7, <1>8 DEF IInv

\* An answered ask moves from FIRAuth's queue to the main thread.
LEMMA GiveTokenStep ==
    ASSUME IInv, NEW ask \in remote.asks, NEW ok \in BOOLEAN, GiveToken(ask, ok) PROVE IInv'
<1> DEFINE x == [kind |-> "token", ask |-> ask, ok |-> ok]
           s == remote.asks \ {ask}
<1>1. /\ remote \in Remote /\ remote.asks \subseteq Ask /\ ask \in Ask /\ remote.closes \in Nat
      /\ mainQ \in Seq(MainBlock) /\ Tokens(remote, mainQ, workerQ)
  BY DEF IInv, TypeOK, InOrder, Remote
<1>2. /\ ask.user # <<>> /\ remote' = [remote EXCEPT !.asks = s] /\ mainQ' = Append(mainQ, x)
      /\ faults' = (IF ok THEN faults ELSE faults + 1) /\ (ok \/ faults < MaxFaults)
      /\ UNCHANGED <<authUser, knownUser, tokenCounter, workerQ, syncEngine, localStore, backend, told,
                     issued, changes, crash>>
  BY <1>1 DEF GiveToken, Remote
<1>3. x \in MainBlock /\ x.kind = "token" /\ x.ask = ask
  <2>1. ask \in GivenAsk
    BY <1>1, <1>2 DEF Ask, GivenAsk
  <2> QED BY <2>1, TokenBlock
<1> HIDE DEF x
<1>4. s \in SUBSET Ask
  BY <1>1
<1>5. remote'.asks = s /\ remote'.closes = remote.closes /\ remote'.state = remote.state
  BY <1>1, <1>2, <1>4, AsksOnly
<1> HIDE DEF s
<1>6. MainNow(remote', mainQ) = MainNow(remote, mainQ) /\ WorkerNow(remote', workerQ) = WorkerNow(remote, workerQ)
  BY <1>5 DEF MainNow, WorkerNow
<1>7. AsksNow(remote') \subseteq AsksNow(remote)
  BY <1>5 DEF AsksNow, s
<1>8. Tokens(remote', mainQ, workerQ)
  BY <1>1, <1>5, <1>6, <1>7 DEF Tokens, NoToken, s
<1>9. Tokens(remote', mainQ', workerQ')
  <2>1. CASE ask.closes = remote.closes
    <3>1. ask \in AsksNow(remote)
      BY <2>1 DEF AsksNow
    <3>2. AsksNow(remote') = {} /\ remote.state = "starting"
      BY <1>1, <1>5, <3>1 DEF Tokens, AsksNow, NoToken, s
    <3>3. NoToken(remote', mainQ, workerQ)
      BY <1>1, <1>6, <3>1, <3>2 DEF Tokens, NoToken
    <3> QED BY <1>1, <1>2, <1>3, <1>5, <1>8, <2>1, <3>2, <3>3, AppendToMain, ZenonT(40)
  <2>2. CASE ask.closes # remote.closes
    <3>1. ask.closes <= remote'.closes
      BY <1>1, <1>5 DEF Tokens
    <3> QED BY <1>1, <1>2, <1>3, <1>5, <1>8, <2>2, <3>1, AppendToMain
  <2> QED BY <2>1, <2>2
<1>10. remote' \in Remote /\ ~crash' /\ Queues' /\ InOrder'
  BY <1>2, <1>4, <1>9, StreamUntouched DEF syncEngine, localStore
<1>11. mainQ' \in Seq(MainBlock) /\ faults' \in 0 .. MaxFaults
  <2>1. mainQ \in Seq(MainBlock) /\ faults \in 0 .. MaxFaults
    BY <1>1 DEF IInv, TypeOK
  <2>2. \A n \in 0 .. MaxFaults : n < MaxFaults => n + 1 \in 0 .. MaxFaults
    BY WriteBoundsAssumption
  <2> QED BY <1>2, <1>3, <2>1, <2>2
<1>12. TypeOK'
  BY <1>2, <1>10, <1>11 DEF IInv, TypeOK, syncEngine, localStore, backend
<1> QED BY <1>10, <1>12 DEF IInv

LEMMA AuthStateStep == ASSUME IInv, OnAuthStateChange PROVE IInv'
<1> DEFINE u == Head(mainQ).user
           x == [kind |-> "credential", user |-> u]
<1>1. /\ remote \in Remote /\ mainQ \in Seq(MainBlock) /\ workerQ \in Seq(WorkerBlock)
      /\ Tokens(remote, mainQ, workerQ)
  BY DEF IInv, TypeOK, InOrder
<1>2. /\ mainQ # <<>> /\ Head(mainQ).kind = "changed" /\ mainQ' = Tail(mainQ)
      /\ knownUser' = u /\ tokenCounter' = tokenCounter + 1 /\ workerQ' = Append(workerQ, x)
      /\ UNCHANGED <<authUser, syncEngine, localStore, remote, backend, told, budget, crash>>
  BY DEF OnAuthStateChange, NextOnMain
<1>3. u \in Anybody
  <2>1. Head(mainQ) \in MainBlock
    BY <1>1, <1>2
  <2> QED BY <1>2, <2>1 DEF MainBlock
<1> HIDE DEF u
<1>4. x \in WorkerBlock /\ x.kind # "token"
  BY <1>3, CredentialBlock
<1> HIDE DEF x
<1>5. Tokens(remote', mainQ', workerQ')
  <2>1. Tokens(remote, Tail(mainQ), workerQ)
    BY <1>1, <1>2, TailOfMain
  <2> QED BY <1>1, <1>2, <1>4, <2>1, AppendToWorker
<1>6. ~crash' /\ Queues' /\ InOrder'
  BY <1>1, <1>2, <1>5, SameAsks, StreamUntouched DEF syncEngine, localStore
<1>7. mainQ' \in Seq(MainBlock) /\ workerQ' \in Seq(WorkerBlock)
  BY <1>1, <1>2, <1>4
<1>8. TypeOK'
  BY <1>2, <1>3, <1>7 DEF IInv, TypeOK, syncEngine, localStore, backend, budget
<1> QED BY <1>6, <1>8 DEF IInv

\* A token comes to the main thread and is asked for again or handed on.
LEMMA OnTokenStep == ASSUME IInv, OnToken PROVE IInv'
<1> DEFINE ask == Head(mainQ).ask
           again == [closes |-> ask.closes, counter |-> tokenCounter, user |-> <<>>]
           x == [kind |-> "token", closes |-> ask.closes, user |-> ask.user[1], ok |-> Head(mainQ).ok]
           s == remote.asks \cup {again}
<1>1. /\ remote \in Remote /\ mainQ \in Seq(MainBlock) /\ workerQ \in Seq(WorkerBlock)
      /\ Tokens(remote, mainQ, workerQ) /\ remote.asks \subseteq Ask /\ remote.closes \in Nat
      /\ tokenCounter \in Nat
  BY DEF IInv, TypeOK, InOrder, Remote
<1>2. /\ mainQ # <<>> /\ Head(mainQ).kind = "token" /\ mainQ' = Tail(mainQ)
      /\ UNCHANGED <<authUser, knownUser, tokenCounter, syncEngine, localStore, backend, told,
                     budget, crash>>
      /\ \/ remote' = [remote EXCEPT !.asks = s] /\ workerQ' = workerQ
         \/ remote' = remote /\ workerQ' = Append(workerQ, x)
  BY <1>1 DEF OnToken, NextOnMain, Remote
<1>3. Head(mainQ) \in MainBlock /\ ask \in GivenAsk /\ Head(mainQ).ok \in BOOLEAN
  <2>1. Head(mainQ) \in MainBlock
    BY <1>1, <1>2
  <2> QED BY <1>2, <2>1 DEF MainBlock
<1>4. ask.closes \in Nat /\ ask.user[1] \in Anybody
  BY <1>3 DEF GivenAsk
<1>5. ask.closes <= remote.closes
  BY <1>1, <1>2 DEF Tokens
<1>6. x \in WorkerBlock /\ x.kind = "token" /\ x.closes = ask.closes
  BY <1>3, <1>4, OpenBlock
<1>7. again \in Ask /\ again.closes = ask.closes
  BY <1>1, <1>4 DEF Ask
<1>8. /\ Tokens(remote, Tail(mainQ), workerQ)
      /\ ask.closes = remote.closes =>
             NoToken(remote, Tail(mainQ), workerQ) /\ remote.state = "starting"
  BY <1>1, <1>2, TailOfMain
<1> HIDE DEF ask, again, x
<1>9. mainQ' \in Seq(MainBlock)
  BY <1>1, <1>2
<1>s. s \in SUBSET Ask
  BY <1>1, <1>7
<1>10. ASSUME remote' = [remote EXCEPT !.asks = s], workerQ' = workerQ
       PROVE  Tokens(remote', mainQ', workerQ')
  <2>2. remote'.asks = s /\ remote'.closes = remote.closes /\ remote'.state = remote.state
    BY <1>1, <1>10, <1>s, AsksOnly
  <2> HIDE DEF s
  <2>3. /\ MainNow(remote', mainQ') = MainNow(remote, mainQ')
        /\ WorkerNow(remote', workerQ) = WorkerNow(remote, workerQ)
    BY <2>2 DEF MainNow, WorkerNow
  <2>4. \A a \in remote'.asks : a.closes <= remote'.closes
    BY <1>5, <1>7, <1>8, <2>2 DEF s, Tokens
  <2>5. CASE ask.closes = remote.closes
    <3>1. AsksNow(remote') = {again}
      BY <1>7, <1>8, <2>2, <2>5 DEF AsksNow, NoToken, s
    <3> QED BY <1>2, <1>8, <1>10, <2>2, <2>3, <2>4, <2>5, <3>1 DEF Tokens, NoToken
  <2>6. CASE ask.closes # remote.closes
    <3>1. AsksNow(remote') = AsksNow(remote)
      BY <1>7, <2>2, <2>6 DEF AsksNow, s
    <3> QED BY <1>2, <1>8, <1>10, <2>2, <2>3, <2>4, <3>1 DEF Tokens, NoToken
  <2> QED BY <2>5, <2>6
<1>11. ASSUME remote' = remote, workerQ' = Append(workerQ, x)
       PROVE  Tokens(remote', mainQ', workerQ')
  <2>1. Tokens(remote, Tail(mainQ), Append(workerQ, x))
    BY <1>1, <1>5, <1>6, <1>8, AppendToWorker
  <2> QED BY <1>2, <1>11, <2>1
<1> HIDE DEF s
<1>12. ~crash' /\ Queues' /\ InOrder' /\ remote' \in Remote
  BY <1>1, <1>2, <1>s, <1>10, <1>11, SameAsks, StreamUntouched DEF syncEngine, localStore
<1>13. workerQ' \in Seq(WorkerBlock)
  BY <1>1, <1>2, <1>6
<1>14. TypeOK'
  BY <1>2, <1>9, <1>12, <1>13 DEF IInv, TypeOK, syncEngine, localStore, backend, budget
<1> QED BY <1>12, <1>14 DEF IInv

\* A caller is told.
LEMMA OnAnswerStep == ASSUME IInv, OnAnswer PROVE IInv'
<1>1. /\ remote \in Remote /\ mainQ \in Seq(MainBlock) /\ workerQ \in Seq(WorkerBlock)
      /\ Tokens(remote, mainQ, workerQ)
  BY DEF IInv, TypeOK, InOrder
<1>2. /\ mainQ # <<>> /\ Head(mainQ).kind = "answer" /\ mainQ' = Tail(mainQ)
      /\ told' = [told EXCEPT ![Head(mainQ).doc] = Head(mainQ).answer]
      /\ UNCHANGED <<authUser, knownUser, tokenCounter, workerQ, syncEngine, localStore, remote,
                     backend, budget, crash>>
  BY DEF OnAnswer, NextOnMain
<1>3. Head(mainQ).doc \in Doc /\ Head(mainQ).answer \in {"ok", "failed"}
  <2>1. Head(mainQ) \in MainBlock
    BY <1>1, <1>2
  <2> QED BY <1>2, <2>1 DEF MainBlock
<1>4. Tokens(remote', mainQ', workerQ')
  BY <1>1, <1>2, TailOfMain
<1>5. ~crash' /\ Queues' /\ InOrder'
  BY <1>1, <1>2, <1>4, SameAsks, StreamUntouched DEF syncEngine, localStore
<1>6. mainQ' \in Seq(MainBlock) /\ told' \in [Doc -> {"nothing", "ok", "failed"}]
  BY <1>1, <1>2, <1>3 DEF IInv, TypeOK
<1>7. TypeOK'
  BY <1>2, <1>6 DEF IInv, TypeOK, syncEngine, localStore, backend, budget
<1> QED BY <1>5, <1>7 DEF IInv

LEMMA WriteStep == ASSUME IInv, NEW ok \in Verdicts, Write(ok) PROVE IInv'
<1> DEFINE x == [kind |-> "write", user |-> knownUser, doc |-> issued', ok |-> ok]
<1>1. /\ remote \in Remote /\ mainQ \in Seq(MainBlock) /\ workerQ \in Seq(WorkerBlock)
      /\ Tokens(remote, mainQ, workerQ)
  BY DEF IInv, TypeOK, InOrder
<1>2. /\ issued < MaxWrites /\ knownUser # NoUser /\ issued' = issued + 1
      /\ workerQ' = Append(workerQ, x)
      /\ UNCHANGED <<identity, syncEngine, localStore, remote, backend, told, changes, faults, crash>>
  BY DEF Write
<1>3. issued' \in Doc /\ issued' \in 0 .. MaxWrites /\ knownUser \in Users
  BY <1>2, WriteBoundsAssumption DEF IInv, TypeOK, Doc, Anybody
<1>4. x \in WorkerBlock /\ x.kind # "token"
  BY <1>3, WriteBlock, VerdictsAssumption
<1> HIDE DEF x
<1>5. Tokens(remote', mainQ', workerQ')
  BY <1>1, <1>2, <1>4, AppendToWorker DEF identity
<1>6. ~crash' /\ Queues' /\ InOrder'
  BY <1>1, <1>2, <1>5, SameAsks, StreamUntouched DEF syncEngine, localStore
<1>7. workerQ' \in Seq(WorkerBlock)
  BY <1>1, <1>2, <1>4
<1>8. TypeOK'
  BY <1>2, <1>3, <1>7 DEF IInv, TypeOK, identity, syncEngine, localStore, backend
<1> QED BY <1>6, <1>8 DEF IInv

------------------------------------------------------------------------------
(* The steps of the server *)

LEMMA SameTokens ==
    ASSUME NEW r, NEW z, NEW m, NEW w, Tokens(r, m, w),
           z.asks = r.asks, z.closes = r.closes, z.state = r.state
    PROVE  Tokens(z, m, w)
<1>1. AsksNow(z) = AsksNow(r) /\ MainNow(z, m) = MainNow(r, m) /\ WorkerNow(z, w) = WorkerNow(r, w)
  BY DEF AsksNow, MainNow, WorkerNow
<1> QED BY <1>1 DEF Tokens, NoToken

LEMMA PipelineUntouched ==
    ASSUME IInv, remote' \in Remote, Orderly(remote'), InStep(remote'),
           remote'.pipeline = remote.pipeline, remote'.state = remote.state,
           remote'.closes = remote.closes, remote'.asks = remote.asks,
           UNCHANGED <<mainQ, workerQ, queue, nextId, currentUser, acking, crash>>
    PROVE  ~crash' /\ Queues' /\ InOrder'
<1>1. Tokens(remote', mainQ', workerQ')
  BY SameTokens DEF IInv, InOrder
<1>2. Running(remote) => Running(remote')
  BY DEF Running, IsStarted
<1>3. ~crash' /\ Queues'
  BY DEF IInv, Queues
<1> QED BY <1>1, <1>2, <1>3 DEF IInv, InOrder

LEMMA ServerGreetsStep == ASSUME IInv, ServerGreets PROVE IInv'
<1>1. remote \in Remote /\ Orderly(remote) /\ InStep(remote)
  BY DEF IInv, TypeOK, InOrder
<1>2. /\ remote.hello = "asked" /\ remote' = [remote EXCEPT !.hello = "answered"]
      /\ UNCHANGED <<identity, workerQ, syncEngine, localStore, backend, told, budget, crash>>
  BY DEF ServerGreets
<1>3. /\ remote' \in Remote
      /\ remote'.pipeline = remote.pipeline /\ remote'.state = remote.state
      /\ remote'.handshake = remote.handshake /\ remote'.idle = remote.idle
      /\ remote'.closes = remote.closes /\ remote'.asks = remote.asks
      /\ remote'.requests = remote.requests /\ remote'.responses = remote.responses
      /\ remote'.ended = remote.ended
  BY <1>1, <1>2 DEF Remote
<1>4. Orderly(remote') /\ InStep(remote')
  BY <1>1, <1>2, <1>3 DEF Orderly, InStep, IsStarted
<1>5. ~crash' /\ Queues' /\ InOrder'
  BY <1>2, <1>3, <1>4, PipelineUntouched DEF identity, syncEngine, localStore
<1>6. TypeOK'
  BY <1>2, <1>3 DEF IInv, TypeOK, identity, syncEngine, localStore, backend, budget
<1> QED BY <1>5, <1>6 DEF IInv

LEMMA Sums ==
    ASSUME NEW x \in Nat, NEW y \in Nat, NEW z \in Nat, NEW k \in Nat, k + y <= z
    PROVE  (k + 1) + (y - 1) <= z /\ k + (y - 1) <= z /\ k <= z /\ (x <= k => x + y <= z /\ x <= z)
OBVIOUS

LEMMA OneLess ==
    ASSUME NEW x \in Nat \ {0}, NEW y \in Nat, NEW z \in Nat, x + y <= z
    PROVE  (x - 1) + y <= z - 1
OBVIOUS

\* The head of b moves to the end of a.
LEMMA HeadMoves ==
    ASSUME NEW a \in Seq(Batch), NEW b \in Seq(Batch), b # <<>>
    PROVE  /\ Append(a, Head(b)) \in Seq(Batch) /\ Len(Append(a, Head(b))) = Len(a) + 1
           /\ Tail(b) \in Seq(Batch) /\ Len(Tail(b)) = Len(b) - 1
           /\ Append(a, Head(b)) \o Tail(b) = a \o b
           /\ SubSeq(a \o b, 1, Len(a) + 1) = Append(a, Head(b))
<1>1. /\ Head(b) \in Batch /\ Head(b) = b[1] /\ Len(a) \in Nat /\ Len(b) \in Nat \ {0}
      /\ Tail(b) \in Seq(Batch) /\ Len(Tail(b)) = Len(b) - 1
      /\ \A i \in 1 .. Len(b) - 1 : Tail(b)[i] = b[i + 1]
  OBVIOUS
<1> DEFINE c == Append(a, Head(b))
<1>2. /\ c \in Seq(Batch) /\ Len(c) = Len(a) + 1 /\ c[Len(a) + 1] = b[1]
      /\ \A i \in 1 .. Len(a) : c[i] = a[i]
  BY <1>1, AppendProperties
<1> HIDE DEF c
<1>3. c \o Tail(b) = a \o b
  <2> DEFINE l == c \o Tail(b)
             k == a \o b
  <2>1. /\ l \in Seq(Batch) /\ Len(l) = Len(c) + Len(Tail(b))
        /\ \A i \in 1 .. Len(c) + Len(Tail(b)) :
              l[i] = IF i <= Len(c) THEN c[i] ELSE Tail(b)[i - Len(c)]
    BY <1>1, <1>2, ConcatProperties
  <2>2. /\ k \in Seq(Batch) /\ Len(k) = Len(a) + Len(b)
        /\ \A i \in 1 .. Len(a) + Len(b) : k[i] = IF i <= Len(a) THEN a[i] ELSE b[i - Len(a)]
    BY <1>1, ConcatProperties
  <2> HIDE DEF l, k
  <2>3. Len(l) = Len(k) /\ Len(l) \in Nat
    BY <1>1, <1>2, <2>1, <2>2
  <2>4. ASSUME NEW i \in 1 .. Len(l) PROVE l[i] = k[i]
    <3>1. CASE i <= Len(a)
      BY <1>1, <1>2, <2>1, <2>2, <2>3, <3>1
    <3>2. CASE i = Len(a) + 1
      BY <1>1, <1>2, <2>1, <2>2, <2>3, <3>2
    <3>3. CASE i > Len(a) + 1
      <4>1. l[i] = Tail(b)[i - (Len(a) + 1)] /\ k[i] = b[i - Len(a)]
        BY <1>1, <1>2, <2>1, <2>2, <2>3, <3>3
      <4>2. i - (Len(a) + 1) \in 1 .. Len(b) - 1 /\ i - (Len(a) + 1) + 1 = i - Len(a)
        BY <1>1, <1>2, <2>1, <2>3, <3>3
      <4> QED BY <1>1, <4>1, <4>2
    <3> QED BY <1>1, <2>3, <3>1, <3>2, <3>3
  <2>5. l = k
    BY <2>1, <2>2, <2>3, <2>4, SeqEqual
  <2> QED BY <2>5 DEF l, k
<1>4. SubSeq(c \o Tail(b), 1, Len(c)) = c
  BY <1>1, <1>2, SubSeqOfConcat1, SubSeqFull
<1> QED BY <1>1, <1>2, <1>3, <1>4 DEF c

\* What is written is answered by the front of the pipeline: a response follows those unread.
LEMMA ServerHandlesStep == ASSUME IInv, ServerHandles PROVE IInv'
<1> DEFINE batch == Head(remote.requests)
<1>1. /\ remote \in Remote /\ Orderly(remote) /\ InStep(remote)
      /\ applied \subseteq Batch /\ refused \subseteq Batch
      /\ remote.requests \in Seq(Batch) /\ remote.responses \in Seq(Batch) /\ remote.pipeline \in Seq(Batch)
  BY DEF IInv, TypeOK, InOrder, Remote
<1>2. /\ remote.requests # <<>> /\ remote.ended = "none"
      /\ UNCHANGED <<identity, workerQ, syncEngine, localStore, told, budget, crash>>
  BY DEF ServerHandles
<1>3. batch \in Batch /\ Tail(remote.requests) \in Seq(Batch)
      /\ Len(Tail(remote.requests)) = Len(remote.requests) - 1
      /\ Len(remote.requests) \in Nat /\ Len(remote.responses) \in Nat /\ Len(remote.pipeline) \in Nat
  BY <1>1, <1>2
<1>4. remote.handshake /\ remote.state = "open"
  BY <1>1, <1>2 DEF Orderly
<1>5. /\ Len(remote.responses) + Len(remote.requests) <= Len(remote.pipeline)
      /\ remote.responses = SubSeq(remote.pipeline, 1, Len(remote.responses))
      /\ remote.responses \o remote.requests = remote.pipeline
  BY <1>1, <1>2, <1>4 DEF InStep
<1>6. CASE Accepts(remote.user, batch)
  <2>1. /\ applied' = applied \cup {batch} /\ refused' = refused
        /\ remote' = [remote EXCEPT !.requests = Tail(@), !.responses = Append(@, batch)]
    BY <1>6 DEF ServerHandles
  <2>2. LET a == Append(remote.responses, batch) IN
        /\ a \in Seq(Batch) /\ Len(a) = Len(remote.responses) + 1
        /\ a \o Tail(remote.requests) = remote.pipeline
        /\ SubSeq(remote.pipeline, 1, Len(a)) = a
    BY <1>1, <1>2, <1>5, HeadMoves, ZenonT(40)
  <2>3. /\ remote' \in Remote
        /\ remote'.pipeline = remote.pipeline /\ remote'.state = remote.state
        /\ remote'.handshake = remote.handshake /\ remote'.idle = remote.idle
        /\ remote'.closes = remote.closes /\ remote'.asks = remote.asks
        /\ remote'.requests = Tail(remote.requests) /\ remote'.hello = remote.hello
        /\ remote'.responses = Append(remote.responses, batch)
        /\ remote'.ended = remote.ended
    BY <1>1, <1>3, <2>1, <2>2, ZenonT(40) DEF Remote
  <2> HIDE DEF batch
  <2>4. Orderly(remote')
    BY <1>1, <1>4, <2>3 DEF Orderly
  <2>5. InStep(remote')
    <3>1. \A i, j, k \in Nat : i + j <= k => (i + 1) + (j - 1) <= k
      OBVIOUS
    <3>2. Len(remote'.responses) + Len(remote'.requests) <= Len(remote'.pipeline)
      <4>1. Len(remote'.responses) = Len(remote.responses) + 1
        BY <2>2, <2>3
      <4>2. Len(remote'.requests) = Len(remote.requests) - 1 /\ remote'.pipeline = remote.pipeline
        BY <1>3, <2>3
      <4> QED BY <1>3, <1>5, <3>1, <4>1, <4>2
    <3> QED BY <2>2, <2>3, <3>2 DEF InStep
  <2>6. ~crash' /\ Queues' /\ InOrder'
    BY <1>2, <2>3, <2>4, <2>5, PipelineUntouched DEF identity, syncEngine, localStore
  <2>7. TypeOK'
    BY <1>1, <1>2, <1>3, <2>1, <2>3 DEF IInv, TypeOK, identity, syncEngine, localStore, budget
  <2> QED BY <2>6, <2>7 DEF IInv
<1>7. CASE ~Accepts(remote.user, batch)
  <2>1. /\ refused' = refused \cup {batch} /\ applied' = applied
        /\ remote' = [remote EXCEPT !.requests = Tail(@), !.ended = "PermissionDenied"]
    BY <1>7 DEF ServerHandles
  <2>2. "PermissionDenied" \in Code \cup {"none"}
    BY DEF Code
  <2>3. /\ remote' \in Remote
        /\ remote'.pipeline = remote.pipeline /\ remote'.state = remote.state
        /\ remote'.handshake = remote.handshake /\ remote'.idle = remote.idle
        /\ remote'.closes = remote.closes /\ remote'.asks = remote.asks
        /\ remote'.requests = Tail(remote.requests) /\ remote'.hello = remote.hello
        /\ remote'.responses = remote.responses /\ remote'.ended = "PermissionDenied"
    BY <1>1, <1>3, <2>1, <2>2 DEF Remote
  <2> HIDE DEF batch
  <2>4. Orderly(remote')
    BY <1>1, <1>4, <2>3 DEF Orderly
  <2>5. InStep(remote')
    <3>2. Len(remote'.responses) + Len(remote'.requests) <= Len(remote'.pipeline)
      BY <1>3, <1>5, <2>3, Sums
    <3> QED BY <1>5, <2>3, <3>2 DEF InStep
  <2>6. ~crash' /\ Queues' /\ InOrder'
    BY <1>2, <2>3, <2>4, <2>5, PipelineUntouched DEF identity, syncEngine, localStore
  <2>7. TypeOK'
    BY <1>1, <1>2, <1>3, <2>1, <2>3 DEF IInv, TypeOK, identity, syncEngine, localStore, budget
  <2> QED BY <2>6, <2>7 DEF IInv
<1> QED BY <1>6, <1>7

\* Of the responses on their way the first arrive.
LEMMA RpcBreaksStep == ASSUME IInv, NEW code \in FaultCodes, RpcBreaks(code) PROVE IInv'
<1>1. /\ remote \in Remote /\ Orderly(remote) /\ InStep(remote)
      /\ remote.responses \in Seq(Batch) /\ remote.requests \in Seq(Batch) /\ remote.pipeline \in Seq(Batch)
      /\ code \in Code /\ code # "none"
  BY FaultCodesAssumption DEF IInv, TypeOK, InOrder, Remote, Code
<1>2. /\ faults < MaxFaults /\ remote.state = "open" /\ faults' = faults + 1
      /\ UNCHANGED <<identity, workerQ, syncEngine, localStore, backend, told, issued, changes, crash>>
  BY DEF RpcBreaks
<1>3. PICK n \in 0 .. Len(remote.responses) :
          remote' = [remote EXCEPT !.ended = code, !.responses = SubSeq(@, 1, n)]
  BY DEF RpcBreaks
<1> DEFINE a == SubSeq(remote.responses, 1, n)
<1>4. /\ a \in Seq(Batch) /\ Len(a) = n /\ n \in Nat /\ n <= Len(remote.responses)
      /\ Len(remote.responses) \in Nat /\ Len(remote.requests) \in Nat /\ Len(remote.pipeline) \in Nat
      /\ \A i \in 1 .. n : a[i] = remote.responses[i]
  BY <1>1
<1>5. /\ remote' \in Remote
      /\ remote'.pipeline = remote.pipeline /\ remote'.state = remote.state
      /\ remote'.handshake = remote.handshake /\ remote'.idle = remote.idle
      /\ remote'.closes = remote.closes /\ remote'.asks = remote.asks
      /\ remote'.requests = remote.requests /\ remote'.hello = remote.hello
      /\ remote'.responses = a /\ remote'.ended = code
  BY <1>1, <1>3, <1>4 DEF Remote
<1>6. remote.responses = <<>> => a = <<>>
  BY <1>4
<1> HIDE DEF a
<1>7. Orderly(remote')
  BY <1>1, <1>2, <1>5, <1>6 DEF Orderly, IsStarted
<1>8. InStep(remote')
  <2> SUFFICES ASSUME remote.handshake
               PROVE  /\ Len(a) + Len(remote.requests) <= Len(remote.pipeline)
                      /\ a = SubSeq(remote.pipeline, 1, Len(a))
    BY <1>1, <1>5 DEF InStep
  <2>1. /\ Len(remote.responses) + Len(remote.requests) <= Len(remote.pipeline)
        /\ remote.responses = SubSeq(remote.pipeline, 1, Len(remote.responses))
    BY <1>1 DEF InStep
  <2>3. /\ Len(a) + Len(remote.requests) <= Len(remote.pipeline) /\ n <= Len(remote.pipeline)
        /\ Len(remote.responses) <= Len(remote.pipeline)
    BY <1>4, <2>1, Sums, ZenonT(40)
  <2> DEFINE b == SubSeq(remote.pipeline, 1, n)
  <2>4. b \in Seq(Batch) /\ Len(b) = n /\ \A i \in 1 .. n : b[i] = remote.pipeline[i]
    BY <1>1, <1>4, <2>3
  <2>5. \A i \in 1 .. Len(remote.responses) : remote.responses[i] = remote.pipeline[i]
    BY <1>1, <1>4, <2>1, <2>3
  <2> HIDE DEF b
  <2>6. \A i \in 1 .. n : a[i] = b[i]
    BY <1>4, <2>4, <2>5
  <2>7. a = b
    BY <1>4, <2>4, <2>6, SeqEqual
  <2> QED BY <1>4, <2>3, <2>7 DEF b
<1>9. ~crash' /\ Queues' /\ InOrder'
  BY <1>2, <1>5, <1>7, <1>8, PipelineUntouched DEF identity, syncEngine, localStore
<1>10. TypeOK'
  <2>1. faults' \in 0 .. MaxFaults
    BY <1>2, WriteBoundsAssumption DEF IInv, TypeOK
  <2> QED BY <1>2, <1>5, <2>1 DEF IInv, TypeOK, identity, syncEngine, localStore, backend
<1> QED BY <1>9, <1>10 DEF IInv

LEMMA StrayArrivesStep == ASSUME IInv, NEW stray \in remote.strays, StrayArrives(stray) PROVE IInv'
<1> DEFINE batch == Head(stray.requests)
           rest == Tail(stray.requests)
           s == (remote.strays \ {stray}) \cup
                    (IF rest = <<>> THEN {} ELSE {[stray EXCEPT !.requests = rest]})
           t == remote.strays \ {stray}
<1>1. /\ remote \in Remote /\ Orderly(remote) /\ InStep(remote)
      /\ applied \subseteq Batch /\ refused \subseteq Batch
      /\ remote.strays \subseteq Stray /\ stray \in Stray
  BY DEF IInv, TypeOK, InOrder, Remote
<1>2. batch \in Batch /\ s \subseteq Stray /\ t \subseteq Stray
  <2>1. stray.requests \in Seq(Batch) /\ stray.requests # <<>>
    BY <1>1 DEF Stray
  <2>2. batch \in Batch /\ rest \in Seq(Batch)
    BY <2>1
  <2> HIDE DEF batch, rest
  <2>3. rest # <<>> => [stray EXCEPT !.requests = rest] \in Stray
    BY <1>1, <2>2 DEF Stray
  <2> QED BY <1>1, <2>2, <2>3
<1>3. /\ \/ applied' = applied \cup {batch} /\ refused' = refused /\ remote' = [remote EXCEPT !.strays = s]
         \/ applied' = applied /\ refused' = refused \cup {batch} /\ remote' = [remote EXCEPT !.strays = t]
      /\ UNCHANGED <<identity, workerQ, syncEngine, localStore, told, budget, crash>>
  BY <1>1 DEF StrayArrives, Remote
<1> HIDE DEF batch, s, t
<1>4. /\ remote' \in Remote
      /\ remote'.pipeline = remote.pipeline /\ remote'.state = remote.state
      /\ remote'.handshake = remote.handshake /\ remote'.idle = remote.idle
      /\ remote'.closes = remote.closes /\ remote'.asks = remote.asks
      /\ remote'.requests = remote.requests /\ remote'.hello = remote.hello
      /\ remote'.responses = remote.responses /\ remote'.ended = remote.ended
  BY <1>1, <1>2, <1>3 DEF Remote
<1>5. Orderly(remote') /\ InStep(remote')
  BY <1>1, <1>4 DEF Orderly, InStep, IsStarted
<1>6. ~crash' /\ Queues' /\ InOrder'
  BY <1>3, <1>4, <1>5, PipelineUntouched DEF identity, syncEngine, localStore
<1>7. applied' \subseteq Batch /\ refused' \subseteq Batch
  BY <1>1, <1>2, <1>3
<1>8. TypeOK'
  BY <1>3, <1>4, <1>7 DEF IInv, TypeOK, identity, syncEngine, localStore, budget
<1> QED BY <1>6, <1>8 DEF IInv

------------------------------------------------------------------------------
(* The steps of the worker *)

LEMMA CredentialStep == ASSUME IInv, HandleCredentialChange PROVE IInv'
<1> DEFINE u == Head(workerQ).user
<1>1. /\ Worker /\ workerQ # <<>> /\ Head(workerQ).kind = "credential" /\ workerQ' = Tail(workerQ)
      /\ currentUser' = u /\ remote' = RestartNetwork(remote, queue[u], tokenCounter)
      /\ UNCHANGED <<identity, callbacks, acking, queue, backend, told, budget, crash>>
  BY DEF HandleCredentialChange, NextOnWorker
<1>2. /\ remote \in Remote /\ Orderly(remote) /\ mainQ \in Seq(MainBlock)
      /\ workerQ \in Seq(WorkerBlock) /\ Tokens(remote, mainQ, workerQ) /\ tokenCounter \in Nat
  BY <1>1, BeforeATurn
<1>3. u \in Anybody
  <2>1. Head(workerQ) \in WorkerBlock
    BY <1>1, <1>2
  <2> QED BY <1>1, <2>1 DEF WorkerBlock, Anybody
<1> HIDE DEF u
<1>4. queue[u] \in Seq(Batch) /\ Sorted(queue[u])
  BY <1>3 DEF IInv, TypeOK, Queues
<1>5. Tail(workerQ) \in Seq(WorkerBlock) /\ Tokens(remote, mainQ, Tail(workerQ))
  BY <1>1, <1>2, TailOfWorker
<1>6. Sound(remote', queue[u], mainQ, Tail(workerQ))
  BY <1>1, <1>2, <1>4, <1>5, RestartIsSound
<1>7. remote' \in Remote /\ InOrder'
  BY <1>1, <1>6, AfterATurn DEF Worker, identity
<1>8. nextId' \in Nat \ {0} /\ \A v \in Anybody : \A i \in DOMAIN queue[v] : queue[v][i].id < nextId'
  <2>1. CASE currentUser' # currentUser
    <3>1. nextId' \in 1 .. MaxWrites + 1 /\ IsNextBatchId(nextId', queue)
      BY <2>1 DEF HandleCredentialChange
    <3>2. DOMAIN queue = Anybody
      BY DEF IInv, TypeOK
    <3>3. \A v \in Anybody : \A i \in DOMAIN queue[v] : queue[v][i].id < nextId'
      BY <3>1, <3>2 DEF IsNextBatchId
    <3>4. nextId' \in Nat \ {0}
      BY <3>1, WriteBoundsAssumption
    <3> QED BY <3>3, <3>4
  <2>2. CASE currentUser' = currentUser
    <3>1. nextId' = nextId
      BY <2>2 DEF HandleCredentialChange
    <3> QED BY <3>1 DEF IInv, TypeOK, Queues
  <2> QED BY <2>1, <2>2
<1>9. Queues'
  BY <1>1, <1>8 DEF IInv, Queues
<1>10. TypeOK'
  BY <1>1, <1>3, <1>5, <1>7, <1>8 DEF IInv, TypeOK, identity, backend, budget
<1>11. ~crash'
  BY <1>1 DEF IInv
<1> QED BY <1>7, <1>9, <1>10, <1>11 DEF IInv

\* A batch with an id above those of a queue is put behind it.
LEMMA BehindTheQueue ==
    ASSUME NEW q \in Seq(Batch), Sorted(q), NEW x \in Batch, \A i \in DOMAIN q : q[i].id < x.id,
           NEW p, Fits(p, q)
    PROVE  /\ Append(q, x) \in Seq(Batch) /\ Sorted(Append(q, x)) /\ Fits(p, Append(q, x))
           /\ \A i \in DOMAIN Append(q, x) : Append(q, x)[i].id < x.id + 1
<1> DEFINE a == Append(q, x)
<1>1. /\ a \in Seq(Batch) /\ Len(a) = Len(q) + 1 /\ a[Len(q) + 1] = x
      /\ \A i \in 1 .. Len(q) : a[i] = q[i]
      /\ Len(q) \in Nat /\ DOMAIN q = 1 .. Len(q) /\ DOMAIN a = 1 .. Len(q) + 1
  BY AppendProperties
<1>2. x.id \in Nat /\ \A i \in DOMAIN q : q[i].id \in Nat
  BY <1>1, BatchIds
<1>3. SubSeq(a, 1, Len(p)) = SubSeq(q, 1, Len(p)) /\ Len(p) <= Len(a)
  <2>1. Len(p) <= Len(q) /\ p = SubSeq(q, 1, Len(p)) /\ Len(p) \in Nat
    <3>1. Len(p) <= Len(q) /\ p = SubSeq(q, 1, Len(p))
      BY DEF Fits, Front
    <3>2. SubSeq(q, 1, Len(p)) \in Seq(Batch)
      BY <1>1, <3>1
    <3> QED BY <3>1, <3>2
  <2> DEFINE b == SubSeq(q, 1, Len(p))
             c == SubSeq(a, 1, Len(p))
  <2>2. b \in Seq(Batch) /\ Len(b) = Len(p) /\ \A i \in 1 .. Len(p) : b[i] = q[i]
    BY <1>1, <2>1
  <2>3. Len(p) <= Len(a)
    BY <1>1, <2>1
  <2>4. c \in Seq(Batch) /\ Len(c) = Len(p) /\ \A i \in 1 .. Len(p) : c[i] = a[i]
    BY <1>1, <2>1, <2>3
  <2>5. \A i \in 1 .. Len(p) : i \in 1 .. Len(q)
    BY <1>1, <2>1
  <2> HIDE DEF b, c
  <2>6. b = c
    BY <1>1, <2>2, <2>4, <2>5, SeqEqual
  <2> QED BY <2>3, <2>6 DEF b, c
<1>4. \A i \in DOMAIN a : i \in DOMAIN q \/ i = Len(q) + 1
  BY <1>1
<1> HIDE DEF a
<1>5. Sorted(a)
  <2> SUFFICES ASSUME NEW i \in DOMAIN a, NEW j \in DOMAIN a, i < j PROVE a[i].id < a[j].id
    BY DEF Sorted
  <2>1. i \in DOMAIN q
    BY <1>1
  <2>2. CASE j \in DOMAIN q
    BY <1>1, <2>1, <2>2 DEF Sorted
  <2>3. CASE j = Len(q) + 1
    BY <1>1, <2>1, <2>3
  <2> QED BY <1>4, <2>2, <2>3
<1>6. Fits(p, a)
  BY <1>3 DEF Fits, Front, a
<1>7. \A i \in DOMAIN a : a[i].id < x.id + 1
  BY <1>1, <1>2, <1>4
<1> QED BY <1>1, <1>5, <1>6, <1>7 DEF a

LEMMA BelowTheNext == ASSUME NEW k \in Nat, NEW n \in Nat, k < n PROVE k < n + 1
OBVIOUS

LEMMA HandleWriteStep == ASSUME IInv, HandleWrite PROVE IInv'
<1> DEFINE write == Head(workerQ)
           batch == [id |-> nextId, user |-> write.user, doc |-> write.doc, ok |-> write.ok]
           q == queue[currentUser]
<1>1. /\ Worker /\ workerQ # <<>> /\ write.kind = "write" /\ workerQ' = Tail(workerQ)
      /\ queue' = [queue EXCEPT ![currentUser] = Append(q, batch)]
      /\ callbacks' = [callbacks EXCEPT ![currentUser] = Registered(@, batch)]
      /\ nextId' = nextId + 1
      /\ remote' = FillWritePipeline(remote, queue'[currentUser], tokenCounter)
      /\ UNCHANGED <<identity, currentUser, acking, backend, told, budget, crash>>
  BY DEF HandleWrite, NextOnWorker
<1>2. /\ remote \in Remote /\ Orderly(remote) /\ InStep(remote) /\ mainQ \in Seq(MainBlock)
      /\ q \in Seq(Batch) /\ Sorted(q) /\ Fits(remote.pipeline, q)
      /\ workerQ \in Seq(WorkerBlock) /\ Tokens(remote, mainQ, workerQ) /\ tokenCounter \in Nat
  BY <1>1, BeforeATurn
<1>3. /\ currentUser \in Anybody /\ nextId \in Nat \ {0} /\ \A i \in DOMAIN q : q[i].id < nextId
      /\ queue \in [Anybody -> Seq(Batch)]
      /\ callbacks \in [Anybody -> SUBSET [id : Nat \ {0}, doc : Doc]]
  BY DEF IInv, TypeOK, Queues
<1>4. batch \in Batch /\ batch.id = nextId /\ batch.doc \in Doc
  <2>1. write \in WorkerBlock
    BY <1>1, <1>2
  <2>2. write.user \in Users /\ write.doc \in Doc /\ write.ok \in BOOLEAN
    BY <1>1, <2>1 DEF WorkerBlock
  <2> HIDE DEF write
  <2> QED BY <1>3, <2>2 DEF Batch
<1> HIDE DEF batch, q
<1>5. /\ Append(q, batch) \in Seq(Batch) /\ Sorted(Append(q, batch))
      /\ Fits(remote.pipeline, Append(q, batch))
      /\ \A i \in DOMAIN Append(q, batch) : Append(q, batch)[i].id < nextId + 1
  BY <1>2, <1>3, <1>4, BehindTheQueue
<1>6. queue'[currentUser] = Append(q, batch) /\ queue' \in [Anybody -> Seq(Batch)]
  BY <1>1, <1>3, <1>5
<1>7. Tail(workerQ) \in Seq(WorkerBlock) /\ Tokens(remote, mainQ, Tail(workerQ))
  BY <1>1, <1>2, TailOfWorker
<1>8. Sound(remote', queue'[currentUser], mainQ, Tail(workerQ))
  BY <1>1, <1>2, <1>5, <1>6, <1>7, FillIsSound
<1>9. remote' \in Remote /\ InOrder'
  BY <1>1, <1>8, AfterATurn DEF Worker, identity
<1>10. Queues'
  <2> SUFFICES ASSUME NEW u \in Anybody
               PROVE  Sorted(queue'[u]) /\ \A i \in DOMAIN queue'[u] : queue'[u][i].id < nextId'
    BY DEF Queues
  <2>1. CASE u = currentUser
    BY <1>1, <1>5, <1>6, <2>1
  <2>2. CASE u # currentUser
    <3>1. queue'[u] = queue[u]
      BY <1>1, <1>3, <2>2
    <3>2. Sorted(queue[u]) /\ queue[u] \in Seq(Batch) /\ \A i \in DOMAIN queue[u] : queue[u][i].id < nextId
      BY <1>3 DEF IInv, Queues
    <3>3. \A i \in DOMAIN queue[u] : queue[u][i].id \in Nat
      BY <3>2, BatchIds
    <3>5. \A i \in DOMAIN queue[u] : queue[u][i].id < nextId + 1
      BY <1>3, <3>2, <3>3, BelowTheNext
    <3> QED BY <1>1, <3>1, <3>2, <3>5
  <2> QED BY <2>1, <2>2
<1>11. callbacks' \in [Anybody -> SUBSET [id : Nat \ {0}, doc : Doc]]
  <2>1. ASSUME NEW cs \in SUBSET [id : Nat \ {0}, doc : Doc]
        PROVE  Registered(cs, batch) \in SUBSET [id : Nat \ {0}, doc : Doc]
    BY <1>3, <1>4 DEF Registered
  <2> QED BY <1>1, <1>3, <2>1
<1>12. TypeOK'
  BY <1>1, <1>3, <1>6, <1>7, <1>9, <1>11, SMTT(20) DEF IInv, TypeOK, identity, backend, budget
<1>13. ~crash'
  BY <1>1 DEF IInv
<1> QED BY <1>9, <1>10, <1>12, <1>13 DEF IInv

\* A turn that leaves the queues alone.
LEMMA QueuesUntouched ==
    ASSUME IInv, Sound(remote', queue[currentUser], mainQ', workerQ'), acking' = <<>>,
           UNCHANGED <<queue, nextId, currentUser>>
    PROVE  remote' \in Remote /\ Queues' /\ InOrder'
<1>1. remote' \in Remote /\ InOrder'
  BY AfterATurn
<1>2. Queues'
  BY DEF IInv, Queues
<1> QED BY <1>1, <1>2

\* Only a stream that waits for its token gets it.
LEMMA ResumeStartStep == ASSUME IInv, ResumeStart PROVE IInv'
<1> DEFINE token == Head(workerQ)
           q == queue[currentUser]
<1>1. /\ Worker /\ workerQ # <<>> /\ token.kind = "token" /\ workerQ' = Tail(workerQ)
      /\ UNCHANGED <<identity, syncEngine, localStore, backend, told, budget>>
  BY DEF ResumeStart, NextOnWorker
<1>2. /\ remote \in Remote /\ Orderly(remote) /\ InStep(remote) /\ Running(remote)
      /\ mainQ \in Seq(MainBlock) /\ q \in Seq(Batch) /\ Sorted(q) /\ Filled(remote.pipeline, q)
      /\ workerQ \in Seq(WorkerBlock) /\ Tokens(remote, mainQ, workerQ) /\ tokenCounter \in Nat
  BY <1>1, BeforeATurn
<1>3. token.user \in Anybody
  <2>1. token \in WorkerBlock
    BY <1>1, <1>2
  <2> QED BY <1>1, <2>1 DEF WorkerBlock
<1>4. /\ Tail(workerQ) \in Seq(WorkerBlock) /\ Tokens(remote, mainQ, Tail(workerQ))
      /\ token.closes = remote.closes =>
             NoToken(remote, mainQ, Tail(workerQ)) /\ remote.state = "starting"
  BY <1>1, <1>2, TailOfWorker
<1> HIDE DEF token, q
<1>5. ~crash' /\ Sound(remote', q, mainQ, Tail(workerQ))
  <2>1. CASE token.closes # remote.closes
    <3>1. remote' = remote /\ crash' = crash
      BY <2>1 DEF ResumeStart, token
    <3> QED BY <1>2, <1>4, <3>1 DEF Sound, IInv
  <2>2. CASE token.closes = remote.closes /\ token.ok
    <3>1. ~crash' /\ remote' = [remote EXCEPT !.state = "open", !.user = token.user, !.hello = "asked"]
      BY <1>4, <2>2 DEF ResumeStart, token
    <3>2. /\ remote' \in Remote
          /\ remote'.pipeline = remote.pipeline /\ remote'.state = "open"
          /\ remote'.handshake = remote.handshake /\ remote'.idle = remote.idle
          /\ remote'.closes = remote.closes /\ remote'.asks = remote.asks
          /\ remote'.requests = remote.requests /\ remote'.responses = remote.responses
          /\ remote'.ended = remote.ended
      BY <1>2, <1>3, <3>1 DEF Remote
    <3>3. Orderly(remote') /\ InStep(remote') /\ Running(remote')
      BY <1>2, <1>4, <2>2, <3>2 DEF Orderly, InStep, Running, IsStarted
    <3>4. NoToken(remote', mainQ, Tail(workerQ))
      BY <1>4, <2>2, <3>2 DEF NoToken, AsksNow, MainNow, WorkerNow
    <3>5. Tokens(remote', mainQ, Tail(workerQ))
      BY <1>4, <3>2, <3>4 DEF Tokens, NoToken
    <3> QED BY <1>2, <3>1, <3>2, <3>3, <3>5 DEF Sound
  <2>3. CASE token.closes = remote.closes /\ ~token.ok
    <3>1. ~crash' /\ remote' = OnWriteStreamClose(remote, "Unknown", q, tokenCounter)
      BY <1>4, <2>3 DEF ResumeStart, token, q
    <3>2. ~RejectsFront(remote, "Unknown")
      BY DEF RejectsFront, IsPermanentWriteError
    <3> QED BY <1>2, <1>4, <3>1, <3>2, CloseIsSound
  <2> QED BY <2>1, <2>2, <2>3
<1>6. remote' \in Remote /\ Queues' /\ InOrder'
  BY <1>1, <1>5, QueuesUntouched DEF Worker, identity, syncEngine, localStore, q
<1>7. crash' \in BOOLEAN
  <2>1. crash' = crash \/ crash' = (remote.state # "starting")
    BY DEF ResumeStart
  <2>2. (remote.state # "starting") \in BOOLEAN
    OBVIOUS
  <2> QED BY <2>1, <2>2 DEF IInv, TypeOK
<1>8. TypeOK'
  BY <1>1, <1>4, <1>6, <1>7 DEF IInv, TypeOK, identity, syncEngine, localStore, backend, budget
<1> QED BY <1>5, <1>6, <1>8 DEF IInv

LEMMA BackoffStep == ASSUME IInv, BackoffElapses PROVE IInv'
<1> DEFINE ask == [closes |-> remote.closes, counter |-> tokenCounter, user |-> <<>>]
           q == queue[currentUser]
<1>1. /\ Worker /\ remote.state = "backoff"
      /\ remote' = Start([remote EXCEPT !.state = "initial"], tokenCounter)
      /\ UNCHANGED <<identity, workerQ, syncEngine, localStore, backend, told, budget, crash>>
  BY DEF BackoffElapses
<1>2. /\ remote \in Remote /\ Orderly(remote) /\ InStep(remote) /\ Running(remote)
      /\ Filled(remote.pipeline, q)
      /\ Tokens(remote, mainQ, workerQ) /\ tokenCounter \in Nat
  BY <1>1, BeforeATurn
<1>3. remote' = [remote EXCEPT !.state = "starting", !.asks = remote.asks \cup {ask}]
  BY <1>1, <1>2 DEF Start, Remote
<1>4. ask \in Ask /\ ask.closes = remote.closes /\ remote.closes \in Nat
  BY <1>2 DEF Ask, Remote
<1> HIDE DEF ask, q
<1>5. /\ remote' \in Remote
      /\ remote'.pipeline = remote.pipeline /\ remote'.state = "starting"
      /\ remote'.handshake = remote.handshake /\ remote'.idle = remote.idle
      /\ remote'.closes = remote.closes /\ remote'.asks = remote.asks \cup {ask}
      /\ remote'.requests = remote.requests /\ remote'.responses = remote.responses
      /\ remote'.hello = remote.hello /\ remote'.ended = remote.ended
  BY <1>2, <1>3, <1>4 DEF Remote
<1>6. Orderly(remote') /\ InStep(remote') /\ Running(remote')
  BY <1>1, <1>2, <1>5 DEF Orderly, InStep, Running, IsStarted
<1>7. Tokens(remote', mainQ, workerQ)
  <2>1. NoToken(remote, mainQ, workerQ)
    BY <1>1, <1>2 DEF Tokens
  <2>2. AsksNow(remote') = {ask}
    BY <1>4, <1>5, <2>1 DEF AsksNow, NoToken
  <2>3. MainNow(remote', mainQ) = {} /\ WorkerNow(remote', workerQ) = {}
    BY <1>5, <2>1 DEF MainNow, WorkerNow, NoToken
  <2>4. \A a \in remote'.asks : a.closes <= remote'.closes
    BY <1>2, <1>4, <1>5 DEF Tokens
  <2> QED BY <1>2, <1>5, <2>2, <2>3, <2>4 DEF Tokens
<1>8. Sound(remote', q, mainQ, workerQ)
  BY <1>2, <1>5, <1>6, <1>7 DEF Sound
<1>9. remote' \in Remote /\ Queues' /\ InOrder'
  BY <1>1, <1>8, QueuesUntouched DEF Worker, identity, syncEngine, localStore, q
<1>10. TypeOK' /\ ~crash'
  BY <1>1, <1>9 DEF IInv, TypeOK, identity, syncEngine, localStore, backend, budget
<1> QED BY <1>9, <1>10 DEF IInv

\* A stream that is idle has nothing to write.
LEMMA IdleTimeoutStep == ASSUME IInv, IdleTimeout PROVE IInv'
<1> DEFINE q == queue[currentUser]
<1>1. /\ Worker /\ remote.idle /\ remote' = Stop(remote) /\ crash' = ShouldStartWriteStream(remote')
      /\ UNCHANGED <<identity, workerQ, syncEngine, localStore, backend, told, budget>>
  BY DEF IdleTimeout
<1>2. /\ remote \in Remote /\ Orderly(remote) /\ Filled(remote.pipeline, q)
      /\ mainQ \in Seq(MainBlock) /\ workerQ \in Seq(WorkerBlock) /\ Tokens(remote, mainQ, workerQ)
  BY <1>1, BeforeATurn
<1> HIDE DEF q
<1>3. remote.state = "open" /\ remote.pipeline = <<>> /\ IsStarted(remote)
  BY <1>1, <1>2 DEF Orderly, IsStarted
<1>4. Stopped(remote', remote) /\ remote'.pipeline = remote.pipeline
  BY <1>1, <1>2, <1>3, StopFields
<1>5. ~crash'
  BY <1>1, <1>3, <1>4 DEF ShouldStartWriteStream
<1>6. Orderly(remote') /\ InStep(remote') /\ Running(remote') /\ remote' \in Remote
  BY <1>3, <1>4 DEF Stopped, Orderly, InStep, Running, IsStarted
<1>7. Tokens(remote', mainQ, workerQ)
  BY <1>2, <1>3, <1>4, ClosedTokens DEF Stopped
<1>8. Sound(remote', q, mainQ, workerQ)
  BY <1>2, <1>4, <1>6, <1>7 DEF Sound
<1>9. Queues' /\ InOrder'
  BY <1>1, <1>8, QueuesUntouched DEF Worker, identity, syncEngine, localStore, q
<1>10. crash' \in BOOLEAN
  BY <1>1 DEF ShouldStartWriteStream
<1>11. TypeOK'
  BY <1>1, <1>6, <1>10 DEF IInv, TypeOK, identity, syncEngine, localStore, backend, budget
<1> QED BY <1>5, <1>9, <1>11 DEF IInv

LEMMA NetworkChangesStep == ASSUME IInv, NetworkChanges PROVE IInv'
<1>1. /\ Worker /\ faults < MaxFaults /\ faults' = faults + 1
      /\ remote' = RestartNetwork(remote, queue[currentUser], tokenCounter)
      /\ UNCHANGED <<identity, workerQ, syncEngine, localStore, backend, told, issued, changes, crash>>
  BY DEF NetworkChanges
<1>2. Sound(remote', queue[currentUser], mainQ, workerQ)
  BY <1>1, BeforeATurn, RestartIsSound
<1>3. remote' \in Remote /\ Queues' /\ InOrder'
  BY <1>1, <1>2, QueuesUntouched DEF Worker, identity, syncEngine, localStore
<1>4. faults' \in 0 .. MaxFaults
  BY <1>1, WriteBoundsAssumption DEF IInv, TypeOK
<1>5. TypeOK' /\ ~crash'
  BY <1>1, <1>3, <1>4 DEF IInv, TypeOK, identity, syncEngine, localStore, backend
<1> QED BY <1>3, <1>5 DEF IInv

\* All of the pipeline is sent, nothing of it was before.
LEMMA HandshakeStep == ASSUME IInv, OnHandshakeComplete PROVE IInv'
<1> DEFINE q == queue[currentUser]
           y == [remote EXCEPT !.hello = "none", !.handshake = TRUE]
<1>1. /\ Worker /\ remote.hello = "answered" /\ remote' = WriteMutations(y, remote.pipeline)
      /\ UNCHANGED <<identity, workerQ, syncEngine, localStore, backend, told, budget, crash>>
  BY DEF OnHandshakeComplete
<1>2. /\ remote \in Remote /\ Orderly(remote) /\ InStep(remote) /\ Running(remote)
      /\ Filled(remote.pipeline, q) /\ Tokens(remote, mainQ, workerQ)
      /\ remote.pipeline \in Seq(Batch)
  BY <1>1, BeforeATurn DEF Remote
<1>3. /\ remote.state = "open" /\ ~remote.handshake /\ remote.pipeline # <<>>
      /\ remote.requests = <<>> /\ remote.responses = <<>>
  BY <1>1, <1>2 DEF Orderly, IsStarted
<1>4. y \in Remote /\ y.requests = <<>>
  BY <1>2, <1>3 DEF Remote
<1>5. <<>> \o remote.pipeline = remote.pipeline
  BY <1>2, ConcatEmptySeq
<1>6. remote' = [y EXCEPT !.requests = remote.pipeline, !.idle = FALSE]
  BY <1>1, <1>3, <1>4, <1>5 DEF WriteMutations, Remote
<1> HIDE DEF q
<1>7. /\ remote' \in Remote
      /\ remote'.pipeline = remote.pipeline /\ remote'.state = remote.state
      /\ remote'.handshake /\ ~remote'.idle
      /\ remote'.closes = remote.closes /\ remote'.asks = remote.asks
      /\ remote'.requests = remote.pipeline /\ remote'.responses = <<>>
      /\ remote'.hello = "none" /\ remote'.ended = remote.ended
  BY <1>2, <1>3, <1>6 DEF Remote
<1>8. Orderly(remote') /\ Running(remote')
  BY <1>3, <1>7 DEF Orderly, Running, IsStarted
<1>9. InStep(remote')
  <2>1. Len(<<>>) = 0 /\ SubSeq(remote.pipeline, 1, 0) = <<>> /\ Len(remote.pipeline) \in Nat
    BY <1>2
  <2>2. 0 + Len(remote.pipeline) <= Len(remote.pipeline)
    BY <2>1
  <2> QED BY <1>5, <1>7, <2>1, <2>2 DEF InStep
<1>10. Tokens(remote', mainQ, workerQ)
  BY <1>2, <1>7, SameTokens
<1>11. Sound(remote', q, mainQ, workerQ)
  BY <1>2, <1>7, <1>8, <1>9, <1>10 DEF Sound
<1>12. remote' \in Remote /\ Queues' /\ InOrder'
  BY <1>1, <1>11, QueuesUntouched DEF Worker, identity, syncEngine, localStore, q
<1>13. TypeOK' /\ ~crash'
  BY <1>1, <1>12 DEF IInv, TypeOK, identity, syncEngine, localStore, backend, budget
<1> QED BY <1>12, <1>13 DEF IInv

\* What is done with the caller of a write disturbs neither types nor tokens.
LEMMA AnswersAreNoTokens ==
    ASSUME TypeOK, NEW batch \in Batch, NEW answer \in {"ok", "failed"},
           NEW r, NEW w, Tokens(r, mainQ, w)
    PROVE  /\ mainQ \o Answers(batch, answer) \in Seq(MainBlock)
           /\ Tokens(r, mainQ \o Answers(batch, answer), w)
           /\ Unregistered(batch) \in [Anybody -> SUBSET [id : Nat \ {0}, doc : Doc]]
<1> DEFINE cs == callbacks[currentUser]
           m == mainQ \o Answers(batch, answer)
<1>1. /\ mainQ \in Seq(MainBlock) /\ currentUser \in Anybody
      /\ callbacks \in [Anybody -> SUBSET [id : Nat \ {0}, doc : Doc]]
  BY DEF TypeOK
<1>2. cs \subseteq [id : Nat \ {0}, doc : Doc]
  BY <1>1
<1>3. m \in Seq(MainBlock) /\ Tokens(r, m, w)
  <2>1. CASE \E c \in cs : c.id = batch.id
    <3> DEFINE d == (CHOOSE c \in cs : c.id = batch.id).doc
               x == [kind |-> "answer", answer |-> answer, doc |-> d]
    <3>1. d \in Doc
      BY <1>2, <2>1
    <3> HIDE DEF d
    <3>2. x \in MainBlock /\ x.kind # "token"
      BY <3>1, AnswerBlock
    <3>3. Answers(batch, answer) = <<x>>
      BY <2>1 DEF Answers, d
    <3> HIDE DEF x
    <3>4. m = Append(mainQ, x)
      BY <1>1, <3>2, <3>3, AppendIsConcat
    <3> HIDE DEF m
    <3> QED BY <1>1, <3>2, <3>4, AppendToMain, AppendProperties
  <2>2. CASE ~\E c \in cs : c.id = batch.id
    <3>1. Answers(batch, answer) = <<>>
      BY <2>2 DEF Answers
    <3>2. m = mainQ
      BY <1>1, <3>1, ConcatEmptySeq
    <3> QED BY <1>1, <3>2
  <2> QED BY <2>1, <2>2
<1>4. Unregistered(batch) \in [Anybody -> SUBSET [id : Nat \ {0}, doc : Doc]]
  BY <1>1 DEF Unregistered
<1> QED BY <1>3, <1>4

LEMMA HeadsAndTails ==
    ASSUME NEW a \in Seq(Batch), a # <<>>, NEW b \in Seq(Batch)
    PROVE  /\ Head(a) \in Batch /\ Tail(a) \in Seq(Batch) /\ Len(Tail(a)) = Len(a) - 1
           /\ <<Head(a)>> \o Tail(a) = a
           /\ Tail(a \o b) = Tail(a) \o b
           /\ a = SubSeq(b, 1, Len(a)) /\ Len(a) <= Len(b) =>
                  Head(a) = Head(b) /\ Tail(a) = SubSeq(Tail(b), 1, Len(Tail(a)))
<1>1. /\ Len(a) \in Nat \ {0} /\ Len(b) \in Nat /\ Head(a) = a[1] /\ Head(a) \in Batch
      /\ Tail(a) \in Seq(Batch) /\ Len(Tail(a)) = Len(a) - 1
      /\ \A i \in 1 .. Len(a) - 1 : Tail(a)[i] = a[i + 1]
  OBVIOUS
<1>2. <<Head(a)>> \o Tail(a) = a
  <2> DEFINE c == <<Head(a)>> \o Tail(a)
  <2>1. <<Head(a)>> \in Seq(Batch) /\ Len(<<Head(a)>>) = 1 /\ <<Head(a)>>[1] = a[1]
    BY <1>1
  <2>2. /\ c \in Seq(Batch) /\ Len(c) = 1 + (Len(a) - 1)
        /\ \A i \in 1 .. 1 + (Len(a) - 1) : c[i] = IF i <= 1 THEN <<Head(a)>>[i] ELSE Tail(a)[i - 1]
    BY <1>1, <2>1, ConcatProperties
  <2> HIDE DEF c
  <2>3. \A i \in 1 .. Len(c) : c[i] = a[i]
    BY <1>1, <2>1, <2>2
  <2>4. Len(c) = Len(a)
    BY <1>1, <2>2
  <2>5. c = a
    BY <2>2, <2>3, <2>4, SeqEqual
  <2> QED BY <2>5 DEF c
<1>3. Tail(a \o b) = Tail(a) \o b
  <2> DEFINE k == a \o b
             l == Tail(a) \o b
  <2>1. /\ k \in Seq(Batch) /\ Len(k) = Len(a) + Len(b)
        /\ \A i \in 1 .. Len(a) + Len(b) : k[i] = IF i <= Len(a) THEN a[i] ELSE b[i - Len(a)]
    BY ConcatProperties
  <2>2. /\ l \in Seq(Batch) /\ Len(l) = (Len(a) - 1) + Len(b)
        /\ \A i \in 1 .. (Len(a) - 1) + Len(b) :
              l[i] = IF i <= Len(a) - 1 THEN Tail(a)[i] ELSE b[i - (Len(a) - 1)]
    BY <1>1, ConcatProperties
  <2> HIDE DEF k, l
  <2>3. k # <<>>
    BY <1>1, <2>1
  <2>4. /\ Tail(k) \in Seq(Batch) /\ Len(Tail(k)) = Len(k) - 1
        /\ \A i \in 1 .. Len(k) - 1 : Tail(k)[i] = k[i + 1]
    BY <2>1, <2>3
  <2>5. ASSUME NEW i \in 1 .. Len(l) PROVE Tail(k)[i] = l[i]
    <3>1. Tail(k)[i] = k[i + 1] /\ i + 1 \in 1 .. Len(a) + Len(b)
      BY <1>1, <2>1, <2>2, <2>4
    <3>2. CASE i <= Len(a) - 1
      <4>1. i \in 1 .. Len(a) - 1 /\ i + 1 <= Len(a)
        BY <1>1, <3>2
      <4> QED BY <1>1, <2>1, <2>2, <3>1, <4>1
    <3>3. CASE i > Len(a) - 1
      <4>1. k[i + 1] = b[i + 1 - Len(a)] /\ l[i] = b[i - (Len(a) - 1)]
        BY <1>1, <2>1, <2>2, <3>1, <3>3
      <4>2. i + 1 - Len(a) = i - (Len(a) - 1)
        BY <1>1
      <4> QED BY <3>1, <4>1, <4>2
    <3>4. i \in Int /\ Len(a) - 1 \in Int
      BY <1>1
    <3>5. i <= Len(a) - 1 \/ i > Len(a) - 1
      BY <3>4
    <3> QED BY <3>2, <3>3, <3>5
  <2>6. Len(Tail(k)) = Len(l)
    BY <1>1, <2>1, <2>2, <2>4
  <2>7. Tail(k) = l
    BY <2>2, <2>4, <2>5, <2>6, SeqEqual
  <2> QED BY <2>7 DEF k, l
<1>4. ASSUME a = SubSeq(b, 1, Len(a)), Len(a) <= Len(b)
      PROVE  Head(a) = Head(b) /\ Tail(a) = SubSeq(Tail(b), 1, Len(Tail(a)))
  <2>1. b # <<>> /\ \A i \in 1 .. Len(a) : a[i] = b[i]
    BY <1>1, <1>4
  <2>2. /\ Tail(b) \in Seq(Batch) /\ Len(Tail(b)) = Len(b) - 1 /\ Head(b) = b[1]
        /\ \A i \in 1 .. Len(b) - 1 : Tail(b)[i] = b[i + 1]
    BY <2>1
  <2> DEFINE c == SubSeq(Tail(b), 1, Len(a) - 1)
  <2>3. c \in Seq(Batch) /\ Len(c) = Len(a) - 1 /\ \A i \in 1 .. Len(a) - 1 : c[i] = Tail(b)[i]
    BY <1>1, <1>4, <2>2
  <2> HIDE DEF c
  <2>4. \A i \in 1 .. Len(a) - 1 : Tail(a)[i] = c[i]
    BY <1>1, <1>4, <2>1, <2>2, <2>3
  <2>5. Tail(a) = c
    BY <1>1, <2>3, <2>4, SeqEqual
  <2>6. Head(a) = Head(b)
    BY <1>1, <2>1, <2>2
  <2> QED BY <1>1, <2>5, <2>6 DEF c
<1> QED BY <1>1, <1>2, <1>3, <1>4

\* The first result unread is for the front of the pipeline.
LEMMA ResultStep == ASSUME IInv, OnMutationResult PROVE IInv'
<1> DEFINE batch == Head(remote.pipeline)
           q == queue[currentUser]
           p == remote.pipeline
<1>1. /\ Worker /\ remote.handshake /\ remote.responses # <<>>
      /\ UNCHANGED <<authUser, knownUser, tokenCounter, workerQ, currentUser, localStore, backend,
                     told, budget>>
  BY DEF OnMutationResult
<1>2. /\ remote \in Remote /\ Orderly(remote) /\ InStep(remote) /\ Filled(p, q)
      /\ Tokens(remote, mainQ, workerQ)
      /\ p \in Seq(Batch) /\ remote.responses \in Seq(Batch) /\ remote.requests \in Seq(Batch)
  BY <1>1, BeforeATurn DEF Remote
<1>3. /\ Len(remote.responses) + Len(remote.requests) <= Len(p)
      /\ remote.responses = SubSeq(p, 1, Len(remote.responses))
      /\ remote.ended = "none" => remote.responses \o remote.requests = p
  BY <1>1, <1>2 DEF InStep
<1>4. /\ Len(remote.responses) \in Nat \ {0} /\ Len(remote.requests) \in Nat /\ Len(p) \in Nat
      /\ Len(remote.responses) <= Len(p) /\ p # <<>>
  <2>1. Len(remote.responses) \in Nat \ {0} /\ Len(remote.requests) \in Nat /\ Len(p) \in Nat
    BY <1>1, <1>2
  <2>2. Len(remote.responses) <= Len(p)
    BY <1>3, <2>1, Sums
  <2>3. p # <<>>
    BY <1>2, <2>1, <2>2
  <2> QED BY <2>1, <2>2, <2>3
<1>5. /\ remote' = [remote EXCEPT !.responses = Tail(@), !.pipeline = Tail(@)]
      /\ mainQ' = mainQ \o Answers(batch, "ok")
      /\ callbacks' = Unregistered(batch)
      /\ acking' = <<batch>>
      /\ crash' = crash
  BY <1>4 DEF OnMutationResult
<1>6. /\ batch \in Batch /\ Tail(p) \in Seq(Batch) /\ Len(Tail(p)) = Len(p) - 1
      /\ <<batch>> \o Tail(p) = p
  BY <1>2, <1>4, HeadsAndTails
<1> HIDE DEF batch
<1>7. /\ Tail(remote.responses) \in Seq(Batch)
      /\ Len(Tail(remote.responses)) = Len(remote.responses) - 1
      /\ Tail(remote.responses) = SubSeq(Tail(p), 1, Len(Tail(remote.responses)))
      /\ Tail(remote.responses \o remote.requests) = Tail(remote.responses) \o remote.requests
  <2>1. /\ Tail(remote.responses) \in Seq(Batch)
        /\ Len(Tail(remote.responses)) = Len(remote.responses) - 1
        /\ Tail(remote.responses \o remote.requests) = Tail(remote.responses) \o remote.requests
    BY <1>1, <1>2, HeadsAndTails
  <2> DEFINE a == remote.responses
  <2>2. a \in Seq(Batch) /\ a # <<>> /\ p \in Seq(Batch)
    BY <1>1, <1>2
  <2>3. a = SubSeq(p, 1, Len(a)) /\ Len(a) <= Len(p)
    BY <1>3, <1>4
  <2> HIDE DEF a, p
  <2>4. Tail(a) = SubSeq(Tail(p), 1, Len(Tail(a)))
    BY <2>2, <2>3, HeadsAndTails
  <2> QED BY <2>1, <2>4 DEF a
<1>8. /\ remote' \in Remote
      /\ remote'.pipeline = Tail(p) /\ remote'.state = remote.state
      /\ remote'.handshake = remote.handshake /\ remote'.idle = remote.idle
      /\ remote'.closes = remote.closes /\ remote'.asks = remote.asks
      /\ remote'.requests = remote.requests /\ remote'.responses = Tail(remote.responses)
      /\ remote'.hello = remote.hello /\ remote'.ended = remote.ended
  BY <1>2, <1>5, <1>6, <1>7 DEF Remote
<1>9. Orderly(remote')
  BY <1>1, <1>2, <1>4, <1>8 DEF Orderly, IsStarted
<1>10. InStep(remote')
  <2>1. Len(Tail(remote.responses)) + Len(remote.requests) <= Len(Tail(p))
    <3>1. (Len(remote.responses) - 1) + Len(remote.requests) <= Len(p) - 1
      BY <1>3, <1>4, OneLess
    <3> QED BY <1>6, <1>7, <3>1
  <2>2. remote.ended = "none" => Tail(remote.responses) \o remote.requests = Tail(p)
    BY <1>3, <1>7
  <2> QED BY <1>7, <1>8, <2>1, <2>2 DEF InStep
<1>11. /\ mainQ' \in Seq(MainBlock) /\ Tokens(remote, mainQ', workerQ)
       /\ callbacks' \in [Anybody -> SUBSET [id : Nat \ {0}, doc : Doc]]
  BY <1>2, <1>5, <1>6, AnswersAreNoTokens DEF IInv
<1>12. Tokens(remote', mainQ', workerQ')
  BY <1>1, <1>8, <1>11, SameTokens
<1>13. acking' # <<>> /\ acking' \in Seq(Batch) /\ Len(acking') = 1
  BY <1>5, <1>6
<1>14. InOrder'
  <2>1. acking' \o remote'.pipeline = p /\ queue'[currentUser'] = q
    BY <1>1, <1>5, <1>6, <1>8 DEF localStore
  <2> QED BY <1>2, <1>9, <1>10, <1>12, <1>13, <2>1 DEF InOrder
<1>15. Queues' /\ ~crash'
  BY <1>1, <1>5 DEF IInv, Queues, localStore
<1>16. TypeOK'
  BY <1>1, <1>5, <1>8, <1>11, <1>13 DEF IInv, TypeOK, localStore, backend, budget
<1> QED BY <1>14, <1>15, <1>16 DEF IInv

\* A queue without its first batch.
LEMMA FrontRemoved ==
    ASSUME IInv, NEW q, q = queue[currentUser], q # <<>>,
           queue' = [queue EXCEPT ![currentUser] = Tail(q)], nextId' = nextId
    PROVE  /\ queue' \in [Anybody -> Seq(Batch)] /\ queue'[currentUser] = Tail(q)
           /\ Tail(q) \in Seq(Batch) /\ Sorted(Tail(q))
           /\ Queues'
<1>1. currentUser \in Anybody /\ queue \in [Anybody -> Seq(Batch)] /\ q \in Seq(Batch) /\ Sorted(q)
  BY DEF IInv, TypeOK, Queues
<1>2. Tail(q) \in Seq(Batch) /\ Sorted(Tail(q))
  BY <1>1, SortedTail
<1>3. queue' \in [Anybody -> Seq(Batch)] /\ queue'[currentUser] = Tail(q)
  BY <1>1, <1>2
<1>4. \A i \in DOMAIN Tail(q) : Tail(q)[i] = q[i + 1] /\ i + 1 \in DOMAIN q
  BY <1>1
<1>5. \A i \in DOMAIN q : q[i].id < nextId
  BY <1>1 DEF IInv, Queues
<1>6. Queues'
  <2> SUFFICES ASSUME NEW u \in Anybody
               PROVE  Sorted(queue'[u]) /\ \A i \in DOMAIN queue'[u] : queue'[u][i].id < nextId
    BY DEF Queues
  <2>1. CASE u = currentUser
    BY <1>2, <1>3, <1>4, <1>5, <2>1
  <2>2. CASE u # currentUser
    <3>1. queue'[u] = queue[u]
      BY <1>1, <2>2
    <3> QED BY <3>1 DEF IInv, Queues
  <2> QED BY <2>1, <2>2
<1> QED BY <1>2, <1>3, <1>6

LEMMA OnlyOne == \A n \in Nat : n # 0 /\ n <= 1 => n = 1
OBVIOUS

LEMMA SingleBatch ==
    ASSUME NEW a \in Seq(Batch), a # <<>>, Len(a) <= 1
    PROVE  Len(a) = 1 /\ a[1] \in Batch /\ Tail(a) = <<>>
<1>1. Len(a) \in Nat /\ Len(a) # 0
  OBVIOUS
<1>2. Len(a) = 1
  BY <1>1, OnlyOne
<1>3. Tail(a) \in Seq(Batch) /\ Len(Tail(a)) = 0
  BY <1>2
<1>4. Tail(a) = <<>>
  BY <1>3
<1>5. a[1] \in Batch
  BY <1>2
<1> QED BY <1>2, <1>4, <1>5

\* The batch that is acknowledged is the first of the current user's queue.
LEMMA AckedIsFirst ==
    ASSUME IInv, acking # <<>>, NEW q, q = queue[currentUser]
    PROVE  /\ q \in Seq(Batch) /\ Sorted(q) /\ q # <<>> /\ acking[1] = q[1]
           /\ Fits(remote.pipeline, Tail(q))
           /\ InQueue(acking[1]) /\ Removed(acking[1]) = [queue EXCEPT ![currentUser] = Tail(q)]
<1> DEFINE whole == acking \o remote.pipeline
<1>1. /\ remote.pipeline \in Seq(Batch) /\ acking \in Seq(Batch) /\ Len(acking) <= 1
      /\ Filled(whole, q) /\ q \in Seq(Batch) /\ Sorted(q)
  BY DEF IInv, TypeOK, InOrder, Queues, Remote
<1>2. whole \in Seq(Batch) /\ whole # <<>> /\ Head(whole) = acking[1] /\ Tail(whole) = remote.pipeline
  <2>1. Len(acking) = 1 /\ Tail(acking) = <<>>
    BY <1>1, SingleBatch
  <2>2. Tail(whole) = Tail(acking) \o remote.pipeline /\ <<>> \o remote.pipeline = remote.pipeline
    BY <1>1, HeadsAndTails, ConcatEmptySeq
  <2>3. /\ whole \in Seq(Batch) /\ Len(whole) = Len(acking) + Len(remote.pipeline)
        /\ \A i \in 1 .. Len(acking) + Len(remote.pipeline) :
              whole[i] = IF i <= Len(acking) THEN acking[i] ELSE remote.pipeline[i - Len(acking)]
    BY <1>1, ConcatProperties
  <2>4. Len(remote.pipeline) \in Nat
    BY <1>1
  <2> HIDE DEF whole
  <2>5. whole # <<>> /\ Head(whole) = acking[1]
    BY <2>1, <2>3, <2>4
  <2> QED BY <2>1, <2>2, <2>3, <2>5
<1> HIDE DEF whole
<1>3. q # <<>> /\ Head(whole) = q[1] /\ Fits(remote.pipeline, Tail(q))
  BY <1>1, <1>2, TailFits
<1> QED BY <1>1, <1>2, <1>3, RemovedFirst

LEMMA AcknowledgeStep == ASSUME IInv, AcknowledgeBatch PROVE IInv'
<1> DEFINE q == queue[currentUser]
<1>1. /\ acking # <<>> /\ acking' = <<>> /\ crash' = ~InQueue(acking[1])
      /\ queue' = (IF crash' THEN queue ELSE Removed(acking[1]))
      /\ remote' = FillWritePipeline(remote, queue'[currentUser], tokenCounter)
      /\ UNCHANGED <<identity, workerQ, currentUser, callbacks, nextId, backend, told, budget>>
  BY DEF AcknowledgeBatch
<1>2. /\ remote \in Remote /\ Orderly(remote) /\ InStep(remote) /\ Tokens(remote, mainQ, workerQ)
      /\ tokenCounter \in Nat
  BY DEF IInv, TypeOK, InOrder
<1> HIDE DEF q
<1>3. q # <<>> /\ Fits(remote.pipeline, Tail(q))
  BY <1>1, AckedIsFirst DEF q
<1>4. InQueue(acking[1]) /\ Removed(acking[1]) = [queue EXCEPT ![currentUser] = Tail(q)]
  BY <1>1, AckedIsFirst DEF q
<1>5. crash' = FALSE /\ queue' = [queue EXCEPT ![currentUser] = Tail(q)]
  BY <1>1, <1>4
<1>6. /\ queue' \in [Anybody -> Seq(Batch)] /\ queue'[currentUser] = Tail(q)
      /\ Tail(q) \in Seq(Batch) /\ Sorted(Tail(q)) /\ Queues'
  BY <1>1, <1>3, <1>5, FrontRemoved DEF q
<1>7. Sound(remote', Tail(q), mainQ, workerQ)
  BY <1>1, <1>2, <1>3, <1>6, FillIsSound
<1>8. remote' \in Remote /\ InOrder'
  BY <1>1, <1>6, <1>7, AfterATurn DEF identity
<1>9. TypeOK'
  <2>1. acking' \in Seq(Batch) /\ Len(acking') <= 1
    BY <1>1
  <2> QED BY <1>1, <1>5, <1>6, <1>8, <2>1 DEF IInv, TypeOK, identity, backend, budget
<1> QED BY <1>5, <1>6, <1>8, <1>9 DEF IInv

\* The RPC has ended: what it rejects is the front of the pipeline and of the queue.
LEMMA FinishStep == ASSUME IInv, OnStreamFinish PROVE IInv'
<1> DEFINE q == queue[currentUser]
           p == remote.pipeline
           batch == Head(p)
<1>1. /\ Worker
      /\ remote' = OnWriteStreamClose(remote, remote.ended, queue'[currentUser], tokenCounter)
      /\ UNCHANGED <<authUser, knownUser, tokenCounter, workerQ, currentUser, acking, nextId,
                     backend, told, budget>>
  BY DEF OnStreamFinish
<1>2. /\ remote \in Remote /\ Filled(p, q) /\ p \in Seq(Batch) /\ q \in Seq(Batch) /\ Sorted(q)
      /\ mainQ \in Seq(MainBlock) /\ workerQ \in Seq(WorkerBlock)
      /\ Tokens(remote, mainQ, workerQ) /\ tokenCounter \in Nat
  BY <1>1, BeforeATurn DEF Remote
<1>3. CASE RejectsFront(remote, remote.ended)
  <2>1. /\ crash' = ~InQueue(batch)
        /\ queue' = (IF crash' THEN queue ELSE Removed(batch))
        /\ mainQ' = mainQ \o Answers(batch, "failed")
        /\ callbacks' = Unregistered(batch)
    BY <1>3 DEF OnStreamFinish
  <2>2. p # <<>>
    BY <1>3 DEF RejectsFront
  <2>3. batch \in Batch
    BY <1>2, <2>2
  <2> HIDE DEF batch, p, q
  <2>4. q # <<>> /\ batch = q[1] /\ Fits(Tail(p), Tail(q))
    BY <1>2, <2>2, TailFits DEF batch
  <2>5. InQueue(batch) /\ Removed(batch) = [queue EXCEPT ![currentUser] = Tail(q)]
    BY <1>2, <2>4, RemovedFirst DEF q
  <2>6. crash' = FALSE /\ queue' = [queue EXCEPT ![currentUser] = Tail(q)]
    BY <2>1, <2>5
  <2>7. /\ queue' \in [Anybody -> Seq(Batch)] /\ queue'[currentUser] = Tail(q)
        /\ Tail(q) \in Seq(Batch) /\ Sorted(Tail(q)) /\ Queues'
    BY <1>1, <2>4, <2>6, FrontRemoved DEF q
  <2>8. /\ mainQ' \in Seq(MainBlock) /\ Tokens(remote, mainQ', workerQ)
        /\ callbacks' \in [Anybody -> SUBSET [id : Nat \ {0}, doc : Doc]]
    BY <1>2, <2>1, <2>3, AnswersAreNoTokens DEF IInv
  <2>9. Sound(remote', Tail(q), mainQ', workerQ)
    BY <1>1, <1>2, <1>3, <2>4, <2>7, <2>8, CloseIsSound DEF p
  <2>10. remote' \in Remote /\ InOrder'
    BY <1>1, <2>7, <2>9, AfterATurn DEF Worker
  <2>11. TypeOK'
    BY <1>1, <2>6, <2>7, <2>8, <2>10 DEF IInv, TypeOK, backend, budget
  <2> QED BY <2>6, <2>7, <2>10, <2>11 DEF IInv
<1>4. CASE ~RejectsFront(remote, remote.ended)
  <2>1. UNCHANGED <<crash, queue, mainQ, callbacks>>
    BY <1>4 DEF OnStreamFinish
  <2> HIDE DEF batch, p, q
  <2>2. Sound(remote', q, mainQ, workerQ)
    BY <1>1, <1>2, <1>4, <2>1, CloseIsSound DEF p, q
  <2>3. remote' \in Remote /\ Queues' /\ InOrder'
    BY <1>1, <2>1, <2>2, QueuesUntouched DEF Worker, q
  <2>4. TypeOK' /\ ~crash'
    BY <1>1, <2>1, <2>3 DEF IInv, TypeOK, backend, budget
  <2> QED BY <2>3, <2>4 DEF IInv
<1> QED BY <1>3, <1>4

LEMMA StraysOnly ==
    ASSUME NEW r \in Remote, NEW s \in SUBSET Stray
    PROVE  LET z == [r EXCEPT !.strays = s]
           IN  /\ z \in Remote
               /\ z.pipeline = r.pipeline /\ z.state = r.state /\ z.closes = r.closes /\ z.asks = r.asks
               /\ Orderly(r) => Orderly(z)
               /\ InStep(r) => InStep(z)
<1> DEFINE z == [r EXCEPT !.strays = s]
<1>1. /\ z \in Remote
      /\ z.pipeline = r.pipeline /\ z.state = r.state /\ z.handshake = r.handshake
      /\ z.idle = r.idle /\ z.closes = r.closes /\ z.asks = r.asks /\ z.hello = r.hello
      /\ z.requests = r.requests /\ z.responses = r.responses /\ z.ended = r.ended
  BY DEF Remote
<1> HIDE DEF z
<1> QED BY <1>1 DEF Orderly, InStep, IsStarted, z

\* The process starts again with what is on disk.
LEMMA RelaunchStep == ASSUME IInv, Relaunch PROVE IInv'
<1> DEFINE a == Abandoned(remote)
           y == [Fresh EXCEPT !.strays = a]
           q == queue[knownUser']
           x == [kind |-> "changed", user |-> authUser]
<1>1. /\ changes < MaxChanges /\ changes' = changes + 1 /\ authUser' = authUser
      /\ crash' = FALSE /\ tokenCounter' = 0 /\ workerQ' = <<>> /\ currentUser' = knownUser'
      /\ callbacks' = [u \in Anybody |-> {}] /\ acking' = <<>>
      /\ nextId' \in 1 .. MaxWrites + 1 /\ IsNextBatchId(nextId', queue)
      /\ remote' = FillWritePipeline(y, q, 0)
      /\ UNCHANGED <<queue, backend, told, issued, faults>>
  BY DEF Relaunch, Launch
<1>2. \/ knownUser' = authUser /\ mainQ' = <<>>
      \/ knownUser' = NoUser /\ mainQ' = <<x>>
  BY <1>1 DEF Relaunch, Launch
<1>3. knownUser' \in Anybody /\ authUser \in Anybody
  BY <1>2 DEF IInv, TypeOK, Anybody
<1>4. x \in MainBlock /\ x.kind # "token"
  BY <1>3, ChangedBlock
<1> HIDE DEF x
<1>5. mainQ' \in Seq(MainBlock) /\ \A i \in DOMAIN mainQ' : mainQ'[i].kind # "token"
  <2>1. <<>> \in Seq(MainBlock) /\ <<x>> \in Seq(MainBlock) /\ DOMAIN <<>> = {} /\ DOMAIN <<x>> = {1} /\ <<x>>[1] = x
    BY <1>4
  <2> QED BY <1>2, <1>4, <2>1
<1>6. q \in Seq(Batch) /\ Sorted(q)
  BY <1>3 DEF IInv, TypeOK, Queues
<1>7. /\ y \in Remote /\ y.pipeline = <<>> /\ y.state = "initial" /\ y.asks = {} /\ y.closes = 0
      /\ Orderly(y) /\ InStep(y)
  <2>1. a \subseteq Stray
    BY AbandonedStrays DEF IInv, TypeOK
  <2> HIDE DEF a
  <2>2. /\ Fresh \in Remote /\ Fresh.pipeline = <<>> /\ Fresh.state = "initial"
        /\ Fresh.asks = {} /\ Fresh.closes = 0 /\ Orderly(Fresh) /\ InStep(Fresh)
    BY FreshIsOrderly
  <2> QED BY <2>1, <2>2, StraysOnly
<1> HIDE DEF y, q
<1>8. Tokens(y, mainQ', workerQ')
  <2>1. DOMAIN workerQ' = {}
    BY <1>1
  <2> QED BY <1>5, <1>7, <2>1 DEF Tokens, NoToken, AsksNow, MainNow, WorkerNow
<1>9. Fits(y.pipeline, q)
  BY <1>6, <1>7, FrontOfNothing
<1>10. Sound(remote', q, mainQ', workerQ')
  BY <1>1, <1>6, <1>7, <1>8, <1>9, FillIsSound
<1>11. remote' \in Remote /\ InOrder'
  BY <1>1, <1>10, AfterATurn DEF q
<1>12. Queues' /\ nextId' \in Nat \ {0}
  <2>1. DOMAIN queue = Anybody
    BY DEF IInv, TypeOK
  <2>2. \A u \in Anybody : \A i \in DOMAIN queue[u] : queue[u][i].id < nextId'
    BY <1>1, <2>1 DEF IsNextBatchId
  <2>3. nextId' \in Nat \ {0}
    BY <1>1, WriteBoundsAssumption
  <2> QED BY <1>1, <2>2, <2>3 DEF IInv, Queues
<1>13. TypeOK'
  <2>1. workerQ' \in Seq(WorkerBlock) /\ acking' \in Seq(Batch) /\ Len(acking') <= 1
    BY <1>1
  <2>2. callbacks' \in [Anybody -> SUBSET [id : Nat \ {0}, doc : Doc]] /\ tokenCounter' \in Nat
    BY <1>1
  <2>3. changes' \in 0 .. MaxChanges
    BY <1>1, WriteBoundsAssumption DEF IInv, TypeOK
  <2>4. crash' \in BOOLEAN
    BY <1>1
  <2> QED BY <1>1, <1>3, <1>5, <1>11, <1>12, <2>1, <2>2, <2>3, <2>4 DEF IInv, TypeOK, backend
<1> QED BY <1>1, <1>11, <1>12, <1>13 DEF IInv

------------------------------------------------------------------------------
(* The theorems *)

LEMMA StutterStep == ASSUME IInv, UNCHANGED vars PROVE IInv'
<1>1. UNCHANGED <<authUser, mainQ, knownUser, tokenCounter, workerQ, currentUser, callbacks, acking>>
      /\ UNCHANGED <<queue, nextId, remote, applied, refused, told, issued, changes, faults, crash>>
  BY DEF vars, identity, syncEngine, localStore, backend, budget
<1> QED BY <1>1 DEF IInv, TypeOK, Queues, InOrder

LEMMA IInvIsInductive == IInv /\ [Next]_vars => IInv'
<1> SUFFICES ASSUME IInv, [Next]_vars PROVE IInv'
  OBVIOUS
<1>1. CASE Relaunch
  BY <1>1, RelaunchStep
<1>2. CASE Auth
  <2>1. ASSUME NEW u \in Anybody, ChangeUser(u) PROVE IInv'
    BY <2>1, ChangeUserStep
  <2>2. CASE RefreshToken
    BY <2>2, RefreshTokenStep
  <2>3. ASSUME NEW ask \in remote.asks, TakeToken(ask) PROVE IInv'
    BY <2>3, TakeTokenStep
  <2>4. ASSUME NEW ask \in remote.asks, NEW ok \in BOOLEAN, GiveToken(ask, ok) PROVE IInv'
    BY <2>4, GiveTokenStep
  <2> QED BY <1>2, <2>1, <2>2, <2>3, <2>4 DEF Auth
<1>3. CASE Main
  <2>1. ASSUME NEW ok \in Verdicts, Write(ok) PROVE IInv'
    BY <2>1, WriteStep
  <2> QED BY <1>3, <2>1, AuthStateStep, OnTokenStep, OnAnswerStep DEF Main
<1>4. CASE WorkerStep
  BY <1>4, CredentialStep, HandleWriteStep, ResumeStartStep, BackoffStep, IdleTimeoutStep,
     NetworkChangesStep, HandshakeStep, ResultStep, AcknowledgeStep, FinishStep DEF WorkerStep
<1>5. CASE Server
  <2>1. ASSUME NEW code \in FaultCodes, RpcBreaks(code) PROVE IInv'
    BY <2>1, RpcBreaksStep
  <2>2. ASSUME NEW stray \in remote.strays, StrayArrives(stray) PROVE IInv'
    BY <2>2, StrayArrivesStep
  <2> QED BY <1>5, <2>1, <2>2, ServerGreetsStep, ServerHandlesStep DEF Server
<1>6. CASE UNCHANGED vars
  BY <1>6, StutterStep
<1> QED BY <1>1, <1>2, <1>3, <1>4, <1>5, <1>6 DEF Next

\* The invariant holds in every state of every behaviour.
THEOREM AlwaysInOrder == Spec => []IInv
<1> QED BY InitIsInOrder, IInvIsInductive, PTL DEF Spec

\* The variables keep their types.
THEOREM TypesHold == Spec => []TypeOK
<1>1. IInv => TypeOK
  BY DEF IInv
<1> QED BY <1>1, AlwaysInOrder, PTL

\* None of the client's assertions fails: IdleTimeout finds nothing to write, a result finds a
\* batch, the batch is in the queue, and a token finds a stream that waits for it.
THEOREM AssertionsHold == Spec => []NoAssertionFails
<1>1. IInv => NoAssertionFails
  BY DEF IInv, NoAssertionFails
<1> QED BY <1>1, AlwaysInOrder, PTL

\* The pipeline is the front of the current user's queue, as long as it may be.
THEOREM PipelineStaysFull == Spec => []PipelineIsFull
<1>1. IInv => PipelineIsFull
  BY DEF IInv, InOrder, PipelineIsFull, Filled, Fits, Front
<1> QED BY <1>1, AlwaysInOrder, PTL

\* Between two turns of the worker no batch waits for a stream that nobody starts.
THEOREM StreamIsStarted == Spec => []NeverStalls
<1>1. IInv => NeverStalls
  BY DEF IInv, InOrder, NeverStalls, Running
<1> QED BY <1>1, AlwaysInOrder, PTL

\* The i-th result unread is for the i-th batch of the pipeline.
THEOREM ResultsFitPipeline == Spec => []ResultsInStep
<1>1. IInv => ResultsInStep
  BY DEF IInv, InOrder, ResultsInStep, InStep
<1> QED BY <1>1, AlwaysInOrder, PTL
====
