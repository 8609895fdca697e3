---- MODULE WritePipeline ----
(***************************************************************************)
(* The way of a write through the Firestore client: from the main thread   *)
(* to the mutation queue on disk, through the write pipeline and a stream  *)
(* opened with the user's token to the backend, and back to the caller.     *)
(* Three threads take part.  The main thread runs mainQ: FIRAuth's         *)
(* announcements, the answers to GetToken and the callbacks of writes.     *)
(* FIRAuth's work queue changes the user and reads tokens.  Firestore's    *)
(* worker runs workerQ, its timers and what gRPC completes.                *)
(***************************************************************************)
EXTENDS RemoteStore

CONSTANTS
    Users,
    Verdicts,   \* whether the server may take a write, subset of BOOLEAN
    FaultCodes, \* the codes a broken RPC may end with
    Overtaking, \* whether a failed write may overtake a result that was not read
    MaxWrites,  \* writes, at most
    MaxChanges, \* changes of the user and relaunches, at most
    MaxFaults   \* broken RPCs, failed tokens, refreshed tokens, changes of network, at most

ASSUME NoUserAssumption == NoUser \notin Users
ASSUME VerdictsAssumption == Verdicts \subseteq BOOLEAN
ASSUME FaultCodesAssumption == FaultCodes \subseteq {"Unavailable", "Unauthenticated", "Aborted"}
ASSUME OvertakingAssumption == Overtaking \in BOOLEAN
ASSUME WriteBoundsAssumption == MaxWrites \in Nat /\ MaxChanges \in Nat /\ MaxFaults \in Nat

VARIABLES
    authUser,     \* FIRAuth's _currentUser; in the keychain
    mainQ,        \* blocks for the main thread
    knownUser,    \* contents_->current_user of the credentials provider
    tokenCounter, \* contents_->token_counter
    workerQ,      \* blocks for the worker
    currentUser,  \* SyncEngine::current_user_
    callbacks,    \* SyncEngine::mutation_callbacks_
    acking,       \* the batch whose caller was told and which is still in the queue, if any
    queue,        \* the mutation queues; on disk
    nextId,       \* next_batch_id_
    remote,       \* RemoteStore, its stream and the RPC
    applied,      \* the batches the server has applied
    refused,      \* the batches the server has refused
    told,         \* what the caller of each write was told
    issued,       \* writes so far; numbers them, and stands for their new document ids
    changes, faults,
    crash         \* an assertion of the client has failed

identity == <<authUser, mainQ, knownUser, tokenCounter>>
syncEngine == <<currentUser, callbacks, acking>>
localStore == <<queue, nextId>>
backend == <<applied, refused>>
budget == <<issued, changes, faults>>
vars == <<identity, workerQ, syncEngine, localStore, remote, backend, told, budget, crash>>

Anybody == Users \cup {NoUser}

\* The first id above those of all queues.
IsNextBatchId(id, queues) ==
    /\ \A u \in DOMAIN queues : \A i \in DOMAIN queues[u] : queues[u][i].id < id
    /\ id # 1 => \E u \in DOMAIN queues : \E i \in DOMAIN queues[u] : queues[u][i].id = id - 1

\* The provider reads the user when it is made, before or after the keychain is loaded.
Launch ==
    /\ \/ knownUser' = authUser' /\ mainQ' = <<>>
       \/ authUser' # NoUser /\ knownUser' = NoUser /\ mainQ' = <<[kind |-> "changed", user |-> authUser']>>
    /\ tokenCounter' = 0
    /\ workerQ' = <<>>
    /\ currentUser' = knownUser'
    /\ callbacks' = [u \in Anybody |-> {}]
    /\ acking' = <<>>
    /\ nextId' \in {id \in 1 .. MaxWrites + 1 : IsNextBatchId(id, queue)}

Init ==
    /\ authUser \in Anybody
    /\ \/ knownUser = authUser /\ mainQ = <<>>
       \/ authUser # NoUser /\ knownUser = NoUser /\ mainQ = <<[kind |-> "changed", user |-> authUser]>>
    /\ tokenCounter = 0
    /\ workerQ = <<>>
    /\ currentUser = knownUser
    /\ callbacks = [u \in Anybody |-> {}]
    /\ acking = <<>>
    /\ queue = [u \in Anybody |-> <<>>]
    /\ nextId = 1
    /\ remote = Fresh
    /\ applied = {}
    /\ refused = {}
    /\ told = [d \in 1 .. MaxWrites |-> "nothing"]
    /\ issued = 0
    /\ changes = 0
    /\ faults = 0
    /\ crash = FALSE

\* The process dies at any point; the queues, the user and what was sent survive.
Relaunch ==
    /\ changes < MaxChanges
    /\ authUser' = authUser
    /\ Launch
    /\ remote' = FillWritePipeline([Fresh EXCEPT !.strays = Abandoned(remote)],
                                   queue[knownUser'], 0)
    /\ changes' = changes + 1
    /\ crash' = FALSE
    /\ UNCHANGED <<queue, backend, told, issued, faults>>

------------------------------------------------------------------------------
(* FIRAuth's work queue *)

\* Somebody signs in or out; the main thread hears of it later.
ChangeUser(u) ==
    /\ changes < MaxChanges
    /\ u # authUser
    /\ authUser' = u
    /\ mainQ' = Append(mainQ, [kind |-> "changed", user |-> u])
    /\ changes' = changes + 1
    /\ UNCHANGED <<knownUser, tokenCounter, workerQ, syncEngine, localStore, remote, backend, told,
                   issued, faults, crash>>

\* A new token of the same user is announced like a new user.
RefreshToken ==
    /\ faults < MaxFaults
    /\ authUser # NoUser
    /\ mainQ' = Append(mainQ, [kind |-> "changed", user |-> authUser])
    /\ faults' = faults + 1
    /\ UNCHANGED <<authUser, knownUser, tokenCounter, workerQ, syncEngine, localStore, remote, backend,
                   told, issued, changes, crash>>

\* getTokenForcingRefresh begins: the token will be that of the present user.
TakeToken(ask) ==
    /\ ask.user = <<>>
    /\ remote' = [remote EXCEPT !.asks = (@ \ {ask}) \cup {[ask EXCEPT !.user = <<authUser>>]}]
    /\ UNCHANGED <<identity, workerQ, syncEngine, localStore, backend, told, budget, crash>>

\* Mutant: answers before the user was read.
GiveTokenEarly(ask, ok) ==
    /\ ok \/ (faults < MaxFaults /\ ask.user # <<NoUser>>)
    /\ remote' = [remote EXCEPT !.asks = @ \ {ask}]
    /\ mainQ' = Append(mainQ, [kind |-> "token", ask |-> ask, ok |-> ok])
    /\ faults' = IF ok THEN faults ELSE faults + 1
    /\ UNCHANGED <<authUser, knownUser, tokenCounter, workerQ, syncEngine, localStore, backend,
                   told, issued, changes, crash>>

\* The answer goes through the main queue.  A fetch of a token may fail.
GiveToken(ask, ok) ==
    /\ ask.user # <<>>
    /\ ok \/ (faults < MaxFaults /\ ask.user # <<NoUser>>)
    /\ remote' = [remote EXCEPT !.asks = @ \ {ask}]
    /\ mainQ' = Append(mainQ, [kind |-> "token", ask |-> ask, ok |-> ok])
    /\ faults' = IF ok THEN faults ELSE faults + 1
    /\ UNCHANGED <<authUser, knownUser, tokenCounter, workerQ, syncEngine, localStore, backend, told,
                   issued, changes, crash>>

------------------------------------------------------------------------------
(* The main thread *)

NextOnMain(kind) == mainQ # <<>> /\ Head(mainQ).kind = kind

\* Mutant: the first user is taken for the one Firestore was initialized with.
FirstUserUntold ==
    /\ NextOnMain("changed")
    /\ mainQ' = Tail(mainQ)
    /\ knownUser' = Head(mainQ).user
    /\ tokenCounter' = tokenCounter + 1
    /\ workerQ' = IF tokenCounter = 0 THEN workerQ
                  ELSE Append(workerQ, [kind |-> "credential", user |-> knownUser'])
    /\ UNCHANGED <<authUser, syncEngine, localStore, remote, backend, told, budget, crash>>

\* The provider's observer tells Firestore.
OnAuthStateChange ==
    /\ NextOnMain("changed")
    /\ mainQ' = Tail(mainQ)
    /\ knownUser' = Head(mainQ).user
    /\ tokenCounter' = tokenCounter + 1
    /\ workerQ' = Append(workerQ, [kind |-> "credential", user |-> knownUser'])
    /\ UNCHANGED <<authUser, syncEngine, localStore, remote, backend, told, budget, crash>>

\* GetToken's callback: a token asked for before a change is asked for again.
OnToken ==
    /\ NextOnMain("token")
    /\ mainQ' = Tail(mainQ)
    /\ LET ask == Head(mainQ).ask IN
       \/ /\ ask.counter # tokenCounter
          /\ remote' = [remote EXCEPT !.asks =
                 @ \cup {[closes |-> ask.closes, counter |-> tokenCounter, user |-> <<>>]}]
          /\ workerQ' = workerQ
       \/ /\ ask.counter = tokenCounter
          /\ workerQ' = Append(workerQ, [kind |-> "token", closes |-> ask.closes,
                                         user |-> ask.user[1], ok |-> Head(mainQ).ok])
          /\ remote' = remote
    /\ UNCHANGED <<authUser, knownUser, tokenCounter, syncEngine, localStore, backend, told, budget, crash>>

\* The completion of a write reaches its caller.
OnAnswer ==
    /\ NextOnMain("answer")
    /\ mainQ' = Tail(mainQ)
    /\ told' = [told EXCEPT ![Head(mainQ).doc] = Head(mainQ).answer]
    /\ UNCHANGED <<authUser, knownUser, tokenCounter, workerQ, syncEngine, localStore, remote, backend,
                   budget, crash>>

\* The app adds a document for the user it knows.
Write(ok) ==
    /\ issued < MaxWrites
    /\ knownUser # NoUser
    /\ issued' = issued + 1
    /\ workerQ' = Append(workerQ, [kind |-> "write", user |-> knownUser, doc |-> issued', ok |-> ok])
    /\ UNCHANGED <<identity, syncEngine, localStore, remote, backend, told, changes, faults, crash>>

------------------------------------------------------------------------------
(* The worker *)

Worker == acking = <<>> /\ ~crash
NextOnWorker(kind) == Worker /\ workerQ # <<>> /\ Head(workerQ).kind = kind /\ workerQ' = Tail(workerQ)

HandleCredentialChange ==
    /\ NextOnWorker("credential")
    /\ currentUser' = Head(workerQ).user
    /\ IF currentUser' # currentUser
       THEN nextId' \in {id \in 1 .. MaxWrites + 1 : IsNextBatchId(id, queue)}
       ELSE nextId' = nextId
    /\ remote' = RestartNetwork(remote, queue[currentUser'], tokenCounter)
    /\ UNCHANGED <<identity, callbacks, acking, queue, backend, told, budget, crash>>

\* An entry the map already has for the id is kept.
Registered(cs, batch) ==
    IF \E c \in cs : c.id = batch.id THEN cs ELSE cs \cup {[id |-> batch.id, doc |-> batch.doc]}

\* SyncEngine::WriteMutations; the batch is the current user's.
HandleWrite ==
    /\ NextOnWorker("write")
    /\ LET write == Head(workerQ)
           batch == [id |-> nextId, user |-> write.user, doc |-> write.doc, ok |-> write.ok]
       IN  /\ queue' = [queue EXCEPT ![currentUser] = Append(@, batch)]
           /\ callbacks' = [callbacks EXCEPT ![currentUser] = Registered(@, batch)]
    /\ nextId' = nextId + 1
    /\ remote' = FillWritePipeline(remote, queue'[currentUser], tokenCounter)
    /\ UNCHANGED <<identity, currentUser, acking, backend, told, budget, crash>>

\* ResumeStartWithCredentials, unless the stream was stopped since: without a token the
\* stream fails, with one the RPC is opened and the handshake sent.
ResumeStart ==
    /\ NextOnWorker("token")
    /\ LET token == Head(workerQ) IN
       \/ /\ token.closes # remote.closes
          /\ UNCHANGED <<remote, crash>>
       \/ /\ token.closes = remote.closes
          /\ crash' = (remote.state # "starting")
          /\ remote' = IF crash' THEN remote
                       ELSE IF token.ok
                       THEN [remote EXCEPT !.state = "open", !.user = token.user,
                                           !.hello = "asked"]
                       ELSE OnWriteStreamClose(remote, "Unknown", queue[currentUser],
                                               tokenCounter)
    /\ UNCHANGED <<identity, syncEngine, localStore, backend, told, budget>>

\* The delay after an error is over.
BackoffElapses ==
    /\ Worker
    /\ remote.state = "backoff"
    /\ remote' = Start([remote EXCEPT !.state = "initial"], tokenCounter)
    /\ UNCHANGED <<identity, workerQ, syncEngine, localStore, backend, told, budget, crash>>

\* The idle timer stops the stream, which must not be needed then.
IdleTimeout ==
    /\ Worker
    /\ remote.idle
    /\ remote' = Stop(remote)
    /\ crash' = ShouldStartWriteStream(remote')
    /\ UNCHANGED <<identity, workerQ, syncEngine, localStore, backend, told, budget>>

\* The path to the network has changed.
NetworkChanges ==
    /\ Worker
    /\ faults < MaxFaults
    /\ remote' = RestartNetwork(remote, queue[currentUser], tokenCounter)
    /\ faults' = faults + 1
    /\ UNCHANGED <<identity, workerQ, syncEngine, localStore, backend, told, issued, changes, crash>>

\* The first response completes the handshake; the pipeline is sent.
OnHandshakeComplete ==
    /\ Worker
    /\ remote.hello = "answered"
    /\ remote' = WriteMutations([remote EXCEPT !.hello = "none", !.handshake = TRUE],
                                remote.pipeline)
    /\ UNCHANGED <<identity, workerQ, syncEngine, localStore, backend, told, budget, crash>>

\* The caller of a write of the current user, if it still waits, is told on the main queue.
Answers(batch, answer) ==
    IF \E c \in callbacks[currentUser] : c.id = batch.id
    THEN <<[kind |-> "answer", answer |-> answer,
            doc |-> (CHOOSE c \in callbacks[currentUser] : c.id = batch.id).doc]>>
    ELSE <<>>

\* Mutant: the callback stays in the map.
KeepsCallback(batch) == callbacks

Unregistered(batch) ==
    [callbacks EXCEPT ![currentUser] = {c \in @ : c.id # batch.id}]

InQueue(batch) == \E i \in DOMAIN queue[currentUser] : queue[currentUser][i].id = batch.id

\* RemoveMutationBatch, by its id.
Removed(batch) ==
    LET q == queue[currentUser]
        i == CHOOSE j \in DOMAIN q : q[j].id = batch.id
    IN  [queue EXCEPT ![currentUser] = SubSeq(q, 1, i - 1) \o SubSeq(q, i + 1, Len(q))]

\* A result is for the front of the pipeline: its caller is told before the queue is changed.
OnMutationResult ==
    /\ Worker
    /\ remote.handshake /\ remote.responses # <<>>
    /\ IF remote.pipeline = <<>>
       THEN crash' = TRUE /\ UNCHANGED <<remote, mainQ, callbacks, acking>>
       ELSE LET batch == Head(remote.pipeline) IN
            /\ remote' = [remote EXCEPT !.responses = Tail(@), !.pipeline = Tail(@)]
            /\ mainQ' = mainQ \o Answers(batch, "ok")
            /\ callbacks' = Unregistered(batch)
            /\ acking' = <<batch>>
            /\ crash' = crash
    /\ UNCHANGED <<authUser, knownUser, tokenCounter, workerQ, currentUser, localStore, backend,
                   told, budget>>

\* The same turn goes on: AcknowledgeBatch, and the pipeline is filled again.
AcknowledgeBatch ==
    /\ acking # <<>>
    /\ acking' = <<>>
    /\ crash' = ~InQueue(acking[1])
    /\ queue' = IF crash' THEN queue ELSE Removed(acking[1])
    /\ remote' = FillWritePipeline(remote, queue'[currentUser], tokenCounter)
    /\ UNCHANGED <<identity, workerQ, currentUser, callbacks, nextId, backend, told, budget>>

\* Whether the client learns of the end of the RPC: it has read all results, or one of its
\* writes has failed while one was still unread.
CanFinish ==
    /\ remote.ended # "none"
    /\ \/ remote.responses = <<>> /\ remote.hello # "answered"
       \/ Overtaking /\ Len(remote.responses) = 1 /\ remote.requests # <<>>

\* The RPC has failed; a permanent error rejects the front of the pipeline.
OnStreamFinish ==
    /\ Worker
    /\ CanFinish
    /\ IF RejectsFront(remote, remote.ended)
       THEN LET batch == Head(remote.pipeline) IN
            /\ crash' = ~InQueue(batch)
            /\ queue' = IF crash' THEN queue ELSE Removed(batch)
            /\ mainQ' = mainQ \o Answers(batch, "failed")
            /\ callbacks' = Unregistered(batch)
       ELSE UNCHANGED <<crash, queue, mainQ, callbacks>>
    /\ remote' = OnWriteStreamClose(remote, remote.ended, queue'[currentUser], tokenCounter)
    /\ UNCHANGED <<authUser, knownUser, tokenCounter, workerQ, currentUser, acking, nextId,
                   backend, told, budget>>

------------------------------------------------------------------------------
(* The server and the network *)

\* A write is the user's own, and nothing else speaks against it.
Accepts(user, batch) == batch.ok /\ batch.user = user

ServerGreets ==
    /\ remote.hello = "asked" /\ remote.ended = "none"
    /\ remote' = [remote EXCEPT !.hello = "answered"]
    /\ UNCHANGED <<identity, workerQ, syncEngine, localStore, backend, told, budget, crash>>

\* The server takes the writes of an RPC one after another and ends it at the first it refuses.
ServerHandles ==
    /\ remote.requests # <<>> /\ remote.ended = "none"
    /\ LET batch == Head(remote.requests) IN
       IF Accepts(remote.user, batch)
       THEN /\ applied' = applied \cup {batch}
            /\ remote' = [remote EXCEPT !.requests = Tail(@), !.responses = Append(@, batch)]
            /\ refused' = refused
       ELSE /\ refused' = refused \cup {batch}
            /\ remote' = [remote EXCEPT !.requests = Tail(@), !.ended = "PermissionDenied"]
            /\ applied' = applied
    /\ UNCHANGED <<identity, workerQ, syncEngine, localStore, told, budget, crash>>

\* The RPC breaks; of the responses on their way a prefix arrives.
RpcBreaks(code) ==
    /\ faults < MaxFaults
    /\ remote.state = "open" /\ remote.ended = "none"
    /\ \E n \in 0 .. Len(remote.responses) :
          remote' = [remote EXCEPT !.ended = code, !.responses = SubSeq(@, 1, n)]
    /\ faults' = faults + 1
    /\ UNCHANGED <<identity, workerQ, syncEngine, localStore, backend, told, issued, changes, crash>>

\* A write arrives that was sent on an RPC the client has given up.
StrayArrives(stray) ==
    /\ LET batch == Head(stray.requests)
           rest == Tail(stray.requests)
       IN  IF Accepts(stray.user, batch)
           THEN /\ applied' = applied \cup {batch}
                /\ refused' = refused
                /\ remote' = [remote EXCEPT !.strays = (@ \ {stray}) \cup
                       (IF rest = <<>> THEN {} ELSE {[stray EXCEPT !.requests = rest]})]
           ELSE /\ refused' = refused \cup {batch}
                /\ applied' = applied
                /\ remote' = [remote EXCEPT !.strays = @ \ {stray}]
    /\ UNCHANGED <<identity, workerQ, syncEngine, localStore, told, budget, crash>>

Auth ==
    \/ \E u \in Anybody : ChangeUser(u)
    \/ RefreshToken
    \/ \E ask \in remote.asks : TakeToken(ask) \/ \E ok \in BOOLEAN : GiveToken(ask, ok)

Main ==
    \/ OnAuthStateChange \/ OnToken \/ OnAnswer
    \/ \E ok \in Verdicts : Write(ok)

WorkerStep ==
    \/ HandleCredentialChange \/ HandleWrite \/ ResumeStart
    \/ BackoffElapses \/ IdleTimeout \/ NetworkChanges
    \/ OnHandshakeComplete \/ OnMutationResult \/ AcknowledgeBatch \/ OnStreamFinish

Server ==
    \/ ServerGreets \/ ServerHandles
    \/ \E code \in FaultCodes : RpcBreaks(code)
    \/ \E stray \in remote.strays : StrayArrives(stray)

Next == Relaunch \/ Auth \/ Main \/ WorkerStep \/ Server

Spec == Init /\ [][Next]_vars

------------------------------------------------------------------------------
(* Properties *)

Doc == 1 .. MaxWrites
Batch == [id : Nat \ {0}, user : Users, doc : Doc, ok : BOOLEAN]
Ask == [closes : Nat, counter : Nat, user : {<<>>} \cup {<<u>> : u \in Anybody}]
GivenAsk == [closes : Nat, counter : Nat, user : {<<u>> : u \in Anybody}]
Stray == [user : Anybody, requests : Seq(Batch) \ {<<>>}]
MainBlock ==
    [kind : {"changed"}, user : Anybody]
    \cup [kind : {"token"}, ask : GivenAsk, ok : BOOLEAN]
    \cup [kind : {"answer"}, doc : Doc, answer : {"ok", "failed"}]
WorkerBlock ==
    [kind : {"credential"}, user : Anybody]
    \cup [kind : {"token"}, closes : Nat, user : Anybody, ok : BOOLEAN]
    \cup [kind : {"write"}, user : Users, doc : Doc, ok : BOOLEAN]
Code == FaultCodes \cup {"PermissionDenied"}
Remote ==
    [pipeline : Seq(Batch), state : {"initial", "starting", "backoff", "error", "open"},
     handshake : BOOLEAN, idle : BOOLEAN, closes : Nat, asks : SUBSET Ask, user : Anybody,
     hello : {"none", "asked", "answered"}, requests : Seq(Batch), responses : Seq(Batch),
     ended : Code \cup {"none"}, strays : SUBSET Stray]

\* The types of the variables.
TypeOK ==
    /\ authUser \in Anybody /\ knownUser \in Anybody /\ currentUser \in Anybody
    /\ mainQ \in Seq(MainBlock)
    /\ workerQ \in Seq(WorkerBlock)
    /\ tokenCounter \in Nat
    /\ callbacks \in [Anybody -> SUBSET [id : Nat \ {0}, doc : Doc]]
    /\ acking \in Seq(Batch) /\ Len(acking) <= 1
    /\ queue \in [Anybody -> Seq(Batch)]
    /\ nextId \in Nat \ {0}
    /\ remote \in Remote
    /\ applied \subseteq Batch /\ refused \subseteq Batch
    /\ told \in [Doc -> {"nothing", "ok", "failed"}]
    /\ issued \in 0 .. MaxWrites /\ changes \in 0 .. MaxChanges /\ faults \in 0 .. MaxFaults
    /\ crash \in BOOLEAN

\* None of the client's assertions fails: no stream is stopped as idle while batches wait,
\* no result comes without a batch it could be for, no batch is removed that is not in the
\* queue, no token comes to a stream that does not wait for one.
NoAssertionFails == ~crash

\* The pipeline holds the first batches of the current user's queue, as many as it may;
\* in the middle of an acknowledgement the queue still has the batch before them.
PipelineIsFull ==
    ~crash =>
    LET whole == acking \o remote.pipeline
        q == queue[currentUser]
    IN  /\ Len(whole) <= Len(q) /\ whole = SubSeq(q, 1, Len(whole))
        /\ Len(whole) <= MaxPendingWrites
        /\ Len(whole) < MaxPendingWrites => Len(whole) = Len(q)

\* A stream rests only while nothing is to be written.
NeverStalls == ~crash /\ acking = <<>> /\ remote.pipeline # <<>> => IsStarted(remote)

\* Results carry no id: the i-th one unread is for the i-th batch of the pipeline, and
\* what is on its way to the server follows.
ResultsInStep ==
    LET r == remote IN
    ~crash /\ r.handshake =>
        /\ Len(r.responses) + Len(r.requests) <= Len(r.pipeline)
        /\ r.responses = SubSeq(r.pipeline, 1, Len(r.responses))
        /\ r.ended = "none" => r.responses \o r.requests = r.pipeline

\* The RPC is opened with the token of the user whose queue is written, though the user is
\* read on one thread, the token on another and the queue on a third.
OpenedForItsOwner == remote.state = "open" => remote.user = currentUser

\* A callback waits for the very write it came with, though the map knows it by an id that
\* is computed anew at every launch and change of user.
CallbackOfItsWrite ==
    \A u \in Anybody : \A c \in callbacks[u] :
        \E i \in DOMAIN queue[u] :
            /\ queue[u][i].doc = c.doc
            /\ \A j \in DOMAIN queue[u] : queue[u][j].id = c.id <=> j = i

\* Who is told that a write is stored finds it on the server.
StoredIfTold == \A d \in Doc : told[d] = "ok" => \E b \in applied : b.doc = d

\* Who is told that a write failed does not find it on the server.
NotStoredIfRejected == \A d \in Doc : told[d] = "failed" => \A b \in applied : b.doc # d

\* A write that the server accepts is never refused for coming with the wrong token.
RefusedOnItsMerits == \A b \in refused : ~b.ok

\* The server has applied no write while an earlier one of the same user still waits for
\* being applied, whatever was sent twice or arrives late.
AppliedInOrder ==
    \A b \in applied : \A i \in DOMAIN queue[b.user] :
        queue[b.user][i].doc < b.doc => queue[b.user][i] \in applied

\* The client keeps the promise of Outbox: whatever is sent twice, arrives late, or dies with
\* the process, writes reach the server and leave the queue in their order, never unanswered,
\* and each caller is told at most once, and the truth.
O == INSTANCE Outbox WITH
    Users <- Anybody, Writes <- [id : 1 .. MaxWrites, user : Users, doc : Doc, ok : Verdicts],
    Docs <- Doc, outbox <- queue, stored <- applied
KeepsItsPromise == O!Spec

------------------------------------------------------------------------------
(* Liveness *)

\* The queues run and servers answer; users and failures need not act.
Fairness ==
    /\ WF_vars(OnAuthStateChange) /\ WF_vars(OnToken) /\ WF_vars(OnAnswer)
    /\ WF_vars(\E ask \in remote.asks : TakeToken(ask) \/ GiveToken(ask, TRUE))
    /\ WF_vars(HandleCredentialChange) /\ WF_vars(HandleWrite) /\ WF_vars(ResumeStart)
    /\ WF_vars(BackoffElapses) /\ WF_vars(OnHandshakeComplete) /\ WF_vars(OnMutationResult)
    /\ WF_vars(AcknowledgeBatch) /\ WF_vars(OnStreamFinish)
    /\ WF_vars(ServerGreets) /\ WF_vars(ServerHandles)

FairSpec == Spec /\ Fairness

\* A write in the queue of a user who stays is answered by the server and leaves the queue,
\* however often the stream broke before.
Delivered ==
    \A u \in Users, d \in Doc :
        (\E i \in DOMAIN queue[u] : queue[u][i].doc = d) ~>
            ((\A i \in DOMAIN queue[u] : queue[u][i].doc # d) \/ currentUser # u)
====
