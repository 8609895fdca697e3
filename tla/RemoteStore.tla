---- MODULE RemoteStore ----
(***************************************************************************)
(* What RemoteStore and its write stream do in one turn of Firestore's     *)
(* worker queue, as functions of their state.  A state r is a record:      *)
(*   pipeline   write_pipeline_, the batches sent or to be sent            *)
(*   state      Stream::state_                                             *)
(*   handshake  WriteStream::handshake_complete_                           *)
(*   idle       whether idleness_timer_ runs                               *)
(*   closes     Stream::close_count_                                       *)
(*   asks       the calls of GetToken FIRAuth has not answered             *)
(*   user       whose token the open RPC was opened with                   *)
(*   hello      the handshake: "asked", "answered", or "none" once read    *)
(*   requests   the writes on their way to the server                      *)
(*   responses  the batches whose results wait to be read                  *)
(*   ended      the status the RPC ended with, or "none"                   *)
(*   strays     what RPCs the client gave up may still do to the server    *)
(***************************************************************************)
EXTENDS Naturals, Sequences

CONSTANTS
    NoUser,
    MaxPendingWrites \* kMaxPendingWrites

ASSUME MaxPendingAssumption == MaxPendingWrites \in Nat \ {0}

\* The streams are made when the client is, and not started.
Fresh == [pipeline |-> <<>>, state |-> "initial", handshake |-> FALSE, idle |-> FALSE,
          closes |-> 0, asks |-> {}, user |-> NoUser, hello |-> "none", requests |-> <<>>,
          responses |-> <<>>, ended |-> "none", strays |-> {}]

\* Mutant: aborted writes are given up as well.
AbortedIsPermanent(code) == code \in {"Aborted", "PermissionDenied"}

\* A repeated write is not going to fail the same way after the other codes.
IsPermanentWriteError(code) == code = "PermissionDenied"

IsStarted(r) == r.state \in {"starting", "backoff", "open"}

ShouldStartWriteStream(r) == r.pipeline # <<>> /\ ~IsStarted(r)

\* Stream::Start: after an error wait first, else ask for the user's token.
Start(r, counter) ==
    IF r.state = "error"
    THEN [r EXCEPT !.state = "backoff"]
    ELSE [r EXCEPT !.state = "starting",
                   !.asks = @ \cup {[closes |-> r.closes, counter |-> counter, user |-> <<>>]}]

StartIfNeeded(r, counter) == IF ShouldStartWriteStream(r) THEN Start(r, counter) ELSE r

\* Mutant: a write leaves the idle timer running.
WriteKeepsTimer(r, batches) ==
    IF batches = <<>> THEN r ELSE [r EXCEPT !.requests = @ \o batches]

\* WriteStream::WriteMutations, for each of the batches.
WriteMutations(r, batches) ==
    IF batches = <<>> THEN r ELSE [r EXCEPT !.requests = @ \o batches, !.idle = FALSE]

\* Mutant: a write is sent as soon as the stream is open.
AddBeforeHandshake(r, batches) ==
    LET added == [r EXCEPT !.pipeline = @ \o batches]
    IN  IF r.state = "open" THEN WriteMutations(added, batches) ELSE added

AddToWritePipeline(r, batches) ==
    LET added == [r EXCEPT !.pipeline = @ \o batches]
    IN  IF r.state = "open" /\ r.handshake THEN WriteMutations(added, batches) ELSE added

\* With nothing left to write an open stream starts its idle timer.
MarkIdle(r) == IF r.pipeline = <<>> /\ r.state = "open" THEN [r EXCEPT !.idle = TRUE] ELSE r

\* NextMutationBatchAfterBatchId: the queue is kept in the order of the batch ids.
NextAfter(queue, id) ==
    CHOOSE i \in 1 .. Len(queue) + 1 :
        /\ \A j \in 1 .. i - 1 : queue[j].id <= id
        /\ i <= Len(queue) => queue[i].id > id

\* Mutant: the id of the first batch is taken for the unknown one.
SkipsFirst(r, queue) ==
    LET last == IF r.pipeline = <<>> THEN 1 ELSE r.pipeline[Len(r.pipeline)].id
        next == NextAfter(queue, last)
        end == next + MaxPendingWrites - Len(r.pipeline) - 1
    IN  SubSeq(queue, next, IF end <= Len(queue) THEN end ELSE Len(queue))

\* Mutant: one batch more than there is room for.
OverFills(r, queue) ==
    LET last == IF r.pipeline = <<>> THEN 0 ELSE r.pipeline[Len(r.pipeline)].id
        next == NextAfter(queue, last)
        end == next + MaxPendingWrites - Len(r.pipeline)
    IN  SubSeq(queue, next, IF end <= Len(queue) THEN end ELSE Len(queue))

\* The batches FillWritePipeline adds: those after the last one, while there is room.
NextBatches(r, queue) ==
    LET last == IF r.pipeline = <<>> THEN 0 ELSE r.pipeline[Len(r.pipeline)].id
        next == NextAfter(queue, last)
        end == next + MaxPendingWrites - Len(r.pipeline) - 1
    IN  SubSeq(queue, next, IF end <= Len(queue) THEN end ELSE Len(queue))

FillWritePipeline(r, queue, counter) ==
    StartIfNeeded(MarkIdle(AddToWritePipeline(r, NextBatches(r, queue))), counter)

\* An RPC that is given up may still do what was sent on it, unless the server ended it.
Abandoned(r) ==
    IF r.requests = <<>> \/ r.ended = "PermissionDenied" THEN r.strays
    ELSE r.strays \cup {[user |-> r.user, requests |-> r.requests]}

\* Mutant: the results of the old RPC are still read.
CloseKeepsResults(r, state) ==
    [r EXCEPT !.state = state, !.idle = FALSE, !.closes = @ + 1, !.user = NoUser,
              !.hello = "none", !.requests = <<>>, !.ended = "none", !.strays = Abandoned(r)]

\* Stream::Close up to the notification of the delegate.
Close(r, state) ==
    [r EXCEPT !.state = state, !.idle = FALSE, !.closes = @ + 1, !.user = NoUser,
              !.hello = "none", !.requests = <<>>, !.responses = <<>>, !.ended = "none",
              !.strays = Abandoned(r)]

\* Stream::Stop and the delegate, which does nothing after a stop that was wanted.
Stop(r) == IF IsStarted(r) THEN [Close(r, "initial") EXCEPT !.handshake = FALSE] ELSE r

\* Mutant: an open stream is kept for the next user.
RestartKeepsStream(r, queue, counter) ==
    IF r.state = "open" THEN FillWritePipeline([r EXCEPT !.pipeline = <<>>], queue, counter)
    ELSE FillWritePipeline([Stop(r) EXCEPT !.pipeline = <<>>, !.state = "initial"], queue, counter)

\* Both streams stop, the pipeline is emptied and filled from the queue again.
RestartNetwork(r, queue, counter) ==
    FillWritePipeline([Stop(r) EXCEPT !.pipeline = <<>>, !.state = "initial"], queue, counter)

\* Whether an error is taken for the answer to the first write of the pipeline.
RejectsFront(r, code) == r.pipeline # <<>> /\ r.handshake /\ IsPermanentWriteError(code)

\* Mutant: a stream that failed is not started again.
CloseForGood(r, code, queue, counter) == [Close(r, "error") EXCEPT !.handshake = FALSE]

\* OnWriteStreamClose after an error, for a queue that has lost what was rejected.
OnWriteStreamClose(r, code, queue, counter) ==
    LET failed == Close(r, "error")
        handled == IF RejectsFront(r, code)
                   THEN FillWritePipeline([failed EXCEPT !.pipeline = Tail(@),
                                                         !.state = "initial"], queue, counter)
                   ELSE failed
    IN  StartIfNeeded([handled EXCEPT !.handshake = FALSE], counter)
====
