---- MODULE RemoteStoreProofs ----
(***************************************************************************)
(* What the functions of RemoteStore do to a pipeline and a stream that    *)
(* are in order, whatever the queue they fill the pipeline from: the       *)
(* lemmas on which the proofs about WritePipeline rest.                    *)
(***************************************************************************)
EXTENDS WritePipeline, Integers, SequenceTheorems, TLAPS

------------------------------------------------------------------------------
(* What it is for a queue, a pipeline and a stream to be in order *)

Sorted(q) == \A i, j \in DOMAIN q : i < j => q[i].id < q[j].id

\* The batches of p are the first ones of q.
Front(p, q) == Len(p) <= Len(q) /\ p = SubSeq(q, 1, Len(p))

\* A front of q for which there is room.
Fits(p, q) == Front(p, q) /\ Len(p) <= MaxPendingWrites

\* A front that leaves nothing out for which there is room.
Filled(p, q) == Fits(p, q) /\ (Len(p) < MaxPendingWrites => Len(p) = Len(q))

\* Nothing of an RPC is left where the stream is not open, nothing is written before the
\* handshake, and the idle timer runs while there is nothing to write.
Orderly(r) ==
    /\ r.state # "open" => ~r.handshake /\ ~r.idle /\ r.hello = "none" /\ r.ended = "none"
    /\ ~r.handshake => r.requests = <<>> /\ r.responses = <<>>
    /\ r.hello # "none" => ~r.handshake
    /\ r.idle => r.pipeline = <<>>
    /\ IsStarted(r) /\ ~r.handshake => r.pipeline # <<>>

InStep(r) ==
    r.handshake =>
        /\ Len(r.responses) + Len(r.requests) <= Len(r.pipeline)
        /\ r.responses = SubSeq(r.pipeline, 1, Len(r.responses))
        /\ r.ended = "none" => r.responses \o r.requests = r.pipeline

Running(r) == r.pipeline # <<>> => IsStarted(r)

\* The tokens asked for since the stream was last closed: on FIRAuth's queue, on the main
\* thread and on the worker.
AsksNow(r) == {a \in r.asks : a.closes = r.closes}
MainNow(r, m) == {i \in DOMAIN m : m[i].kind = "token" /\ m[i].ask.closes = r.closes}
WorkerNow(r, w) == {i \in DOMAIN w : w[i].kind = "token" /\ w[i].closes = r.closes}

NoToken(r, m, w) == AsksNow(r) = {} /\ MainNow(r, m) = {} /\ WorkerNow(r, w) = {}

\* There is at most one, and none but for a stream that waits for it.
Tokens(r, m, w) ==
    /\ \A a \in r.asks : a.closes <= r.closes
    /\ \A i \in DOMAIN m : m[i].kind = "token" => m[i].ask.closes <= r.closes
    /\ \A i \in DOMAIN w : w[i].kind = "token" => w[i].closes <= r.closes
    /\ \A a, b \in AsksNow(r) : a = b
    /\ \A i, j \in MainNow(r, m) : i = j
    /\ \A i, j \in WorkerNow(r, w) : i = j
    /\ AsksNow(r) # {} => MainNow(r, m) = {} /\ WorkerNow(r, w) = {}
    /\ MainNow(r, m) # {} => WorkerNow(r, w) = {}
    /\ r.state # "starting" => NoToken(r, m, w)

------------------------------------------------------------------------------
(* The pipeline is filled from the queue *)

LEMMA BatchIds == ASSUME NEW b \in Batch PROVE b.id \in Nat \ {0}
BY DEF Batch

\* In a sorted queue the batches after the n-th one begin with the one behind it.
LEMMA NextIsBehind ==
    ASSUME NEW q \in Seq(Batch), Sorted(q), NEW n \in 0 .. Len(q),
           NEW last \in Nat, n = 0 => last = 0, n # 0 => last = q[n].id
    PROVE  NextAfter(q, last) = n + 1
<1> DEFINE P(i) == (\A j \in 1 .. i - 1 : q[j].id <= last) /\ (i <= Len(q) => q[i].id > last)
<1>0. /\ Len(q) \in Nat /\ DOMAIN q = 1 .. Len(q)
      /\ \A i \in 1 .. Len(q) : q[i] \in Batch /\ q[i].id \in Nat \ {0}
  <2>1. Len(q) \in Nat /\ DOMAIN q = 1 .. Len(q) /\ \A i \in 1 .. Len(q) : q[i] \in Batch
    OBVIOUS
  <2> QED BY <2>1, BatchIds
<1>1. n + 1 \in 1 .. Len(q) + 1 /\ P(n + 1)
  <2>1. \A j \in 1 .. n : q[j].id <= last
    BY <1>0 DEF Sorted
  <2>2. n + 1 <= Len(q) => q[n + 1].id > last
    BY <1>0 DEF Sorted
  <2> QED BY <1>0, <2>1, <2>2
<1>2. ASSUME NEW i \in 1 .. Len(q) + 1, P(i) PROVE i = n + 1
  <2>1. CASE i < n + 1
    <3>1. i \in 1 .. n /\ i <= Len(q) /\ q[i].id > last
      BY <1>0, <1>2, <2>1
    <3>2. n # 0 /\ last = q[n].id
      BY <3>1
    <3>3. q[i].id <= q[n].id
      BY <1>0, <3>1, <3>2 DEF Sorted
    <3> QED BY <1>0, <3>1, <3>2, <3>3
  <2>2. CASE i > n + 1
    <3>1. n + 1 \in 1 .. i - 1 /\ n + 1 <= Len(q)
      BY <1>0, <2>2
    <3>2. q[n + 1].id <= last
      BY <1>2, <3>1
    <3> QED BY <1>0, <1>1, <3>1, <3>2
  <2> QED BY <1>0, <2>1, <2>2
<1>3. NextAfter(q, last) = CHOOSE i \in 1 .. Len(q) + 1 : P(i)
  BY DEF NextAfter
<1>4. \A i \in 1 .. Len(q) + 1 : P(i) => i = n + 1
  BY <1>2
<1> HIDE DEF P
<1> QED BY <1>1, <1>3, <1>4

\* What FillWritePipeline adds makes a pipeline that fits a filled one.
LEMMA NextBatchesFill ==
    ASSUME NEW r \in Remote, NEW q \in Seq(Batch), Sorted(q), Fits(r.pipeline, q)
    PROVE  /\ NextBatches(r, q) \in Seq(Batch)
           /\ r.pipeline \o NextBatches(r, q) \in Seq(Batch)
           /\ Filled(r.pipeline \o NextBatches(r, q), q)
<1> DEFINE p == r.pipeline
           n == Len(p)
           last == IF p = <<>> THEN 0 ELSE p[n].id
           m == IF MaxPendingWrites <= Len(q) THEN MaxPendingWrites ELSE Len(q)
<1>0. /\ p \in Seq(Batch) /\ n \in Nat /\ Len(q) \in Nat /\ MaxPendingWrites \in Nat \ {0}
      /\ n <= Len(q) /\ p = SubSeq(q, 1, n) /\ n <= MaxPendingWrites
  BY MaxPendingAssumption DEF Remote, Fits, Front
<1>1. last \in Nat /\ (n = 0 => last = 0) /\ (n # 0 => last = q[n].id)
  <2>1. CASE n = 0
    BY <1>0, <2>1
  <2>2. CASE n # 0
    <3>1. p # <<>> /\ p[n] = q[n]
      BY <1>0, <2>2
    <3>2. p[n] \in Batch
      BY <1>0, <2>2
    <3> QED BY <2>2, <3>1, <3>2 DEF Batch
  <2> QED BY <2>1, <2>2
<1>2. NextAfter(q, last) = n + 1
  BY <1>0, <1>1, NextIsBehind
<1>3. NextBatches(r, q) = SubSeq(q, n + 1, m)
  <2>1. NextBatches(r, q) =
          LET end == n + 1 + MaxPendingWrites - n - 1
          IN  SubSeq(q, n + 1, IF end <= Len(q) THEN end ELSE Len(q))
    BY <1>2 DEF NextBatches
  <2>2. ASSUME NEW k \in Nat, NEW l \in Nat PROVE k + 1 + l - k - 1 = l
    OBVIOUS
  <2> QED BY <1>0, <2>1, <2>2
<1>4. n <= m /\ m <= Len(q) /\ m \in Nat
  BY <1>0
<1> HIDE DEF p, n, last, m
<1>5. SubSeq(q, n + 1, m) \in Seq(Batch) /\ SubSeq(q, 1, m) \in Seq(Batch) /\ Len(SubSeq(q, 1, m)) = m
  BY <1>0, <1>4
<1>6. p \o SubSeq(q, n + 1, m) = SubSeq(q, 1, m)
  BY <1>0, <1>4, <1>5
<1>7. Filled(SubSeq(q, 1, m), q)
  BY <1>0, <1>4, <1>5 DEF Filled, Fits, Front, m
<1> QED BY <1>3, <1>5, <1>6, <1>7 DEF p

------------------------------------------------------------------------------
(* FillWritePipeline *)

\* What FillWritePipeline makes of each field of r for the batches b it adds.
IsFill(f, r, b, c) ==
    LET sends == r.state = "open" /\ r.handshake
        starts == r.pipeline \o b # <<>> /\ ~IsStarted(r)
    IN  /\ f \in Remote
        /\ f.pipeline = r.pipeline \o b
        /\ f.state = IF starts THEN (IF r.state = "error" THEN "backoff" ELSE "starting")
                     ELSE r.state
        /\ f.handshake = r.handshake
        /\ f.idle => \/ r.state = "open" /\ r.pipeline \o b = <<>>
                     \/ r.idle /\ ~(sends /\ b # <<>>)
        /\ f.closes = r.closes
        /\ f.asks = IF starts /\ r.state # "error"
                    THEN r.asks \cup {[closes |-> r.closes, counter |-> c, user |-> <<>>]}
                    ELSE r.asks
        /\ f.user = r.user
        /\ f.hello = r.hello
        /\ f.requests = IF sends THEN r.requests \o b ELSE r.requests
        /\ f.responses = r.responses
        /\ f.ended = r.ended
        /\ f.strays = r.strays

\* A stream that asks for a token.
Starting(u, k) == [u EXCEPT !.state = "starting", !.asks = k]

LEMMA StartingFields ==
    ASSUME NEW u \in Remote, NEW k \in SUBSET Ask
    PROVE  /\ Starting(u, k) \in Remote
           /\ Starting(u, k).state = "starting" /\ Starting(u, k).asks = k
           /\ Starting(u, k).pipeline = u.pipeline /\ Starting(u, k).handshake = u.handshake
           /\ Starting(u, k).idle = u.idle /\ Starting(u, k).closes = u.closes
           /\ Starting(u, k).user = u.user /\ Starting(u, k).hello = u.hello
           /\ Starting(u, k).requests = u.requests /\ Starting(u, k).responses = u.responses
           /\ Starting(u, k).ended = u.ended /\ Starting(u, k).strays = u.strays
BY DEF Remote, Starting

LEMMA FillFields ==
    ASSUME NEW r \in Remote, NEW q, NEW c \in Nat, NextBatches(r, q) \in Seq(Batch)
    PROVE  IsFill(FillWritePipeline(r, q, c), r, NextBatches(r, q), c)
<1> DEFINE b == NextBatches(r, q)
           sends == r.state = "open" /\ r.handshake
           p == r.pipeline \o b
           t == AddToWritePipeline(r, b)
           u == MarkIdle(t)
           f == StartIfNeeded(u, c)
           starts == p # <<>> /\ ~IsStarted(r)
           ask == [closes |-> r.closes, counter |-> c, user |-> <<>>]
<1>1. f = FillWritePipeline(r, q, c)
  BY DEF FillWritePipeline
<1>2. p \in Seq(Batch) /\ r.requests \o b \in Seq(Batch)
  BY DEF Remote
<1>3. /\ t \in Remote
      /\ t = [r EXCEPT !.pipeline = p, !.requests = IF sends THEN r.requests \o b ELSE r.requests,
                       !.idle = r.idle /\ ~(sends /\ b # <<>>)]
  <2>1. CASE sends /\ b # <<>>
    BY <1>2, <2>1 DEF AddToWritePipeline, WriteMutations, Remote
  <2>2. CASE sends /\ b = <<>>
    <3>1. r.requests \o b = r.requests
      BY <2>2 DEF Remote
    <3> QED BY <1>2, <2>2, <3>1 DEF AddToWritePipeline, WriteMutations, Remote
  <2>3. CASE ~sends
    BY <1>2, <2>3 DEF AddToWritePipeline, Remote
  <2> QED BY <2>1, <2>2, <2>3
<1>4. /\ u \in Remote
      /\ u = [t EXCEPT !.idle = (r.state = "open" /\ p = <<>>) \/ t.idle]
  BY <1>2, <1>3 DEF MarkIdle, Remote
<1> HIDE DEF u, t, p, sends, b
<1>5. ask \in Ask
  BY DEF Ask, Remote
<1>6. /\ u.pipeline = p /\ u.state = r.state /\ u.handshake = r.handshake
      /\ u.closes = r.closes /\ u.asks = r.asks /\ u.user = r.user /\ u.hello = r.hello
      /\ u.requests = IF sends THEN r.requests \o b ELSE r.requests
      /\ u.responses = r.responses /\ u.ended = r.ended /\ u.strays = r.strays
  BY <1>3, <1>4 DEF Remote
<1>7. u.idle <=> (r.state = "open" /\ p = <<>>) \/ (r.idle /\ ~(sends /\ b # <<>>))
  BY <1>3, <1>4, ZenonT(40) DEF Remote
<1>8. ShouldStartWriteStream(u) <=> starts
  BY <1>6 DEF ShouldStartWriteStream, IsStarted
<1>9. CASE ~starts
  <2>1. f = u
    BY <1>8, <1>9 DEF StartIfNeeded
  <2> QED BY <1>1, <1>4, <1>6, <1>7, <1>9, <2>1, ZenonT(40) DEF p, sends, b, IsFill
<1>10. CASE starts /\ r.state = "error"
  <2>1. f = [u EXCEPT !.state = "backoff"]
    BY <1>6, <1>8, <1>10 DEF StartIfNeeded, Start
  <2>2. /\ f \in Remote /\ f.state = "backoff"
        /\ f.pipeline = u.pipeline /\ f.handshake = u.handshake /\ f.idle = u.idle
        /\ f.closes = u.closes /\ f.asks = u.asks /\ f.user = u.user /\ f.hello = u.hello
        /\ f.requests = u.requests /\ f.responses = u.responses /\ f.ended = u.ended
        /\ f.strays = u.strays
    <3> HIDE DEF f
    <3> QED BY <1>4, <2>1, ZenonT(40) DEF Remote
  <2> HIDE DEF f
  <2> QED BY <1>1, <1>6, <1>7, <1>10, <2>2 DEF p, sends, b, IsFill
<1>11. CASE starts /\ r.state # "error"
  <2>1. f = [u EXCEPT !.state = "starting", !.asks = u.asks \cup {ask}]
    BY <1>6, <1>8, <1>11 DEF StartIfNeeded, Start
  <2>2. /\ f \in Remote /\ f.state = "starting" /\ f.asks = r.asks \cup {ask}
        /\ f.pipeline = u.pipeline /\ f.handshake = u.handshake /\ f.idle = u.idle
        /\ f.closes = u.closes /\ f.user = u.user /\ f.hello = u.hello
        /\ f.requests = u.requests /\ f.responses = u.responses /\ f.ended = u.ended
        /\ f.strays = u.strays
    <3> HIDE DEF ask, f
    <3> DEFINE k == r.asks \cup {ask}
    <3>1. k \in SUBSET Ask /\ u.asks = r.asks
      BY <1>5, <1>6 DEF Remote
    <3>2. f = Starting(u, k)
      BY <2>1, <3>1 DEF Starting
    <3> HIDE DEF k, f
    <3>3. k \in SUBSET Ask /\ u \in Remote
      BY <1>4, <3>1
    <3> QED BY <3>2, <3>3, StartingFields DEF k
  <2> HIDE DEF f
  <2> QED BY <1>1, <1>6, <1>7, <1>11, <2>2 DEF p, sends, b, IsFill
<1> QED BY <1>9, <1>10, <1>11

\* A pipeline that fits is filled, the stream stays or gets in order and runs if needed.
LEMMA FillKeepsOrder ==
    ASSUME NEW r \in Remote, NEW q \in Seq(Batch), NEW c \in Nat, Sorted(q), Fits(r.pipeline, q),
           Orderly(r), InStep(r)
    PROVE  LET f == FillWritePipeline(r, q, c)
           IN  f \in Remote /\ Filled(f.pipeline, q) /\ Orderly(f) /\ InStep(f) /\ Running(f)
<1> DEFINE f == FillWritePipeline(r, q, c)
           b == NextBatches(r, q)
<1>0. b \in Seq(Batch) /\ Filled(r.pipeline \o b, q)
  BY NextBatchesFill
<1>f. IsFill(f, r, b, c)
  BY <1>0, FillFields
<1> HIDE DEF f, b
<1>1. b \in Seq(Batch) /\ Filled(r.pipeline \o b, q)
  BY <1>0
<1>2. /\ f \in Remote
      /\ f.pipeline = r.pipeline \o b
      /\ f.state = IF r.pipeline \o b # <<>> /\ ~IsStarted(r)
                   THEN (IF r.state = "error" THEN "backoff" ELSE "starting") ELSE r.state
      /\ f.handshake = r.handshake
      /\ f.hello = r.hello
      /\ f.requests = IF r.state = "open" /\ r.handshake THEN r.requests \o b ELSE r.requests
      /\ f.responses = r.responses
      /\ f.ended = r.ended
      /\ f.idle => \/ r.state = "open" /\ r.pipeline \o b = <<>>
                   \/ r.idle /\ ~(r.state = "open" /\ r.handshake /\ b # <<>>)
  BY <1>f DEF IsFill
<1>3. /\ r.pipeline \in Seq(Batch) /\ r.requests \in Seq(Batch) /\ r.responses \in Seq(Batch)
      /\ r.state \in {"initial", "starting", "backoff", "error", "open"}
  BY DEF Remote
<1>4. Filled(f.pipeline, q)
  BY <1>1, <1>2
<1>5. Running(f)
  BY <1>2, <1>3 DEF Running, IsStarted
<1>6. Orderly(f)
  <2>1. r.pipeline # <<>> => r.pipeline \o b # <<>>
    BY <1>1, <1>3
  <2>2. r.idle => r.pipeline = <<>> /\ r.state = "open" /\ r.handshake
    BY DEF Orderly, IsStarted
  <2>3. f.idle => f.pipeline = <<>> /\ r.state = "open"
    BY <1>1, <1>2, <1>3, <2>2
  <2>4. f.state = "open" <=> r.state = "open"
    BY <1>2 DEF IsStarted
  <2>5. f.state # "open" => ~f.handshake /\ ~f.idle /\ f.hello = "none" /\ f.ended = "none"
    BY <1>2, <2>3, <2>4 DEF Orderly
  <2>6. ~f.handshake => f.requests = <<>> /\ f.responses = <<>>
    BY <1>2 DEF Orderly
  <2>7. f.hello # "none" => ~f.handshake
    BY <1>2 DEF Orderly
  <2>8. IsStarted(f) /\ ~f.handshake => f.pipeline # <<>>
    BY <1>2, <2>1 DEF Orderly, IsStarted
  <2> QED BY <2>3, <2>5, <2>6, <2>7, <2>8 DEF Orderly
<1>7. InStep(f)
  <2>1. SUFFICES ASSUME r.handshake
                 PROVE  /\ Len(f.responses) + Len(f.requests) <= Len(f.pipeline)
                        /\ f.responses = SubSeq(f.pipeline, 1, Len(f.responses))
                        /\ f.ended = "none" => f.responses \o f.requests = f.pipeline
    BY <1>2 DEF InStep
  <2>2. r.state = "open" /\ f.requests = r.requests \o b
    BY <1>2, <2>1 DEF Orderly
  <2>3. /\ Len(r.responses) + Len(r.requests) <= Len(r.pipeline)
        /\ r.responses = SubSeq(r.pipeline, 1, Len(r.responses))
        /\ r.ended = "none" => r.responses \o r.requests = r.pipeline
    BY <2>1 DEF InStep
  <2>4. Len(f.responses) + Len(f.requests) <= Len(f.pipeline)
    <3>1. /\ Len(r.requests \o b) = Len(r.requests) + Len(b)
          /\ Len(r.pipeline \o b) = Len(r.pipeline) + Len(b)
      BY <1>1, <1>3, ConcatProperties
    <3>2. Len(b) \in Nat /\ Len(r.requests) \in Nat /\ Len(r.pipeline) \in Nat /\ Len(r.responses) \in Nat
      BY <1>1, <1>3
    <3>3. Len(r.responses) + Len(r.requests) <= Len(r.pipeline)
      BY <2>3
    <3>. ASSUME NEW x \in Nat, NEW y \in Nat, NEW z \in Nat, NEW k \in Nat, x + y <= z
          PROVE  x + (y + k) <= z + k
      OBVIOUS
    <3>4. Len(r.responses) + (Len(r.requests) + Len(b)) <= Len(r.pipeline) + Len(b)
      BY <3>2, <3>3
    <3> QED BY <1>2, <2>2, <3>1, <3>4
  <2>5. SubSeq(r.pipeline \o b, 1, Len(r.responses)) = SubSeq(r.pipeline, 1, Len(r.responses))
    <3>1. CASE Len(r.responses) = 0
      BY <1>1, <1>3, <3>1
    <3>2. CASE Len(r.responses) # 0
      <4>1. Len(r.responses) + Len(r.requests) <= Len(r.pipeline)
        BY <2>3
      <4>2. Len(r.responses) \in 1 .. Len(r.pipeline) /\ 1 \in 1 .. Len(r.pipeline)
        <5>1. Len(r.requests) \in Nat /\ Len(r.pipeline) \in Nat /\ Len(r.responses) \in Nat
          BY <1>3
        <5> ASSUME NEW x \in Nat, NEW y \in Nat, NEW z \in Nat, x + y <= z, x # 0
            PROVE  x \in 1 .. z /\ 1 \in 1 .. z
          OBVIOUS
        <5> QED BY <3>2, <4>1, <5>1
      <4> QED BY <1>1, <1>3, <4>2, SubSeqOfConcat1
    <3> QED BY <3>1, <3>2
  <2>6. r.responses \o (r.requests \o b) = (r.responses \o r.requests) \o b
    <3>1. \A x, y, z \in Seq(Batch) : x \o (y \o z) = (x \o y) \o z
      BY ConcatAssociative
    <3>2. r.responses \in Seq(Batch) /\ r.requests \in Seq(Batch) /\ b \in Seq(Batch)
      BY <1>1, <1>3
    <3> HIDE DEF b
    <3> QED BY <3>1, <3>2, Zenon
  <2> QED BY <1>2, <2>2, <2>3, <2>4, <2>5, <2>6, ZenonT(40)
<1> QED BY <1>2, <1>4, <1>5, <1>6, <1>7 DEF f

\* A token is asked for only when there is none.
LEMMA FillKeepsTokens ==
    ASSUME NEW r \in Remote, NEW q \in Seq(Batch), NEW c \in Nat, Sorted(q), Fits(r.pipeline, q),
           NEW m, NEW w, Tokens(r, m, w)
    PROVE  Tokens(FillWritePipeline(r, q, c), m, w)
<1> DEFINE f == FillWritePipeline(r, q, c)
           b == NextBatches(r, q)
           ask == [closes |-> r.closes, counter |-> c, user |-> <<>>]
           starts == r.pipeline \o b # <<>> /\ ~IsStarted(r)
<1>0. b \in Seq(Batch)
  BY NextBatchesFill
<1>1. IsFill(f, r, b, c)
  BY <1>0, FillFields
<1> HIDE DEF f, b
<1>2. /\ f.state = IF starts THEN (IF r.state = "error" THEN "backoff" ELSE "starting") ELSE r.state
      /\ f.closes = r.closes
      /\ f.asks = IF starts /\ r.state # "error" THEN r.asks \cup {ask} ELSE r.asks
  BY <1>1 DEF IsFill, ask
<1>3. r.closes \in Nat /\ ask.closes = r.closes
  BY DEF Remote, ask
<1>4. MainNow(f, m) = MainNow(r, m) /\ WorkerNow(f, w) = WorkerNow(r, w)
  BY <1>2 DEF MainNow, WorkerNow
<1> HIDE DEF ask
<1>5. CASE starts /\ r.state # "error"
  <2>1. NoToken(r, m, w)
    BY <1>5 DEF Tokens, IsStarted
  <2>2. AsksNow(f) = {ask}
    BY <1>2, <1>3, <1>5, <2>1 DEF AsksNow, NoToken
  <2>3. \A a \in f.asks : a.closes <= f.closes
    BY <1>2, <1>3, <1>5 DEF Tokens
  <2> QED BY <1>2, <1>4, <1>5, <2>1, <2>2, <2>3 DEF Tokens, NoToken, f
<1>6. CASE ~(starts /\ r.state # "error")
  <2>1. f.asks = r.asks /\ AsksNow(f) = AsksNow(r)
    BY <1>2, <1>6 DEF AsksNow
  <2>2. f.state # "starting" => r.state # "starting"
    BY <1>2, <1>6 DEF IsStarted
  <2> QED BY <1>2, <1>4, <2>1, <2>2 DEF Tokens, NoToken, f
<1> QED BY <1>5, <1>6

------------------------------------------------------------------------------
(* Streams that are closed *)

LEMMA FrontOfNothing == ASSUME NEW q \in Seq(Batch) PROVE Fits(<<>>, q)
<1>1. Len(<<>>) = 0 /\ SubSeq(q, 1, 0) = <<>> /\ Len(q) \in Nat /\ 0 <= MaxPendingWrites
  BY MaxPendingAssumption
<1> QED BY <1>1 DEF Fits, Front

LEMMA AbandonedStrays == ASSUME NEW r \in Remote PROVE Abandoned(r) \subseteq Stray
BY DEF Abandoned, Remote, Stray

\* What Close makes of each field.
LEMMA CloseFields ==
    ASSUME NEW r \in Remote, NEW s \in {"initial", "error"}
    PROVE  LET y == Close(r, s)
           IN  /\ y \in Remote
               /\ y.pipeline = r.pipeline /\ y.state = s /\ y.handshake = r.handshake
               /\ ~y.idle /\ y.closes = r.closes + 1 /\ y.asks = r.asks
               /\ y.hello = "none" /\ y.requests = <<>> /\ y.responses = <<>> /\ y.ended = "none"
<1> DEFINE y == Close(r, s)
           a == Abandoned(r)
<1>1. a \subseteq Stray /\ NoUser \in Anybody /\ <<>> \in Seq(Batch)
  BY AbandonedStrays DEF Anybody
<1>2. y = [r EXCEPT !.state = s, !.idle = FALSE, !.closes = @ + 1, !.user = NoUser,
                    !.hello = "none", !.requests = <<>>, !.responses = <<>>, !.ended = "none",
                    !.strays = a]
  BY DEF Close
<1> HIDE DEF y, a
<1>3. y \in Remote
  <2>1. /\ s \in {"initial", "starting", "backoff", "error", "open"}
        /\ r.closes + 1 \in Nat /\ a \in SUBSET Stray
    BY <1>1 DEF Remote
  <2>2. y = [pipeline |-> r.pipeline, state |-> s, handshake |-> r.handshake, idle |-> FALSE,
             closes |-> r.closes + 1, asks |-> r.asks, user |-> NoUser, hello |-> "none",
             requests |-> <<>>, responses |-> <<>>, ended |-> "none", strays |-> a]
    BY <1>2 DEF Remote
  <2>3. r.pipeline \in Seq(Batch) /\ r.handshake \in BOOLEAN /\ r.asks \in SUBSET Ask
    BY DEF Remote
  <2> QED BY <1>1, <2>1, <2>2, <2>3 DEF Remote
<1>4. /\ y.pipeline = r.pipeline /\ y.state = s /\ y.handshake = r.handshake
      /\ ~y.idle /\ y.closes = r.closes + 1 /\ y.asks = r.asks
      /\ y.hello = "none" /\ y.requests = <<>> /\ y.responses = <<>> /\ y.ended = "none"
  BY <1>2 DEF Remote
<1> QED BY <1>3, <1>4 DEF y

\* A stopped stream, with a pipeline emptied or not.
Stopped(z, r) ==
    /\ z \in Remote
    /\ z.state = "initial"
    /\ ~z.handshake /\ ~z.idle /\ z.hello = "none" /\ z.ended = "none"
    /\ z.requests = <<>> /\ z.responses = <<>>
    /\ z.asks = r.asks
    /\ z.closes = IF IsStarted(r) THEN r.closes + 1 ELSE r.closes

LEMMA StopFields ==
    ASSUME NEW r \in Remote, Orderly(r)
    PROVE  /\ Stopped([Stop(r) EXCEPT !.pipeline = <<>>, !.state = "initial"], r)
           /\ IsStarted(r) => Stopped(Stop(r), r) /\ Stop(r).pipeline = r.pipeline
<1> DEFINE y == Close(r, "initial")
<1>1. /\ y \in Remote
      /\ y.pipeline = r.pipeline /\ y.state = "initial" /\ y.handshake = r.handshake
      /\ ~y.idle /\ y.closes = r.closes + 1 /\ y.asks = r.asks
      /\ y.hello = "none" /\ y.requests = <<>> /\ y.responses = <<>> /\ y.ended = "none"
  BY CloseFields
<1> HIDE DEF y
<1>2. CASE IsStarted(r)
  <2>1. Stop(r) = [y EXCEPT !.handshake = FALSE]
    BY <1>2 DEF Stop, y
  <2>2. Stopped([y EXCEPT !.handshake = FALSE], r) /\ [y EXCEPT !.handshake = FALSE].pipeline = r.pipeline
    BY <1>1, <1>2 DEF Stopped, Remote
  <2>3. Stopped([[y EXCEPT !.handshake = FALSE] EXCEPT !.pipeline = <<>>, !.state = "initial"], r)
    BY <1>1, <1>2 DEF Stopped, Remote
  <2> QED BY <2>1, <2>2, <2>3
<1>3. CASE ~IsStarted(r)
  <2>1. Stop(r) = r
    BY <1>3 DEF Stop
  <2>2. /\ ~r.handshake /\ ~r.idle /\ r.hello = "none" /\ r.ended = "none"
        /\ r.requests = <<>> /\ r.responses = <<>>
    BY <1>3 DEF Orderly, IsStarted
  <2>3. Stopped([r EXCEPT !.pipeline = <<>>, !.state = "initial"], r)
    BY <1>3, <2>2 DEF Stopped, Remote
  <2> QED BY <1>3, <2>1, <2>3
<1> QED BY <1>2, <1>3

\* A token asked for before the stream was closed is not one for the stream.
LEMMA ClosedTokens ==
    ASSUME NEW r \in Remote, NEW m \in Seq(MainBlock), NEW w \in Seq(WorkerBlock), Tokens(r, m, w),
           NEW z, z.asks = r.asks,
           z.closes = r.closes + 1 \/ (z.closes = r.closes /\ r.state # "starting")
    PROVE  NoToken(z, m, w) /\ Tokens(z, m, w)
<1>1. /\ r.closes \in Nat /\ \A a \in r.asks : a.closes \in Nat
      /\ \A i \in DOMAIN m : m[i].kind = "token" => m[i].ask.closes \in Nat
      /\ \A i \in DOMAIN w : w[i].kind = "token" => w[i].closes \in Nat
  <2>1. r.closes \in Nat /\ r.asks \subseteq Ask /\ \A a \in Ask : a.closes \in Nat
    BY DEF Remote, Ask
  <2>2. \A i \in DOMAIN m : m[i] \in MainBlock
    OBVIOUS
  <2>3. \A x \in MainBlock : x.kind = "token" => x.ask.closes \in Nat
    BY DEF MainBlock, GivenAsk
  <2>4. \A i \in DOMAIN w : w[i] \in WorkerBlock
    OBVIOUS
  <2>5. \A x \in WorkerBlock : x.kind = "token" => x.closes \in Nat
    BY DEF WorkerBlock
  <2> QED BY <2>1, <2>2, <2>3, <2>4, <2>5
<1>2. /\ \A a \in r.asks : a.closes <= r.closes
      /\ \A i \in DOMAIN m : m[i].kind = "token" => m[i].ask.closes <= r.closes
      /\ \A i \in DOMAIN w : w[i].kind = "token" => w[i].closes <= r.closes
  BY DEF Tokens
<1>3. NoToken(z, m, w)
  <2>1. CASE z.closes = r.closes + 1
    BY <1>1, <1>2, <2>1 DEF NoToken, AsksNow, MainNow, WorkerNow
  <2>2. CASE z.closes = r.closes /\ r.state # "starting"
    BY <2>2 DEF NoToken, AsksNow, MainNow, WorkerNow, Tokens
  <2> QED BY <2>1, <2>2
<1>4. /\ \A a \in z.asks : a.closes <= z.closes
      /\ \A i \in DOMAIN m : m[i].kind = "token" => m[i].ask.closes <= z.closes
      /\ \A i \in DOMAIN w : w[i].kind = "token" => w[i].closes <= z.closes
  BY <1>1, <1>2
<1> QED BY <1>3, <1>4 DEF Tokens, NoToken

\* All a function of RemoteStore has to see to.
Sound(f, q, m, w) ==
    f \in Remote /\ Filled(f.pipeline, q) /\ Orderly(f) /\ InStep(f) /\ Running(f) /\ Tokens(f, m, w)

LEMMA FillIsSound ==
    ASSUME NEW r \in Remote, NEW q \in Seq(Batch), NEW c \in Nat, Sorted(q), Fits(r.pipeline, q),
           Orderly(r), InStep(r), NEW m, NEW w, Tokens(r, m, w)
    PROVE  Sound(FillWritePipeline(r, q, c), q, m, w)
BY FillKeepsOrder, FillKeepsTokens DEF Sound

LEMMA RestartIsSound ==
    ASSUME NEW r \in Remote, NEW q \in Seq(Batch), NEW c \in Nat, Sorted(q), Orderly(r),
           NEW m \in Seq(MainBlock), NEW w \in Seq(WorkerBlock), Tokens(r, m, w)
    PROVE  Sound(RestartNetwork(r, q, c), q, m, w)
<1> DEFINE z == [Stop(r) EXCEPT !.pipeline = <<>>, !.state = "initial"]
<1>1. Stopped(z, r)
  BY StopFields
<1>2. z.pipeline = <<>>
  <2>1. Stop(r) \in Remote
    BY StopFields DEF Stopped, Stop
  <2> QED BY <2>1 DEF Remote
<1> HIDE DEF z
<1>3. z \in Remote /\ z.asks = r.asks /\ Orderly(z) /\ InStep(z)
  BY <1>1 DEF Stopped, Orderly, InStep, IsStarted
<1>4. z.closes = r.closes + 1 \/ (z.closes = r.closes /\ r.state # "starting")
  BY <1>1 DEF Stopped, IsStarted
<1>5. Tokens(z, m, w)
  BY <1>3, <1>4, ClosedTokens
<1>6. Fits(z.pipeline, q)
  BY <1>2, FrontOfNothing
<1> QED BY <1>3, <1>5, <1>6, FillIsSound DEF RestartNetwork, z

------------------------------------------------------------------------------
(* The front of the pipeline is done *)

LEMMA SortedTail ==
    ASSUME NEW q \in Seq(Batch), Sorted(q), q # <<>>
    PROVE  Tail(q) \in Seq(Batch) /\ Sorted(Tail(q))
<1>1. Len(Tail(q)) = Len(q) - 1 /\ DOMAIN Tail(q) = 1 .. Len(q) - 1 /\ DOMAIN q = 1 .. Len(q) /\ Len(q) \in Nat
  OBVIOUS
<1>2. \A i \in DOMAIN Tail(q) : Tail(q)[i] = q[i + 1] /\ i + 1 \in DOMAIN q
  BY <1>1
<1>3. \A i, j \in DOMAIN Tail(q) : i < j => i + 1 < j + 1
  BY <1>1
<1> QED BY <1>2, <1>3 DEF Sorted

LEMMA TailFits ==
    ASSUME NEW p \in Seq(Batch), NEW q \in Seq(Batch), Filled(p, q), p # <<>>
    PROVE  q # <<>> /\ Head(p) = q[1] /\ Fits(Tail(p), Tail(q))
<1>1. /\ Len(p) \in Nat \ {0} /\ Len(q) \in Nat /\ Len(p) <= Len(q) /\ p = SubSeq(q, 1, Len(p))
      /\ Len(p) <= MaxPendingWrites /\ MaxPendingWrites \in Nat
  BY MaxPendingAssumption DEF Filled, Fits, Front
<1>2. q # <<>> /\ p[1] = q[1]
  BY <1>1
<1>3. /\ Len(Tail(p)) = Len(p) - 1 /\ Len(Tail(q)) = Len(q) - 1
      /\ Tail(p) \in Seq(Batch) /\ Tail(q) \in Seq(Batch)
  BY <1>1, <1>2
<1>4. Len(Tail(p)) <= Len(Tail(q)) /\ Len(Tail(p)) <= MaxPendingWrites
  BY <1>1, <1>3
<1>5. Tail(p) = SubSeq(Tail(q), 1, Len(Tail(p)))
  <2> DEFINE t == SubSeq(Tail(q), 1, Len(p) - 1)
  <2>1. t \in Seq(Batch) /\ Len(t) = Len(p) - 1 /\ \A i \in 1 .. Len(p) - 1 : t[i] = Tail(q)[i]
    BY <1>1, <1>3, <1>4
  <2>2. \A i \in 1 .. Len(p) - 1 : Tail(p)[i] = p[i + 1] /\ Tail(q)[i] = q[i + 1] /\ p[i + 1] = q[i + 1]
    BY <1>1, <1>2, <1>3
  <2> HIDE DEF t
  <2>3. Tail(p) = t
    BY <1>3, <2>1, <2>2, SeqEqual
  <2> QED BY <1>3, <2>3 DEF t
<1> QED BY <1>2, <1>4, <1>5 DEF Fits, Front

\* The first batch of a queue is found by its id and removed.
LEMMA RemovedFirst ==
    ASSUME NEW q \in Seq(Batch), q = queue[currentUser], q # <<>>, Sorted(q)
    PROVE  InQueue(q[1]) /\ Removed(q[1]) = [queue EXCEPT ![currentUser] = Tail(q)]
<1>1. Len(q) \in Nat \ {0} /\ DOMAIN q = 1 .. Len(q) /\ \A j \in DOMAIN q : q[j].id \in Nat
  BY BatchIds
<1>2. \A j \in DOMAIN q : q[j].id = q[1].id <=> j = 1
  BY <1>1 DEF Sorted
<1>3. (CHOOSE j \in DOMAIN q : q[j].id = q[1].id) = 1
  BY <1>1, <1>2
<1>4. SubSeq(q, 1, 1 - 1) \o SubSeq(q, 1 + 1, Len(q)) = Tail(q)
  BY <1>1
<1>5. Removed(q[1]) = [queue EXCEPT ![currentUser] = SubSeq(q, 1, 1 - 1) \o SubSeq(q, 1 + 1, Len(q))]
  BY <1>3 DEF Removed
<1>6. InQueue(q[1])
  BY <1>1 DEF InQueue
<1> QED BY <1>4, <1>5, <1>6

\* After an error, whether or not it takes the front of the pipeline away, the stream is
\* started again if it is needed.
LEMMA CloseIsSound ==
    ASSUME NEW r \in Remote, NEW code, NEW q \in Seq(Batch), NEW c \in Nat, Sorted(q),
           IF RejectsFront(r, code) THEN Fits(Tail(r.pipeline), q) ELSE Filled(r.pipeline, q),
           NEW m \in Seq(MainBlock), NEW w \in Seq(WorkerBlock), Tokens(r, m, w)
    PROVE  Sound(OnWriteStreamClose(r, code, q, c), q, m, w)
<1> DEFINE y == Close(r, "error")
           d == OnWriteStreamClose(r, code, q, c)
<1>1. /\ y \in Remote
      /\ y.pipeline = r.pipeline /\ y.state = "error" /\ y.handshake = r.handshake
      /\ ~y.idle /\ y.closes = r.closes + 1 /\ y.asks = r.asks
      /\ y.hello = "none" /\ y.requests = <<>> /\ y.responses = <<>> /\ y.ended = "none"
  BY CloseFields
<1> HIDE DEF y
<1>2. CASE RejectsFront(r, code)
  <2> DEFINE z == [y EXCEPT !.pipeline = Tail(@), !.state = "initial"]
             f == FillWritePipeline(z, q, c)
             b == NextBatches(z, q)
             g == [f EXCEPT !.handshake = FALSE]
  <2>1. r.pipeline # <<>> /\ r.pipeline \in Seq(Batch) /\ Tail(r.pipeline) \in Seq(Batch)
    BY <1>2 DEF RejectsFront, Remote
  <2>2. /\ z \in Remote /\ z.pipeline = Tail(r.pipeline) /\ z.state = "initial"
        /\ ~z.idle /\ z.closes = r.closes + 1 /\ z.asks = r.asks
        /\ z.hello = "none" /\ z.requests = <<>> /\ z.responses = <<>> /\ z.ended = "none"
    BY <1>1, <2>1 DEF Remote
  <2>3. d = StartIfNeeded(g, c)
    BY <1>2 DEF OnWriteStreamClose, y
  <2> HIDE DEF z
  <2>4. Fits(z.pipeline, q)
    BY <1>2, <2>2
  <2>5. Tokens(z, m, w)
    BY <2>2, ClosedTokens
  <2>6. b \in Seq(Batch) /\ Filled(z.pipeline \o b, q)
    BY <2>2, <2>4, NextBatchesFill
  <2>7. IsFill(f, z, b, c) /\ Tokens(f, m, w)
    BY <2>2, <2>4, <2>5, <2>6, FillFields, FillKeepsTokens
  <2> HIDE DEF f, b
  <2>8. /\ f \in Remote /\ Filled(f.pipeline, q)
        /\ f.state = IF f.pipeline # <<>> THEN "starting" ELSE "initial"
        /\ ~f.idle /\ f.hello = "none" /\ f.requests = <<>> /\ f.responses = <<>> /\ f.ended = "none"
    BY <2>2, <2>6, <2>7 DEF IsFill, IsStarted
  <2>9. /\ g \in Remote /\ g.pipeline = f.pipeline /\ g.state = f.state /\ ~g.handshake
        /\ ~g.idle /\ g.hello = "none" /\ g.requests = <<>> /\ g.responses = <<>> /\ g.ended = "none"
        /\ g.asks = f.asks /\ g.closes = f.closes
    BY <2>8 DEF Remote
  <2> HIDE DEF g
  <2>10. d = g
    BY <2>3, <2>8, <2>9 DEF StartIfNeeded, ShouldStartWriteStream, IsStarted
  <2>11. Orderly(g) /\ InStep(g) /\ Running(g) /\ Filled(g.pipeline, q)
    BY <2>8, <2>9 DEF Orderly, InStep, Running, IsStarted
  <2>12. Tokens(g, m, w)
    BY <2>7, <2>9 DEF Tokens, NoToken, AsksNow, MainNow, WorkerNow
  <2> QED BY <2>9, <2>10, <2>11, <2>12 DEF Sound
<1>3. CASE ~RejectsFront(r, code)
  <2> DEFINE g == [y EXCEPT !.handshake = FALSE]
             h == [g EXCEPT !.state = "backoff"]
  <2>1. /\ g \in Remote /\ g.pipeline = r.pipeline /\ g.state = "error" /\ ~g.handshake
        /\ ~g.idle /\ g.hello = "none" /\ g.requests = <<>> /\ g.responses = <<>> /\ g.ended = "none"
        /\ g.asks = r.asks /\ g.closes = r.closes + 1
    BY <1>1 DEF Remote
  <2>2. d = StartIfNeeded(g, c)
    BY <1>3 DEF OnWriteStreamClose, y
  <2> HIDE DEF g
  <2>3. NoToken(g, m, w) /\ Tokens(g, m, w)
    BY <2>1, ClosedTokens
  <2>4. CASE r.pipeline = <<>>
    <3>1. d = g
      BY <2>1, <2>2, <2>4 DEF StartIfNeeded, ShouldStartWriteStream
    <3>2. Orderly(g) /\ InStep(g) /\ Running(g) /\ Filled(g.pipeline, q)
      BY <1>3, <2>1, <2>4 DEF Orderly, InStep, Running, IsStarted
    <3> QED BY <2>1, <2>3, <3>1, <3>2 DEF Sound
  <2>5. CASE r.pipeline # <<>>
    <3>1. d = h
      BY <2>1, <2>2, <2>5 DEF StartIfNeeded, ShouldStartWriteStream, Start, IsStarted
    <3>2. /\ h \in Remote /\ h.pipeline = r.pipeline /\ h.state = "backoff" /\ ~h.handshake
          /\ ~h.idle /\ h.hello = "none" /\ h.requests = <<>> /\ h.responses = <<>> /\ h.ended = "none"
          /\ h.asks = g.asks /\ h.closes = g.closes
      BY <2>1 DEF Remote
    <3> HIDE DEF h
    <3>3. Orderly(h) /\ InStep(h) /\ Running(h) /\ Filled(h.pipeline, q)
      BY <1>3, <2>5, <3>2 DEF Orderly, InStep, Running, IsStarted
    <3>4. Tokens(h, m, w)
      BY <2>3, <3>2 DEF Tokens, NoToken, AsksNow, MainNow, WorkerNow
    <3> QED BY <3>1, <3>2, <3>3, <3>4 DEF Sound
  <2> QED BY <2>4, <2>5
<1> QED BY <1>2, <1>3
====
