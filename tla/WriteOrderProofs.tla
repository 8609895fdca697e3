---- MODULE WriteOrderProofs ----
(***************************************************************************)
(* Writes are sent again after a stream has broken or the process has      *)
(* died, and what was sent before may still arrive.  The server comes to   *)
(* the writes of a user in their order nevertheless, and callers are told  *)
(* the truth: the client implements Outbox, as long as no failed write     *)
(* overtakes a result that was not read.                                   *)
(***************************************************************************)
EXTENDS WriteOwnerProofs

------------------------------------------------------------------------------
(* The order of the documents *)

\* The documents whose write has left the worker's queue w, the n-th being the last one.
Past(w, n) == {d \in Nat : d <= n /\ \A i \in DOMAIN w : w[i].kind = "write" => d < w[i].doc}

\* The documents whose write is queued, was answered, or has a caller who waits.
Mentioned ==
    {d \in Doc :
        \/ \E u \in Anybody : \E i \in DOMAIN queue[u] : queue[u][i].doc = d
        \/ \E b \in applied \cup refused : b.doc = d
        \/ \E u \in Anybody : \E c \in callbacks[u] : c.doc = d
        \/ \E i \in DOMAIN mainQ : mainQ[i].kind = "answer" /\ mainQ[i].doc = d
        \/ told[d] # "nothing"}

\* Writes come to the worker in the order of their documents, with an id for each at least.
Upcoming(id, w, n) ==
    /\ \A i \in DOMAIN w : w[i].kind = "write" => id <= w[i].doc /\ w[i].doc <= n /\ w[i].ok \in Verdicts
    /\ \A i, j \in DOMAIN w : w[i].kind = "write" /\ w[j].kind = "write" /\ i < j => w[i].doc < w[j].doc
    /\ id <= n + 1

\* A queue is in the order of the documents, which are as many as its ids.
InOrderOfDocs(q) ==
    /\ \A i, j \in DOMAIN q : i < j => q[i].doc < q[j].doc
    /\ \A i \in DOMAIN q : q[i].id <= q[i].doc /\ q[i].ok \in Verdicts

Dated ==
    /\ Mentioned \subseteq Past(workerQ, issued)
    /\ Upcoming(nextId, workerQ, issued)
    /\ \A u \in Anybody : InOrderOfDocs(queue[u])

------------------------------------------------------------------------------
(* What the server has seen *)

All(s, S) == \A i \in DOMAIN s : s[i] \in S

\* The batches of p behind the n-th one are those of s.
Ends(s, p, n) == Len(p) = n + Len(s) /\ \A i \in DOMAIN s : s[i] = p[n + i]

\* While an RPC has not been refused a write, what is on its way ends the pipeline, and what is
\* before it has been applied; when it has, that is the first one without a response.
Sent(r, A, R) ==
    /\ All(r.responses, A)
    /\ r.handshake /\ r.ended # "PermissionDenied" =>
          \E n \in 0 .. Len(r.pipeline) : Ends(r.requests, r.pipeline, n) /\ \A i \in 1 .. n : r.pipeline[i] \in A
    /\ r.ended = "PermissionDenied" =>
          r.handshake /\ Len(r.responses) < Len(r.pipeline) /\ r.pipeline[Len(r.responses) + 1] \in R

\* What is before a write of s in the queue q was applied or comes before it in s.
Follows(s, q, A) ==
    \A k \in DOMAIN s, i \in DOMAIN q :
        q[i] = s[k] => \A j \in 1 .. i - 1 : q[j] \in A \/ \E l \in 1 .. k - 1 : s[l] = q[j]

\* The writes of s that have left the queue were answered by the server.
Placed(s, q, A) == \A k \in DOMAIN s : s[k] \in A \/ \E i \in DOMAIN q : q[i] = s[k]

\* So it is with the RPCs the client gave up.
StraysInOrder(S, Q, A, R) ==
    \A s \in S : Follows(s.requests, Q[s.user], A) /\ Placed(s.requests, Q[s.user], A \cup R)

ServerSide ==
    /\ All(acking, applied)
    /\ Sent(remote, applied, refused)
    /\ StraysInOrder(remote.strays, queue, applied, refused)
    /\ \A b \in applied : b.ok
    /\ AppliedInOrder

------------------------------------------------------------------------------
(* What callers are told *)

Truth(d, answer, A, R) ==
    /\ answer = "ok" => \E b \in A : b.doc = d
    /\ answer = "failed" /\ ~Overtaking => \E b \in R : b.doc = d

\* No two callers wait for the same document.
ForOne(cs) ==
    \A u, v \in Anybody : \A c \in cs[u], d \in cs[v] : c.doc = d.doc => u = v /\ c = d

\* Nobody is told what was told, or is being told, already.
Untold(cs, m, t) ==
    /\ \A u \in Anybody : \A c \in cs[u] :
          t[c.doc] = "nothing" /\ \A i \in DOMAIN m : m[i].kind = "answer" => m[i].doc # c.doc
    /\ \A i, j \in DOMAIN m :
          m[i].kind = "answer" /\ m[j].kind = "answer" /\ m[i].doc = m[j].doc => i = j
    /\ \A i \in DOMAIN m : m[i].kind = "answer" => t[m[i].doc] = "nothing"

\* What is told is true.
Truths(m, t, A, R) ==
    /\ \A i \in DOMAIN m : m[i].kind = "answer" => Truth(m[i].doc, m[i].answer, A, R)
    /\ \A d \in Doc : Truth(d, t[d], A, R)

Callers == ForOne(callbacks) /\ Untold(callbacks, mainQ, told) /\ Truths(mainQ, told, applied, refused)

PInv == Dated /\ ServerSide /\ Callers

------------------------------------------------------------------------------
(* Blocks of one kind in a queue *)

\* The blocks of the kind in t are those of s, or all but its first.
Keeps(t, s, kind) ==
    \E n \in {0, 1} : \A i \in DOMAIN t : t[i].kind = kind => i + n \in DOMAIN s /\ s[i + n] = t[i]

LEMMA KeepsSame == ASSUME NEW S, NEW s \in Seq(S), NEW kind PROVE Keeps(s, s, kind) /\ Keeps(<<>>, s, kind)
<1>1. \A i \in DOMAIN s : i + 0 = i
  OBVIOUS
<1> QED BY <1>1 DEF Keeps

LEMMA KeepsTail == ASSUME NEW S, NEW s \in Seq(S), s # <<>>, NEW kind PROVE Keeps(Tail(s), s, kind)
BY Shifted DEF Keeps

LEMMA KeepsAppend ==
    ASSUME NEW S, NEW s \in Seq(S), NEW x, NEW kind, x.kind # kind
    PROVE  Keeps(Append(s, x), s, kind)
<1> DEFINE t == Append(s, x)
<1>1. /\ Len(s) \in Nat /\ DOMAIN s = 1 .. Len(s) /\ DOMAIN t = 1 .. Len(s) + 1
      /\ \A i \in DOMAIN s : t[i] = s[i]
      /\ t[Len(s) + 1] = x
  BY Appended
<1> HIDE DEF t
<1>2. \A i \in DOMAIN t : t[i].kind = kind => i + 0 \in DOMAIN s /\ s[i + 0] = t[i]
  BY <1>1
<1> QED BY <1>2 DEF Keeps, t

\* What is past stays past, and what comes still comes in order.
LEMMA TimeGoesOn ==
    ASSUME NEW w, NEW v, NEW n \in Nat, NEW id, Keeps(v, w, "write"), Upcoming(id, w, n),
           \A i \in DOMAIN w : i \in Nat, \A i \in DOMAIN v : i \in Nat
    PROVE  Past(w, n) \subseteq Past(v, n) /\ Upcoming(id, v, n)
<1>1. PICK k \in {0, 1} : \A i \in DOMAIN v : v[i].kind = "write" => i + k \in DOMAIN w /\ w[i + k] = v[i]
  BY DEF Keeps
<1>2. \A i, j \in DOMAIN v : i < j => i + k < j + k
  BY <1>1
<1>3. Past(w, n) \subseteq Past(v, n)
  BY <1>1 DEF Past
<1>4. \A i \in DOMAIN v : v[i].kind = "write" => id <= v[i].doc /\ v[i].doc <= n /\ v[i].ok \in Verdicts
  BY <1>1 DEF Upcoming
<1>5. \A i, j \in DOMAIN v : v[i].kind = "write" /\ v[j].kind = "write" /\ i < j => v[i].doc < v[j].doc
  BY <1>1, <1>2 DEF Upcoming
<1> QED BY <1>3, <1>4, <1>5 DEF Upcoming

\* What is told in the other kinds of block is nothing.
LEMMA NobodyToldYet ==
    ASSUME NEW m, NEW l, Keeps(l, m, "answer"), \A i \in DOMAIN m : i \in Nat, \A i \in DOMAIN l : i \in Nat,
           NEW cs, NEW bs, \A u \in Anybody : bs[u] \subseteq cs[u], NEW t,
           NEW A, NEW R, NEW B, NEW Q, A \subseteq B, R \subseteq Q
    PROVE  /\ ForOne(cs) => ForOne(bs)
           /\ Untold(cs, m, t) => Untold(bs, l, t)
           /\ Truths(m, t, A, R) => Truths(l, t, B, Q)
<1>1. PICK k \in {0, 1} : \A i \in DOMAIN l : l[i].kind = "answer" => i + k \in DOMAIN m /\ m[i + k] = l[i]
  BY DEF Keeps
<1>2. \A i, j \in DOMAIN l : i + k = j + k => i = j
  BY <1>1
<1>3. ForOne(cs) => ForOne(bs)
  BY DEF ForOne
<1>4. Untold(cs, m, t) => Untold(bs, l, t)
  <2> SUFFICES ASSUME Untold(cs, m, t) PROVE Untold(bs, l, t)
    OBVIOUS
  <2>1. \A u \in Anybody : \A c \in bs[u] :
          t[c.doc] = "nothing" /\ \A i \in DOMAIN l : l[i].kind = "answer" => l[i].doc # c.doc
    BY <1>1 DEF Untold
  <2>2. \A i, j \in DOMAIN l :
          l[i].kind = "answer" /\ l[j].kind = "answer" /\ l[i].doc = l[j].doc => i = j
    BY <1>1, <1>2 DEF Untold
  <2>3. \A i \in DOMAIN l : l[i].kind = "answer" => t[l[i].doc] = "nothing"
    BY <1>1 DEF Untold
  <2> QED BY <2>1, <2>2, <2>3 DEF Untold
<1>5. Truths(m, t, A, R) => Truths(l, t, B, Q)
  <2>1. \A d, a : Truth(d, a, A, R) => Truth(d, a, B, Q)
    BY DEF Truth
  <2> QED BY <1>1, <2>1 DEF Truths
<1> QED BY <1>3, <1>4, <1>5

------------------------------------------------------------------------------
(* A queue changes under what is on its way to the server *)

LEMMA FollowsTail ==
    ASSUME NEW s, NEW q \in Seq(Batch), q # <<>>, NEW A
    PROVE  /\ Follows(s, q, A) => Follows(s, Tail(q), A)
           /\ Placed(s, q, A) /\ q[1] \in A => Placed(s, Tail(q), A)
<1> DEFINE t == Tail(q)
<1>1. /\ DOMAIN q = 1 .. Len(q) /\ Len(q) \in Nat \ {0} /\ DOMAIN t = 1 .. Len(q) - 1
      /\ \A i \in DOMAIN t : t[i] = q[i + 1] /\ i + 1 \in DOMAIN q
  BY Shifted
<1> HIDE DEF t
<1>2. ASSUME Follows(s, q, A), NEW k \in DOMAIN s, NEW i \in DOMAIN t, t[i] = s[k], NEW j \in 1 .. i - 1
      PROVE  t[j] \in A \/ \E l \in 1 .. k - 1 : s[l] = t[j]
  <2>1. t[j] = q[j + 1] /\ j + 1 \in 1 .. (i + 1) - 1 /\ q[i + 1] = s[k] /\ i + 1 \in DOMAIN q
    BY <1>1, <1>2
  <2> QED BY <1>2, <2>1 DEF Follows
<1>3. ASSUME Placed(s, q, A), q[1] \in A, NEW k \in DOMAIN s, s[k] \notin A
      PROVE  \E i \in DOMAIN t : t[i] = s[k]
  <2>1. PICK i \in DOMAIN q : q[i] = s[k]
    BY <1>3 DEF Placed
  <2>2. i - 1 \in DOMAIN t /\ t[i - 1] = q[i]
    <3>1. i # 1
      BY <1>3, <2>1
    <3>2. i - 1 \in DOMAIN t /\ (i - 1) + 1 = i
      BY <1>1, <3>1
    <3> QED BY <1>1, <3>2
  <2> QED BY <2>1, <2>2
<1> QED BY <1>2, <1>3 DEF Follows, Placed, t

LEMMA FollowsAppend ==
    ASSUME NEW s, NEW q \in Seq(Batch), NEW x, NEW A
    PROVE  /\ Follows(s, q, A) /\ (\A k \in DOMAIN s : s[k] # x) => Follows(s, Append(q, x), A)
           /\ Placed(s, q, A) => Placed(s, Append(q, x), A)
<1> DEFINE t == Append(q, x)
<1>1. /\ Len(q) \in Nat /\ DOMAIN q = 1 .. Len(q) /\ DOMAIN t = 1 .. Len(q) + 1
      /\ \A i \in DOMAIN q : t[i] = q[i]
      /\ t[Len(q) + 1] = x
  BY Appended
<1> HIDE DEF t
<1>2. ASSUME Follows(s, q, A), \A k \in DOMAIN s : s[k] # x,
             NEW k \in DOMAIN s, NEW i \in DOMAIN t, t[i] = s[k], NEW j \in 1 .. i - 1
      PROVE  t[j] \in A \/ \E l \in 1 .. k - 1 : s[l] = t[j]
  <2>1. i \in DOMAIN q
    BY <1>1, <1>2
  <2>2. j \in DOMAIN q
    BY <1>1, <2>1
  <2> QED BY <1>1, <1>2, <2>1, <2>2 DEF Follows
<1>3. Placed(s, q, A) => Placed(s, t, A)
  BY <1>1 DEF Placed
<1> QED BY <1>2, <1>3 DEF Follows, t

\* The first write of s is applied.
LEMMA FollowsOn ==
    ASSUME NEW s \in Seq(Batch), s # <<>>, NEW q \in Seq(Batch), NEW A, NEW B, NEW D,
           Follows(s, q, A), Placed(s, q, B)
    PROVE  /\ Follows(Tail(s), q, A \cup {Head(s)}) /\ Placed(Tail(s), q, B)
           /\ \A i \in DOMAIN q : q[i] = Head(s) => \A j \in 1 .. i - 1 : q[j] \in A
           /\ Follows(s, q, A \cup D) /\ Placed(s, q, B \cup D)
<1> DEFINE t == Tail(s)
<1>1. /\ DOMAIN s = 1 .. Len(s) /\ Len(s) \in Nat \ {0} /\ DOMAIN t = 1 .. Len(s) - 1
      /\ Head(s) = s[1] /\ \A i \in DOMAIN t : t[i] = s[i + 1] /\ i + 1 \in DOMAIN s
  BY Shifted
<1> HIDE DEF t
<1>2. ASSUME NEW k \in DOMAIN t, NEW i \in DOMAIN q, q[i] = t[k], NEW j \in 1 .. i - 1,
             q[j] \notin A \cup {Head(s)}
      PROVE  \E l \in 1 .. k - 1 : t[l] = q[j]
  <2>1. q[i] = s[k + 1] /\ k + 1 \in DOMAIN s
    BY <1>1, <1>2
  <2>2. PICK l \in 1 .. (k + 1) - 1 : s[l] = q[j]
    BY <1>2, <2>1 DEF Follows
  <2>3. l # 1
    BY <1>1, <1>2, <2>2
  <2>4. l - 1 \in 1 .. k - 1 /\ l - 1 \in DOMAIN t /\ (l - 1) + 1 = l
    BY <1>1, <2>2, <2>3
  <2>5. t[l - 1] = q[j]
    BY <1>1, <2>2, <2>4
  <2> QED BY <2>4, <2>5
<1>3. Placed(t, q, B)
  BY <1>1 DEF Placed
<1>4. ASSUME NEW i \in DOMAIN q, q[i] = Head(s), NEW j \in 1 .. i - 1 PROVE q[j] \in A
  <2>1. 1 \in DOMAIN s /\ q[i] = s[1] /\ 1 .. 1 - 1 = {}
    BY <1>1, <1>4
  <2> QED BY <1>4, <2>1 DEF Follows
<1>5. Follows(s, q, A \cup D) /\ Placed(s, q, B \cup D)
  BY DEF Follows, Placed
<1> QED BY <1>2, <1>3, <1>4, <1>5 DEF Follows, t

\* What is on its way in an RPC follows what was applied of the queue.
LEMMA RequestsFollow ==
    ASSUME NEW q \in Seq(Batch), Sorted(q), NEW a \in Seq(Batch), NEW p \in Seq(Batch), Front(a \o p, q),
           NEW s \in Seq(Batch), NEW n \in 0 .. Len(p), Ends(s, p, n),
           NEW A, NEW B, All(a, A), \A i \in 1 .. n : p[i] \in A
    PROVE  Follows(s, q, A) /\ Placed(s, q, B)
<1> DEFINE w == a \o p
           m == Len(a) + n
<1>1. /\ Len(a) \in Nat /\ Len(p) \in Nat /\ Len(s) \in Nat /\ DOMAIN s = 1 .. Len(s)
      /\ Len(p) = n + Len(s) /\ DOMAIN a = 1 .. Len(a) /\ DOMAIN q = 1 .. Len(q) /\ Len(q) \in Nat
  BY DEF Ends
<1>2. /\ w \in Seq(Batch) /\ Len(w) = Len(a) + Len(p)
      /\ \A i \in 1 .. Len(a) : w[i] = a[i]
      /\ \A i \in 1 .. Len(p) : w[Len(a) + i] = p[i]
  OBVIOUS
<1>3. Len(w) <= Len(q) /\ \A i \in 1 .. Len(w) : w[i] = q[i]
  <2>1. Len(w) <= Len(q) /\ w = SubSeq(q, 1, Len(w))
    BY DEF Front
  <2> HIDE DEF w
  <2> QED BY <1>1, <1>2, <2>1
<1> HIDE DEF w
<1>4. m \in Nat /\ m + Len(s) = Len(w)
  BY <1>1, <1>2
<1>5. \A j \in 1 .. m : q[j] \in A
  <2> SUFFICES ASSUME NEW j \in 1 .. m PROVE q[j] \in A
    OBVIOUS
  <2>1. q[j] = w[j]
    BY <1>1, <1>3, <1>4
  <2>2. CASE j <= Len(a)
    <3>1. j \in DOMAIN a /\ j \in 1 .. Len(a)
      BY <1>1, <2>2
    <3> QED BY <1>2, <2>1, <3>1 DEF All
  <2>3. CASE j > Len(a)
    <3>1. j - Len(a) \in 1 .. n /\ j - Len(a) \in 1 .. Len(p) /\ Len(a) + (j - Len(a)) = j
      BY <1>1, <2>3
    <3>2. \A i \in 1 .. Len(p) : \A k : k = Len(a) + i => w[k] = p[i]
      BY <1>2
    <3>3. w[j] = p[j - Len(a)]
      BY <3>1, <3>2
    <3> QED BY <2>1, <3>1, <3>3
  <2> QED BY <1>1, <2>2, <2>3
<1>6. ASSUME NEW k \in DOMAIN s PROVE m + k \in DOMAIN q /\ q[m + k] = s[k]
  <2>1. s[k] = p[n + k] /\ n + k \in 1 .. Len(p) /\ Len(a) + (n + k) = m + k
    BY <1>1 DEF Ends
  <2>2. s[k] = w[m + k]
    BY <1>2, <2>1
  <2>3. m + k \in 1 .. Len(w)
    BY <1>1, <1>4
  <2> QED BY <1>1, <1>2, <1>3, <2>2, <2>3
<1> HIDE DEF m
<1>7. \A i, j \in DOMAIN q : q[i] = q[j] => i = j
  <2> SUFFICES ASSUME NEW i \in DOMAIN q, NEW j \in DOMAIN q, q[i] = q[j] PROVE i = j
    OBVIOUS
  <2>1. q[i] \in Batch
    OBVIOUS
  <2>2. q[i].id \in Nat /\ q[i].id = q[j].id
    BY <2>1, BatchIds
  <2>3. ~(i < j) /\ ~(j < i)
    BY <2>2 DEF Sorted
  <2> QED BY <1>1, <2>3
<1>8. ASSUME NEW k \in DOMAIN s, NEW i \in DOMAIN q, q[i] = s[k], NEW j \in 1 .. i - 1, q[j] \notin A
      PROVE  \E l \in 1 .. k - 1 : s[l] = q[j]
  <2>1. i = m + k
    BY <1>6, <1>7, <1>8
  <2>2. ~(j <= m)
    BY <1>4, <1>5, <1>8
  <2>3. j - m \in 1 .. k - 1 /\ j - m \in DOMAIN s /\ m + (j - m) = j
    BY <1>1, <1>4, <2>1, <2>2
  <2> QED BY <1>6, <2>3
<1> QED BY <1>6, <1>8 DEF Follows, Placed

------------------------------------------------------------------------------
(* What a turn of the worker does to what is on its way *)

LEMMA EndsTogether ==
    ASSUME NEW s \in Seq(Batch), NEW p \in Seq(Batch), NEW b \in Seq(Batch), NEW n \in 0 .. Len(p),
           Ends(s, p, n)
    PROVE  n \in 0 .. Len(p \o b) /\ Ends(s \o b, p \o b, n)
<1> DEFINE t == s \o b
           w == p \o b
<1>1. /\ Len(s) \in Nat /\ Len(p) \in Nat /\ Len(b) \in Nat /\ Len(p) = n + Len(s) /\ n \in Nat
      /\ \A i \in 1 .. Len(s) : s[i] = p[n + i]
  BY DEF Ends
<1>2. /\ Len(t) = Len(s) + Len(b) /\ DOMAIN t = 1 .. Len(s) + Len(b)
      /\ \A i \in 1 .. Len(s) : t[i] = s[i]
      /\ \A i \in 1 .. Len(b) : t[Len(s) + i] = b[i]
  OBVIOUS
<1>3. /\ Len(w) = Len(p) + Len(b)
      /\ \A i \in 1 .. Len(p) : w[i] = p[i]
      /\ \A i \in 1 .. Len(b) : w[Len(p) + i] = b[i]
  OBVIOUS
<1> HIDE DEF t, w
<1>4. Len(w) = n + Len(t) /\ n \in 0 .. Len(w)
  BY <1>1, <1>2, <1>3
<1>5. ASSUME NEW i \in DOMAIN t PROVE t[i] = w[n + i]
  <2>1. CASE i <= Len(s)
    <3>1. i \in 1 .. Len(s) /\ n + i \in 1 .. Len(p)
      BY <1>1, <1>2, <2>1
    <3> QED BY <1>1, <1>2, <1>3, <3>1
  <2>2. CASE i > Len(s)
    <3>1. i - Len(s) \in 1 .. Len(b) /\ Len(s) + (i - Len(s)) = i /\ Len(p) + (i - Len(s)) = n + i
      BY <1>1, <1>2, <2>2
    <3>2. t[Len(s) + (i - Len(s))] = b[i - Len(s)] /\ w[Len(p) + (i - Len(s))] = b[i - Len(s)]
      BY <1>2, <1>3, <3>1
    <3> QED BY <3>1, <3>2
  <2> QED BY <1>1, <1>2, <2>1, <2>2
<1> QED BY <1>4, <1>5 DEF Ends, t, w

LEMMA FillSends ==
    ASSUME NEW r \in Remote, NEW q \in Seq(Batch), NEW c \in Nat, Sorted(q), Fits(r.pipeline, q),
           Orderly(r), NEW A, NEW R, Sent(r, A, R)
    PROVE  LET f == FillWritePipeline(r, q, c) IN Sent(f, A, R) /\ f.strays = r.strays
<1> DEFINE f == FillWritePipeline(r, q, c)
           b == NextBatches(r, q)
           p == r.pipeline
           w == p \o b
<1>1. b \in Seq(Batch)
  BY NextBatchesFill
<1>2. IsFill(f, r, b, c)
  BY <1>1, FillFields
<1> HIDE DEF f, b
<1>3. p \in Seq(Batch) /\ r.requests \in Seq(Batch) /\ r.responses \in Seq(Batch)
  BY DEF Remote
<1>4. /\ f.pipeline = w /\ f.handshake = r.handshake /\ f.responses = r.responses
      /\ f.ended = r.ended /\ f.strays = r.strays
      /\ r.handshake => f.requests = r.requests \o b
  BY <1>2 DEF IsFill, Orderly
<1> HIDE DEF p
<1>5. /\ Len(w) = Len(p) + Len(b) /\ Len(p) \in Nat /\ Len(b) \in Nat
      /\ \A i \in 1 .. Len(p) : w[i] = p[i]
  BY <1>1, <1>3
<1>6. ASSUME r.handshake, r.ended # "PermissionDenied"
      PROVE  \E n \in 0 .. Len(w) : Ends(r.requests \o b, w, n) /\ \A i \in 1 .. n : w[i] \in A
  <2>1. PICK n \in 0 .. Len(p) : Ends(r.requests, p, n) /\ \A i \in 1 .. n : p[i] \in A
    BY <1>6 DEF Sent, p
  <2>2. n \in 0 .. Len(w) /\ Ends(r.requests \o b, w, n)
    BY <1>1, <1>3, <2>1, EndsTogether
  <2>3. \A i \in 1 .. n : w[i] \in A
    BY <1>5, <2>1
  <2> QED BY <2>2, <2>3
<1>7. ASSUME r.ended = "PermissionDenied"
      PROVE  r.handshake /\ Len(r.responses) < Len(w) /\ w[Len(r.responses) + 1] \in R
  <2>1. r.handshake /\ Len(r.responses) < Len(p) /\ p[Len(r.responses) + 1] \in R
    BY <1>7 DEF Sent, p
  <2>2. Len(r.responses) + 1 \in 1 .. Len(p) /\ Len(r.responses) \in Nat
    BY <1>3, <1>5, <2>1
  <2> QED BY <1>5, <2>1, <2>2
<1>8. All(f.responses, A)
  BY <1>4 DEF Sent
<1> HIDE DEF w
<1> QED BY <1>4, <1>6, <1>7, <1>8 DEF Sent, f

\* An RPC is given up, with what it may still do.
GivenUp(z, r) ==
    /\ ~z.handshake /\ z.responses = <<>> /\ z.ended = "none"
    /\ z.strays \subseteq Abandoned(r)

LEMMA NothingSent == ASSUME NEW z, NEW r, GivenUp(z, r), NEW A, NEW R PROVE Sent(z, A, R)
BY DEF GivenUp, Sent, All

LEMMA FillGivesUp ==
    ASSUME NEW z \in Remote, NEW r, GivenUp(z, r), NEW q \in Seq(Batch), NEW c \in Nat, Sorted(q),
           Fits(z.pipeline, q)
    PROVE  GivenUp(FillWritePipeline(z, q, c), r)
<1> DEFINE f == FillWritePipeline(z, q, c)
           b == NextBatches(z, q)
<1>1. b \in Seq(Batch)
  BY NextBatchesFill
<1>2. IsFill(f, z, b, c)
  BY <1>1, FillFields
<1> HIDE DEF f, b
<1> QED BY <1>2 DEF IsFill, GivenUp, f

LEMMA StopGivesUp ==
    ASSUME NEW r \in Remote, Orderly(r)
    PROVE  /\ GivenUp([Stop(r) EXCEPT !.pipeline = <<>>, !.state = "initial"], r)
           /\ IsStarted(r) => GivenUp(Stop(r), r)
<1>1. r.strays \subseteq Abandoned(r)
  BY DEF Abandoned
<1>2. CASE IsStarted(r)
  <2> DEFINE y == Close(r, "initial")
  <2>1. y \in Remote /\ y.responses = <<>> /\ y.ended = "none"
    BY CloseFields
  <2>2. y.strays = Abandoned(r)
    BY DEF Close, Remote
  <2> HIDE DEF y
  <2>3. Stop(r) = [y EXCEPT !.handshake = FALSE]
    BY <1>2 DEF Stop, y
  <2>4. GivenUp([y EXCEPT !.handshake = FALSE], r)
    BY <2>1, <2>2 DEF GivenUp, Remote
  <2>5. GivenUp([[y EXCEPT !.handshake = FALSE] EXCEPT !.pipeline = <<>>, !.state = "initial"], r)
    BY <2>1, <2>2 DEF GivenUp, Remote
  <2> QED BY <2>3, <2>4, <2>5
<1>3. CASE ~IsStarted(r)
  <2>1. Stop(r) = r
    BY <1>3 DEF Stop
  <2>2. ~r.handshake /\ r.responses = <<>> /\ r.ended = "none"
    BY <1>3 DEF Orderly, IsStarted
  <2>3. GivenUp([r EXCEPT !.pipeline = <<>>, !.state = "initial"], r)
    BY <1>1, <2>2 DEF GivenUp, Remote
  <2> QED BY <1>3, <2>1, <2>3
<1> QED BY <1>2, <1>3

LEMMA RestartGivesUp ==
    ASSUME NEW r \in Remote, Orderly(r), NEW q \in Seq(Batch), NEW c \in Nat, Sorted(q)
    PROVE  GivenUp(RestartNetwork(r, q, c), r)
<1> DEFINE z == [Stop(r) EXCEPT !.pipeline = <<>>, !.state = "initial"]
<1>1. GivenUp(z, r) /\ z \in Remote
  BY StopGivesUp, StopFields DEF Stopped
<1>2. z.pipeline = <<>>
  <2>1. Stop(r) \in Remote
    BY StopFields DEF Stopped, Stop
  <2> QED BY <2>1 DEF Remote
<1>3. RestartNetwork(r, q, c) = FillWritePipeline(z, q, c)
  BY DEF RestartNetwork
<1> HIDE DEF z
<1> QED BY <1>1, <1>2, <1>3, FillGivesUp, FrontOfNothing

LEMMA CloseGivesUp ==
    ASSUME NEW r \in Remote, NEW code, NEW q \in Seq(Batch), NEW c \in Nat, Sorted(q),
           RejectsFront(r, code) => Fits(Tail(r.pipeline), q)
    PROVE  GivenUp(OnWriteStreamClose(r, code, q, c), r)
<1> DEFINE y == Close(r, "error")
           z == [y EXCEPT !.pipeline = Tail(@), !.state = "initial"]
           h == IF RejectsFront(r, code) THEN FillWritePipeline(z, q, c) ELSE y
           g == [h EXCEPT !.handshake = FALSE]
<1>1. y \in Remote /\ y.pipeline = r.pipeline /\ y.responses = <<>> /\ y.ended = "none"
  BY CloseFields
<1>2. y.strays = Abandoned(r)
  BY DEF Close, Remote
<1>3. OnWriteStreamClose(r, code, q, c) = StartIfNeeded(g, c)
  BY DEF OnWriteStreamClose
<1> HIDE DEF y
<1>4. h \in Remote /\ h.responses = <<>> /\ h.ended = "none" /\ h.strays = Abandoned(r)
  <2>1. CASE RejectsFront(r, code)
    <3> DEFINE f == FillWritePipeline(z, q, c)
               b == NextBatches(z, q)
    <3>1. Tail(r.pipeline) \in Seq(Batch)
      BY <2>1 DEF RejectsFront, Remote
    <3>2. /\ z \in Remote /\ z.pipeline = Tail(r.pipeline)
          /\ z.responses = <<>> /\ z.ended = "none" /\ z.strays = Abandoned(r)
      BY <1>1, <1>2, <3>1 DEF Remote
    <3> HIDE DEF z
    <3>3. b \in Seq(Batch)
      BY <2>1, <3>2, NextBatchesFill
    <3>4. IsFill(f, z, b, c)
      BY <3>2, <3>3, FillFields
    <3>5. h = f
      BY <2>1
    <3> HIDE DEF f, b, h
    <3> QED BY <3>2, <3>4, <3>5 DEF IsFill
  <2>2. CASE ~RejectsFront(r, code)
    BY <1>1, <1>2, <2>2
  <2> QED BY <2>1, <2>2
<1> HIDE DEF h
<1>5. g \in Remote /\ GivenUp(g, r)
  BY <1>4 DEF Remote, GivenUp
<1> HIDE DEF g
<1>6. GivenUp(Start(g, c), r)
  BY <1>5 DEF Start, GivenUp, Remote
<1> QED BY <1>3, <1>5, <1>6 DEF StartIfNeeded

------------------------------------------------------------------------------
(* What is on its way, and the queues *)

\* What the invariants of the client and of its users say here.
LEMMA Stores ==
    ASSUME IInv
    PROVE  /\ queue \in [Anybody -> Seq(Batch)] /\ \A u \in Anybody : Sorted(queue[u])
           /\ acking \in Seq(Batch)
           /\ remote.pipeline \in Seq(Batch) /\ remote.requests \in Seq(Batch)
           /\ remote.responses \in Seq(Batch)
           /\ Front(acking \o remote.pipeline, queue[currentUser])
           /\ remote.strays \subseteq Stray /\ applied \subseteq Batch /\ refused \subseteq Batch
           /\ callbacks \in [Anybody -> SUBSET [id : Nat \ {0}, doc : Doc]]
           /\ told \in [Doc -> {"nothing", "ok", "failed"}] /\ issued \in Nat /\ nextId \in Nat \ {0}
BY DEF IInv, TypeOK, Queues, InOrder, Filled, Fits, Remote

LEMMA AbandonedInOrder ==
    ASSUME IInv, OInv, ServerSide
    PROVE  StraysInOrder(Abandoned(remote), queue, applied, refused)
<1> DEFINE s == remote.requests
           q == queue[currentUser]
<1>1. CASE s = <<>> \/ remote.ended = "PermissionDenied"
  BY <1>1 DEF Abandoned, ServerSide
<1>2. CASE s # <<>> /\ remote.ended # "PermissionDenied"
  <2>1. remote.handshake /\ remote.state = "open" /\ remote.user = currentUser
    BY <1>2, Types DEF Orderly, OInv, Owns
  <2>2. PICK n \in 0 .. Len(remote.pipeline) :
            Ends(s, remote.pipeline, n) /\ \A i \in 1 .. n : remote.pipeline[i] \in applied
    BY <1>2, <2>1 DEF ServerSide, Sent
  <2>3. q \in Seq(Batch) /\ Sorted(q) /\ All(acking, applied) /\ s \in Seq(Batch)
    BY Stores, Types DEF ServerSide
  <2>4. Follows(s, q, applied) /\ Placed(s, q, applied \cup refused)
    BY <2>2, <2>3, Stores, RequestsFollow
  <2>5. Abandoned(remote) = remote.strays \cup {[user |-> currentUser, requests |-> s]}
    BY <1>2, <2>1 DEF Abandoned
  <2> HIDE DEF s
  <2> DEFINE x == [user |-> currentUser, requests |-> s]
  <2>6. x.user = currentUser /\ x.requests = s
    OBVIOUS
  <2> HIDE DEF x
  <2>7. Follows(x.requests, queue[x.user], applied) /\ Placed(x.requests, queue[x.user], applied \cup refused)
    BY <2>4, <2>6
  <2>8. Abandoned(remote) = remote.strays \cup {x}
    BY <2>5 DEF x
  <2> QED BY <2>7, <2>8 DEF StraysInOrder, ServerSide
<1> QED BY <1>1, <1>2

\* Another queue than the one that changes stays as it is.
LEMMA OneQueue ==
    ASSUME IInv, NEW q, queue' = [queue EXCEPT ![currentUser] = q]
    PROVE  \A u \in Anybody : queue'[u] = IF u = currentUser THEN q ELSE queue[u]
BY Stores

LEMMA StraysShrink ==
    ASSUME IInv, NEW S \in SUBSET Stray, NEW q, q = queue[currentUser], q # <<>>,
           queue' = [queue EXCEPT ![currentUser] = Tail(q)],
           q[1] \in applied \cup refused, StraysInOrder(S, queue, applied, refused)
    PROVE  StraysInOrder(S, queue', applied, refused)
<1>1. q \in Seq(Batch)
  BY Stores, Types
<1>2. ASSUME NEW s \in S
      PROVE  Follows(s.requests, queue'[s.user], applied) /\ Placed(s.requests, queue'[s.user], applied \cup refused)
  <2>1. s.user \in Anybody
    BY DEF Stray
  <2>2. Follows(s.requests, queue[s.user], applied) /\ Placed(s.requests, queue[s.user], applied \cup refused)
    BY DEF StraysInOrder
  <2>3. queue'[s.user] = IF s.user = currentUser THEN Tail(q) ELSE queue[s.user]
    BY <2>1, OneQueue
  <2> QED BY <1>1, <2>2, <2>3, FollowsTail
<1> QED BY <1>2 DEF StraysInOrder

LEMMA AppliedShrink ==
    ASSUME IInv, NEW q, q = queue[currentUser], q # <<>>,
           queue' = [queue EXCEPT ![currentUser] = Tail(q)], applied' = applied, AppliedInOrder
    PROVE  AppliedInOrder'
<1>1. /\ q \in Seq(Batch) /\ \A b \in applied : b.user \in Anybody
  BY Stores, Types DEF Batch, Anybody
<1>2. \A i \in DOMAIN Tail(q) : Tail(q)[i] = q[i + 1] /\ i + 1 \in DOMAIN q
  BY <1>1, Shifted
<1>3. ASSUME NEW b \in applied, NEW i \in DOMAIN queue'[b.user], queue'[b.user][i].doc < b.doc
      PROVE  queue'[b.user][i] \in applied
  <2>1. queue'[b.user] = IF b.user = currentUser THEN Tail(q) ELSE queue[b.user]
    BY <1>1, OneQueue
  <2>2. CASE b.user = currentUser
    BY <1>2, <1>3, <2>1, <2>2 DEF AppliedInOrder
  <2>3. CASE b.user # currentUser
    BY <1>3, <2>1, <2>3 DEF AppliedInOrder
  <2> QED BY <2>2, <2>3
<1> QED BY <1>3 DEF AppliedInOrder

LEMMA DocsShrink ==
    ASSUME IInv, NEW q, q = queue[currentUser], q # <<>>,
           queue' = [queue EXCEPT ![currentUser] = Tail(q)],
           \A u \in Anybody : InOrderOfDocs(queue[u])
    PROVE  /\ \A u \in Anybody : InOrderOfDocs(queue'[u])
           /\ \A u \in Anybody : \A i \in DOMAIN queue'[u] : \E j \in DOMAIN queue[u] : queue[u][j] = queue'[u][i]
<1>1. q \in Seq(Batch)
  BY Stores, Types
<1>2. /\ DOMAIN Tail(q) = 1 .. Len(q) - 1 /\ Len(q) \in Nat
      /\ \A i \in DOMAIN Tail(q) : Tail(q)[i] = q[i + 1] /\ i + 1 \in DOMAIN q
  BY <1>1, Shifted
<1>3. \A i, j \in DOMAIN Tail(q) : i < j => i + 1 < j + 1
  BY <1>2
<1>4. InOrderOfDocs(q) => InOrderOfDocs(Tail(q))
  BY <1>2, <1>3 DEF InOrderOfDocs
<1>5. InOrderOfDocs(Tail(q))
  BY <1>4, Types
<1> QED BY <1>2, <1>5, OneQueue

------------------------------------------------------------------------------
(* Steps that leave most as it is *)

LEMMA Indices ==
    ASSUME IInv, IInv'
    PROVE  /\ \A i \in DOMAIN mainQ : i \in Nat
           /\ \A i \in DOMAIN mainQ' : i \in Nat
           /\ \A i \in DOMAIN workerQ : i \in Nat
           /\ \A i \in DOMAIN workerQ' : i \in Nat
<1>1. mainQ \in Seq(MainBlock) /\ workerQ \in Seq(WorkerBlock)
  BY DEF IInv, TypeOK
<1>2. mainQ' \in Seq(MainBlock) /\ workerQ' \in Seq(WorkerBlock)
  BY DEF IInv, TypeOK
<1> QED BY <1>1, <1>2

\* Nothing is put into a queue, answered by the server, or told.
LEMMA DatedQuietly ==
    ASSUME IInv, IInv', Dated, Keeps(workerQ', workerQ, "write"), Keeps(mainQ', mainQ, "answer"),
           \A u \in Anybody : callbacks'[u] \subseteq callbacks[u],
           UNCHANGED <<queue, nextId, issued, applied, refused, told>>
    PROVE  Dated'
<1>1. /\ \A i \in DOMAIN workerQ : i \in Nat
      /\ \A i \in DOMAIN workerQ' : i \in Nat
      /\ issued \in Nat
  BY Indices, Stores
<1>2. Mentioned' \subseteq Mentioned
  <2>1. \A i \in DOMAIN mainQ' : mainQ'[i].kind = "answer" =>
            \E j \in DOMAIN mainQ : mainQ[j] = mainQ'[i]
    BY DEF Keeps
  <2> QED BY <2>1 DEF Mentioned
<1>3. Past(workerQ, issued) \subseteq Past(workerQ', issued) /\ Upcoming(nextId, workerQ', issued)
  BY <1>1, TimeGoesOn DEF Dated
<1> QED BY <1>2, <1>3 DEF Dated

LEMMA CallersQuietly ==
    ASSUME IInv, IInv', Callers, Keeps(mainQ', mainQ, "answer"),
           \A u \in Anybody : callbacks'[u] \subseteq callbacks[u],
           applied \subseteq applied', refused \subseteq refused', told' = told
    PROVE  Callers'
<1>1. /\ \A i \in DOMAIN mainQ : i \in Nat
      /\ \A i \in DOMAIN mainQ' : i \in Nat
  BY Indices
<1> QED BY <1>1, NobodyToldYet DEF Callers

SameSending(z, r) ==
    /\ z.pipeline = r.pipeline /\ z.handshake = r.handshake /\ z.requests = r.requests
    /\ z.responses = r.responses /\ z.ended = r.ended /\ z.strays = r.strays

LEMMA ServerQuietly ==
    ASSUME ServerSide, SameSending(remote', remote), UNCHANGED <<acking, queue, applied, refused>>
    PROVE  ServerSide'
BY DEF ServerSide, SameSending, Sent, AppliedInOrder

\* Neither what is sent nor what is told changes.
LEMMA Quietly ==
    ASSUME IInv, IInv', PInv, Keeps(workerQ', workerQ, "write"), Keeps(mainQ', mainQ, "answer"),
           SameSending(remote', remote),
           UNCHANGED <<queue, nextId, issued, applied, refused, told, callbacks, acking>>
    PROVE  PInv'
BY DatedQuietly, CallersQuietly, ServerQuietly DEF PInv

\* An RPC is given up.
LEMMA ServerGivenUp ==
    ASSUME IInv, OInv, ServerSide, GivenUp(remote', remote), acking' = <<>>,
           UNCHANGED <<queue, applied, refused>>
    PROVE  ServerSide'
<1>1. Sent(remote', applied, refused)
  BY NothingSent
<1>2. StraysInOrder(remote'.strays, queue, applied, refused)
  BY AbandonedInOrder DEF StraysInOrder, GivenUp
<1>3. All(acking', applied)
  BY DEF All
<1> QED BY <1>1, <1>2, <1>3 DEF ServerSide, AppliedInOrder

\* The ids are computed anew.
LEMMA NextIdIsNotAhead ==
    ASSUME IInv, Dated, nextId' \in {id \in 1 .. MaxWrites + 1 : IsNextBatchId(id, queue)}
    PROVE  Upcoming(nextId', workerQ, issued)
<1>1. /\ nextId' \in Nat /\ issued \in Nat
      /\ \A i \in DOMAIN workerQ : workerQ[i].kind = "write" => workerQ[i].doc \in Nat \ {0}
  <2>1. \A i \in DOMAIN workerQ : workerQ[i] \in WorkerBlock
    BY Types
  <2>2. \A x \in WorkerBlock : x.kind = "write" => x.doc \in Nat \ {0}
    BY WriteBoundsAssumption DEF WorkerBlock, Doc
  <2> QED BY <2>1, <2>2, Stores, WriteBoundsAssumption
<1>2. nextId' <= issued + 1 /\ \A i \in DOMAIN workerQ : workerQ[i].kind = "write" => nextId' <= workerQ[i].doc
  <2>1. CASE nextId' = 1
    BY <1>1, <2>1
  <2>2. CASE nextId' # 1
    <3>1. PICK u \in Anybody : \E i \in DOMAIN queue[u] : queue[u][i].id = nextId' - 1
      BY <2>2, Stores DEF IsNextBatchId
    <3>2. PICK i \in DOMAIN queue[u] : queue[u][i].id = nextId' - 1
      BY <3>1
    <3> DEFINE b == queue[u][i]
    <3>3. b \in Batch /\ b.id = nextId' - 1 /\ b.id <= b.doc
      BY <3>2, Stores DEF Dated, InOrderOfDocs
    <3>4. b.doc \in Mentioned
      BY <3>3 DEF Mentioned, Batch
    <3> HIDE DEF b
    <3>5. b.doc \in Past(workerQ, issued) /\ b.doc \in Nat
      BY <3>4 DEF Dated, Past
    <3>6. b.doc <= issued /\ \A j \in DOMAIN workerQ : workerQ[j].kind = "write" => b.doc < workerQ[j].doc
      BY <3>5 DEF Past
    <3> QED BY <1>1, <3>3, <3>5, <3>6
  <2> QED BY <2>1, <2>2
<1> QED BY <1>2 DEF Dated, Upcoming

------------------------------------------------------------------------------
(* The steps of FIRAuth and of the main thread *)

LEMMA SameAsItIs == ASSUME NEW r PROVE SameSending(r, r)
BY DEF SameSending

LEMMA SameButAsks == ASSUME NEW r \in Remote, NEW s PROVE SameSending([r EXCEPT !.asks = s], r)
BY DEF SameSending, Remote

LEMMA AuthPromise == ASSUME IInv, IInv', PInv, Auth PROVE PInv'
<1> USE DEF syncEngine, localStore, backend
<1>1. Keeps(workerQ, workerQ, "write") /\ Keeps(mainQ, mainQ, "answer")
  BY Types, KeepsSame
<1>2. ASSUME NEW x, x.kind # "answer" PROVE Keeps(Append(mainQ, x), mainQ, "answer")
  BY <1>2, Types, KeepsAppend
<1>3. SameSending(remote, remote) /\ \A s : SameSending([remote EXCEPT !.asks = s], remote)
  BY Types, SameAsItIs, SameButAsks
<1>4. ASSUME NEW u \in Anybody, ChangeUser(u) PROVE PInv'
  <2> DEFINE x == [kind |-> "changed", user |-> u]
  <2>1. mainQ' = Append(mainQ, x) /\ x.kind # "answer"
    BY <1>4 DEF ChangeUser
  <2> HIDE DEF x
  <2> QED BY <1>1, <1>2, <1>3, <1>4, <2>1, Quietly DEF ChangeUser
<1>5. ASSUME RefreshToken PROVE PInv'
  <2> DEFINE x == [kind |-> "changed", user |-> authUser]
  <2>1. mainQ' = Append(mainQ, x) /\ x.kind # "answer"
    BY <1>5 DEF RefreshToken
  <2> HIDE DEF x
  <2> QED BY <1>1, <1>2, <1>3, <1>5, <2>1, Quietly DEF RefreshToken
<1>6. ASSUME NEW ask \in remote.asks, TakeToken(ask) PROVE PInv'
  <2>1. SameSending(remote', remote)
    BY <1>6, Types, SameButAsks DEF TakeToken
  <2> QED BY <1>1, <1>6, <2>1, Quietly DEF TakeToken, identity, budget
<1>7. ASSUME NEW ask \in remote.asks, NEW ok \in BOOLEAN, GiveToken(ask, ok) PROVE PInv'
  <2> DEFINE x == [kind |-> "token", ask |-> ask, ok |-> ok]
  <2>1. mainQ' = Append(mainQ, x) /\ x.kind # "answer"
    BY <1>7 DEF GiveToken
  <2> HIDE DEF x
  <2>2. SameSending(remote', remote)
    BY <1>7, Types, SameButAsks DEF GiveToken
  <2> QED BY <1>1, <1>2, <1>7, <2>1, <2>2, Quietly DEF GiveToken
<1> QED BY <1>4, <1>5, <1>6, <1>7 DEF Auth

LEMMA AuthStatePromise == ASSUME IInv, IInv', PInv, OnAuthStateChange PROVE PInv'
<1> DEFINE x == [kind |-> "credential", user |-> Head(mainQ).user]
<1>1. /\ mainQ # <<>> /\ mainQ' = Tail(mainQ) /\ workerQ' = Append(workerQ, x)
      /\ UNCHANGED <<queue, nextId, issued, applied, refused, told, callbacks, acking, remote>>
  BY DEF OnAuthStateChange, NextOnMain, syncEngine, localStore, backend, budget
<1>2. x.kind # "write"
  OBVIOUS
<1> HIDE DEF x
<1>3. Keeps(workerQ', workerQ, "write") /\ Keeps(mainQ', mainQ, "answer")
  BY <1>1, <1>2, Types, KeepsAppend, KeepsTail
<1> QED BY <1>1, <1>3, SameAsItIs, Quietly

LEMMA OnTokenPromise == ASSUME IInv, IInv', PInv, OnToken PROVE PInv'
<1> DEFINE ask == Head(mainQ).ask
           x == [kind |-> "token", closes |-> ask.closes, user |-> ask.user[1], ok |-> Head(mainQ).ok]
           s == remote.asks \cup {[closes |-> ask.closes, counter |-> tokenCounter, user |-> <<>>]}
<1>1. /\ mainQ # <<>> /\ mainQ' = Tail(mainQ)
      /\ workerQ' = workerQ \/ workerQ' = Append(workerQ, x)
      /\ remote' = remote \/ remote' = [remote EXCEPT !.asks = s]
      /\ UNCHANGED <<queue, nextId, issued, applied, refused, told, callbacks, acking>>
  BY DEF OnToken, NextOnMain, syncEngine, localStore, backend, budget
<1>2. x.kind # "write"
  OBVIOUS
<1> HIDE DEF x, s
<1>3. Keeps(workerQ', workerQ, "write") /\ Keeps(mainQ', mainQ, "answer")
  <2>1. Keeps(workerQ, workerQ, "write")
    BY Types, KeepsSame
  <2>2. Keeps(Append(workerQ, x), workerQ, "write")
    BY <1>2, Types, KeepsAppend
  <2>3. Keeps(Tail(mainQ), mainQ, "answer")
    BY <1>1, Types, KeepsTail
  <2> QED BY <1>1, <2>1, <2>2, <2>3
<1>4. SameSending(remote', remote)
  BY <1>1, Types, SameAsItIs, SameButAsks
<1> QED BY <1>1, <1>3, <1>4, Quietly

\* The caller is told for the first time, and the truth.
LEMMA OnAnswerPromise == ASSUME IInv, IInv', PInv, OnAnswer PROVE PInv'
<1> DEFINE x == Head(mainQ)
<1>1. /\ mainQ # <<>> /\ x.kind = "answer" /\ mainQ' = Tail(mainQ)
      /\ told' = [told EXCEPT ![x.doc] = x.answer]
      /\ UNCHANGED <<workerQ, queue, nextId, issued, applied, refused, callbacks, acking, remote>>
  BY DEF OnAnswer, NextOnMain, syncEngine, localStore, backend, budget
<1>2. /\ DOMAIN mainQ = 1 .. Len(mainQ) /\ Len(mainQ) \in Nat \ {0} /\ x = mainQ[1] /\ 1 \in DOMAIN mainQ
      /\ \A i \in DOMAIN mainQ' : mainQ'[i] = mainQ[i + 1] /\ i + 1 \in DOMAIN mainQ /\ i + 1 # 1
      /\ \A i, j \in DOMAIN mainQ' : i + 1 = j + 1 => i = j
  BY <1>1, Types, Shifted
<1>3. x.doc \in Doc /\ told \in [Doc -> {"nothing", "ok", "failed"}]
  <2>1. x \in MainBlock
    BY <1>1, Types
  <2> QED BY <1>1, <2>1, Stores DEF MainBlock
<1> HIDE DEF x
<1>4. told'[x.doc] = x.answer /\ \A d \in Doc : d # x.doc => told'[d] = told[d]
  BY <1>1, <1>3
<1>5. /\ told[x.doc] = "nothing" /\ Truth(x.doc, x.answer, applied, refused)
      /\ \A u \in Anybody : \A c \in callbacks[u] : c.doc # x.doc
      /\ \A i \in DOMAIN mainQ' : mainQ'[i].kind = "answer" => mainQ'[i].doc # x.doc
  BY <1>1, <1>2 DEF PInv, Callers, Untold, Truths
<1>6. Dated'
  <2>1. Mentioned' \subseteq Mentioned
    <3>1. x.doc \in Mentioned
      BY <1>1, <1>2, <1>3 DEF Mentioned
    <3> QED BY <1>1, <1>2, <1>4, <3>1 DEF Mentioned
  <2> QED BY <1>1, <2>1 DEF PInv, Dated
<1>7. ServerSide'
  BY <1>1, ServerQuietly, SameAsItIs DEF PInv
<1>8. \A i \in DOMAIN mainQ' : mainQ'[i].kind = "answer" => mainQ'[i].doc \in Doc
  <2>1. \A i \in DOMAIN mainQ : mainQ[i] \in MainBlock
    BY Types
  <2>2. \A y \in MainBlock : y.kind = "answer" => y.doc \in Doc
    BY DEF MainBlock
  <2> QED BY <1>2, <2>1, <2>2
<1>9. Untold(callbacks', mainQ', told')
  <2>1. \A u \in Anybody : \A c \in callbacks[u] : c.doc \in Doc
    BY Stores
  <2>2. \A u \in Anybody : \A c \in callbacks[u] :
          told'[c.doc] = "nothing" /\ \A i \in DOMAIN mainQ' : mainQ'[i].kind = "answer" => mainQ'[i].doc # c.doc
    BY <1>2, <1>4, <1>5, <2>1 DEF PInv, Callers, Untold
  <2>3. \A i, j \in DOMAIN mainQ' :
          mainQ'[i].kind = "answer" /\ mainQ'[j].kind = "answer" /\ mainQ'[i].doc = mainQ'[j].doc => i = j
    BY <1>2 DEF PInv, Callers, Untold
  <2>4. \A i \in DOMAIN mainQ' : mainQ'[i].kind = "answer" => told'[mainQ'[i].doc] = "nothing"
    BY <1>2, <1>4, <1>5, <1>8 DEF PInv, Callers, Untold
  <2> QED BY <1>1, <2>2, <2>3, <2>4 DEF Untold
<1>10. Truths(mainQ', told', applied', refused')
  BY <1>1, <1>2, <1>4, <1>5 DEF PInv, Callers, Truths
<1> QED BY <1>1, <1>6, <1>7, <1>9, <1>10 DEF PInv, Callers

\* The app's writes are numbered.
LEMMA WritePromise == ASSUME IInv, IInv', PInv, NEW ok \in Verdicts, Write(ok) PROVE PInv'
<1> DEFINE x == [kind |-> "write", user |-> knownUser, doc |-> issued + 1, ok |-> ok]
<1>1. /\ issued' = issued + 1 /\ workerQ' = Append(workerQ, x)
      /\ UNCHANGED <<mainQ, queue, nextId, applied, refused, told, callbacks, acking, remote>>
  BY DEF Write, identity, syncEngine, localStore, backend
<1>2. x.kind = "write" /\ x.doc = issued + 1 /\ x.ok \in Verdicts
  OBVIOUS
<1> HIDE DEF x
<1>3. /\ Len(workerQ) \in Nat /\ DOMAIN workerQ = 1 .. Len(workerQ)
      /\ DOMAIN workerQ' = 1 .. Len(workerQ) + 1
      /\ \A i \in DOMAIN workerQ : workerQ'[i] = workerQ[i]
      /\ workerQ'[Len(workerQ) + 1] = x
  BY <1>1, Types, Appended
<1>4. issued \in Nat /\ nextId \in Nat
  BY Stores
<1>5. /\ \A i \in DOMAIN workerQ : workerQ[i].kind = "write" =>
            nextId <= workerQ[i].doc /\ workerQ[i].doc <= issued /\ workerQ[i].ok \in Verdicts
                /\ workerQ[i].doc \in Nat
      /\ nextId <= issued + 1
  <2>1. \A i \in DOMAIN workerQ : workerQ[i] \in WorkerBlock
    BY Types
  <2>2. \A y \in WorkerBlock : y.kind = "write" => y.doc \in Nat
    BY DEF WorkerBlock, Doc
  <2> QED BY <2>1, <2>2 DEF PInv, Dated, Upcoming
<1>6. Past(workerQ, issued) \subseteq Past(workerQ', issued')
  <2> SUFFICES ASSUME NEW d \in Past(workerQ, issued) PROVE d \in Past(workerQ', issued')
    OBVIOUS
  <2>1. d \in Nat /\ d <= issued /\ \A i \in DOMAIN workerQ : workerQ[i].kind = "write" => d < workerQ[i].doc
    BY DEF Past
  <2>2. d <= issued' /\ \A i \in DOMAIN workerQ' : workerQ'[i].kind = "write" => d < workerQ'[i].doc
    BY <1>1, <1>2, <1>3, <1>4, <2>1
  <2> QED BY <2>1, <2>2 DEF Past
<1>7. Upcoming(nextId, workerQ', issued')
  <2>1. \A i \in DOMAIN workerQ' : workerQ'[i].kind = "write" =>
            nextId <= workerQ'[i].doc /\ workerQ'[i].doc <= issued' /\ workerQ'[i].ok \in Verdicts
    BY <1>1, <1>2, <1>3, <1>4, <1>5
  <2>2. ASSUME NEW i \in DOMAIN workerQ', NEW j \in DOMAIN workerQ', i < j,
               workerQ'[i].kind = "write", workerQ'[j].kind = "write"
        PROVE  workerQ'[i].doc < workerQ'[j].doc
    <3>1. i \in DOMAIN workerQ
      BY <1>3, <2>2
    <3>2. CASE j \in DOMAIN workerQ
      BY <1>3, <2>2, <3>1, <3>2 DEF PInv, Dated, Upcoming
    <3>3. CASE j \notin DOMAIN workerQ
      <4>1. workerQ'[j].doc = issued + 1 /\ workerQ'[i] = workerQ[i]
        BY <1>2, <1>3, <3>1, <3>3
      <4> QED BY <1>4, <1>5, <2>2, <3>1, <4>1
    <3> QED BY <3>2, <3>3
  <2> QED BY <1>1, <1>4, <1>5, <2>1, <2>2 DEF Upcoming
<1>8. Mentioned' = Mentioned
  BY <1>1 DEF Mentioned
<1>9. Dated'
  BY <1>1, <1>6, <1>7, <1>8 DEF PInv, Dated
<1>10. ServerSide'
  BY <1>1, ServerQuietly, SameAsItIs DEF PInv
<1> QED BY <1>1, <1>9, <1>10 DEF PInv, Callers

------------------------------------------------------------------------------
(* The steps of the worker that send nothing new *)

\* A block of another kind has run, or none.
LEMMA WorkersBlock ==
    ASSUME IInv, workerQ' = workerQ \/
                 (workerQ # <<>> /\ workerQ' = Tail(workerQ))
    PROVE  Keeps(workerQ', workerQ, "write")
<1>1. Keeps(workerQ, workerQ, "write")
  BY Types, KeepsSame
<1>2. workerQ # <<>> => Keeps(Tail(workerQ), workerQ, "write")
  BY Types, KeepsTail
<1> QED BY <1>1, <1>2

LEMMA MainsSame == ASSUME IInv, mainQ' = mainQ PROVE Keeps(mainQ', mainQ, "answer")
BY Types, KeepsSame

\* The stream is stopped or fails.
LEMMA GivesUpPromise ==
    ASSUME IInv, IInv', OInv, PInv, GivenUp(remote', remote), acking' = <<>>,
           workerQ' = workerQ \/ (workerQ # <<>> /\ workerQ' = Tail(workerQ)),
           UNCHANGED <<mainQ, queue, nextId, issued, applied, refused, told, callbacks>>
    PROVE  PInv'
<1>1. Keeps(workerQ', workerQ, "write") /\ Keeps(mainQ', mainQ, "answer")
  BY WorkersBlock, MainsSame
<1>2. Dated'
  BY <1>1, DatedQuietly DEF PInv
<1>3. Callers'
  BY <1>1, CallersQuietly DEF PInv
<1>4. ServerSide'
  BY ServerGivenUp DEF PInv
<1> QED BY <1>2, <1>3, <1>4 DEF PInv

\* The ids are computed anew, and the stream is for another user.
LEMMA CredentialPromise == ASSUME IInv, IInv', OInv, PInv, HandleCredentialChange PROVE PInv'
<1>1. /\ Worker /\ workerQ # <<>> /\ workerQ' = Tail(workerQ)
      /\ currentUser' = Head(workerQ).user /\ Head(workerQ).kind = "credential"
      /\ \/ nextId' = nextId
         \/ nextId' \in {id \in 1 .. MaxWrites + 1 : IsNextBatchId(id, queue)}
      /\ remote' = RestartNetwork(remote, queue[currentUser'], tokenCounter)
      /\ UNCHANGED <<mainQ, callbacks, acking, queue, applied, refused, told, issued>>
  BY DEF HandleCredentialChange, NextOnWorker, identity, backend, budget
<1>2. currentUser' \in Anybody
  <2>1. Head(workerQ) \in WorkerBlock
    BY <1>1, Types
  <2> QED BY <1>1, <2>1 DEF WorkerBlock, Anybody
<1>3. GivenUp(remote', remote)
  BY <1>1, <1>2, Types, Queue, RestartGivesUp
<1>4. Keeps(workerQ', workerQ, "write") /\ Keeps(mainQ', mainQ, "answer")
  BY <1>1, WorkersBlock, MainsSame
<1>5. Dated'
  <2>1. Mentioned' = Mentioned
    BY <1>1 DEF Mentioned
  <2>2. Upcoming(nextId', workerQ, issued)
    BY <1>1, NextIdIsNotAhead DEF PInv, Dated
  <2>3. Past(workerQ, issued) \subseteq Past(workerQ', issued) /\ Upcoming(nextId', workerQ', issued)
    BY <1>4, <2>2, Indices, Stores, TimeGoesOn
  <2> QED BY <1>1, <2>1, <2>3 DEF PInv, Dated
<1>6. Callers'
  BY <1>1, <1>4, CallersQuietly DEF PInv
<1>7. ServerSide'
  BY <1>1, <1>3, ServerGivenUp DEF PInv, Worker
<1> QED BY <1>5, <1>6, <1>7 DEF PInv

LEMMA NetworkChangesPromise == ASSUME IInv, IInv', OInv, PInv, NetworkChanges PROVE PInv'
<1>1. /\ Worker /\ remote' = RestartNetwork(remote, queue[currentUser], tokenCounter)
      /\ UNCHANGED <<mainQ, workerQ, queue, nextId, issued, applied, refused, told, callbacks, acking>>
  BY DEF NetworkChanges, identity, syncEngine, localStore, backend
<1>2. GivenUp(remote', remote)
  BY <1>1, Types, Queue, RestartGivesUp
<1> QED BY <1>1, <1>2, GivesUpPromise DEF Worker

LEMMA ResumeStartPromise == ASSUME IInv, IInv', OInv, PInv, ResumeStart PROVE PInv'
<1> DEFINE opened == [remote EXCEPT !.state = "open", !.user = Head(workerQ).user, !.hello = "asked"]
           failed == OnWriteStreamClose(remote, "Unknown", queue[currentUser], tokenCounter)
<1>1. /\ Worker /\ workerQ # <<>> /\ workerQ' = Tail(workerQ)
      /\ remote' = remote \/ remote' = opened \/ remote' = failed
      /\ UNCHANGED <<mainQ, queue, nextId, issued, applied, refused, told, callbacks, acking>>
  BY DEF ResumeStart, NextOnWorker, identity, syncEngine, localStore, backend, budget
<1>2. SameSending(opened, remote)
  BY Types DEF SameSending, Remote
<1>3. GivenUp(failed, remote)
  <2>1. ~RejectsFront(remote, "Unknown")
    BY DEF RejectsFront, IsPermanentWriteError
  <2> QED BY <2>1, Types, Queue, CloseGivesUp
<1>4. Keeps(workerQ', workerQ, "write") /\ Keeps(mainQ', mainQ, "answer")
  BY <1>1, WorkersBlock, MainsSame
<1> HIDE DEF opened, failed
<1>5. CASE remote' = remote \/ remote' = opened
  <2>1. SameSending(remote', remote)
    BY <1>2, <1>5, SameAsItIs
  <2> QED BY <1>1, <1>4, <2>1, Quietly
<1>6. CASE remote' = failed
  BY <1>1, <1>3, <1>6, GivesUpPromise DEF Worker
<1> QED BY <1>1, <1>5, <1>6

LEMMA BackoffPromise == ASSUME IInv, IInv', PInv, BackoffElapses PROVE PInv'
<1> DEFINE z == [remote EXCEPT !.state = "initial"]
<1>1. /\ remote' = Start(z, tokenCounter)
      /\ UNCHANGED <<mainQ, workerQ, queue, nextId, issued, applied, refused, told, callbacks, acking>>
  BY DEF BackoffElapses, identity, syncEngine, localStore, backend, budget
<1>2. z \in Remote /\ SameSending(z, remote)
  BY Types DEF Remote, SameSending
<1> HIDE DEF z
<1>3. SameSending(remote', remote)
  BY <1>1, <1>2 DEF Start, SameSending, Remote
<1>4. Keeps(workerQ', workerQ, "write") /\ Keeps(mainQ', mainQ, "answer")
  BY <1>1, WorkersBlock, MainsSame
<1> QED BY <1>1, <1>3, <1>4, Quietly

LEMMA IdleTimeoutPromise == ASSUME IInv, IInv', OInv, PInv, IdleTimeout PROVE PInv'
<1>1. /\ Worker /\ remote.idle /\ remote' = Stop(remote)
      /\ UNCHANGED <<mainQ, workerQ, queue, nextId, issued, applied, refused, told, callbacks, acking>>
  BY DEF IdleTimeout, identity, syncEngine, localStore, backend, budget
<1>2. IsStarted(remote)
  BY <1>1, Types DEF Orderly, IsStarted
<1>3. GivenUp(remote', remote)
  <2>1. remote \in Remote /\ Orderly(remote)
    BY Types
  <2>2. GivenUp(Stop(remote), remote)
    BY <1>2, <2>1, StopGivesUp, Zenon
  <2> QED BY <1>1, <2>2
<1> QED BY <1>1, <1>3, GivesUpPromise DEF Worker

LEMMA ServerGreetsPromise == ASSUME IInv, IInv', PInv, ServerGreets PROVE PInv'
<1>1. /\ remote' = [remote EXCEPT !.hello = "answered"]
      /\ UNCHANGED <<mainQ, workerQ, queue, nextId, issued, applied, refused, told, callbacks, acking>>
  BY DEF ServerGreets, identity, syncEngine, localStore, backend, budget
<1>2. SameSending(remote', remote)
  BY <1>1, Types DEF SameSending, Remote
<1>3. Keeps(workerQ', workerQ, "write") /\ Keeps(mainQ', mainQ, "answer")
  BY <1>1, WorkersBlock, MainsSame
<1> QED BY <1>1, <1>2, <1>3, Quietly

------------------------------------------------------------------------------
(* The RPC begins and breaks, and the process starts again *)

\* A step that changes the stream alone, and gives nothing up.
LEMMA SentPromise ==
    ASSUME IInv, IInv', PInv, Sent(remote', applied, refused), remote'.strays = remote.strays,
           UNCHANGED <<mainQ, workerQ, queue, nextId, issued, applied, refused, told, callbacks, acking>>
    PROVE  PInv'
<1>1. Keeps(workerQ', workerQ, "write") /\ Keeps(mainQ', mainQ, "answer")
  BY WorkersBlock, MainsSame
<1>2. Dated' /\ Callers'
  BY <1>1, DatedQuietly, CallersQuietly DEF PInv
<1>3. ServerSide'
  BY DEF PInv, ServerSide, AppliedInOrder
<1> QED BY <1>2, <1>3 DEF PInv

LEMMA EndsItself ==
    ASSUME NEW p \in Seq(Batch)
    PROVE  0 \in 0 .. Len(p) /\ Ends(p, p, 0) /\ 1 .. 0 = {}
<1>1. Len(p) \in Nat /\ \A i \in DOMAIN p : 0 + i = i
  OBVIOUS
<1> QED BY <1>1 DEF Ends

\* Nothing was sent before, and now it is the whole pipeline.
LEMMA HandshakePromise == ASSUME IInv, IInv', PInv, OnHandshakeComplete PROVE PInv'
<1> DEFINE y == [remote EXCEPT !.hello = "none", !.handshake = TRUE]
           p == remote.pipeline
<1>1. /\ Worker /\ remote.hello = "answered" /\ remote' = WriteMutations(y, p)
      /\ UNCHANGED <<mainQ, workerQ, queue, nextId, issued, applied, refused, told, callbacks, acking>>
  BY DEF OnHandshakeComplete, identity, syncEngine, localStore, backend, budget
<1>2. /\ remote \in Remote /\ p \in Seq(Batch) /\ remote.state = "open" /\ ~remote.handshake
      /\ p # <<>> /\ remote.requests = <<>> /\ remote.responses = <<>>
  BY <1>1, Types DEF Orderly, IsStarted, Remote
<1>3. <<>> \o p = p
  BY <1>2, ConcatEmptySeq
<1>4. /\ y \in Remote /\ y.pipeline = p /\ y.handshake /\ y.requests = <<>> /\ y.responses = <<>>
      /\ y.ended = remote.ended /\ y.strays = remote.strays
  BY <1>2 DEF Remote
<1> HIDE DEF y, p
<1>5. remote' = [y EXCEPT !.requests = p, !.idle = FALSE]
  BY <1>1, <1>2, <1>3, <1>4 DEF WriteMutations
<1>6. /\ remote'.pipeline = p /\ remote'.handshake /\ remote'.requests = p /\ remote'.responses = <<>>
      /\ remote'.ended = remote.ended /\ remote'.strays = remote.strays
  BY <1>4, <1>5 DEF Remote
<1>7. remote.ended # "PermissionDenied"
  BY <1>2 DEF PInv, ServerSide, Sent
<1>8. Sent(remote', applied, refused)
  <2>1. 0 \in 0 .. Len(p) /\ Ends(p, p, 0) /\ 1 .. 0 = {}
    BY <1>2, EndsItself
  <2> QED BY <1>6, <1>7, <2>1 DEF Sent, All
<1> QED BY <1>1, <1>6, <1>8, SentPromise

\* What was sent may still arrive, and some of the responses do.
LEMMA RpcBreaksPromise == ASSUME IInv, IInv', PInv, NEW code \in FaultCodes, RpcBreaks(code) PROVE PInv'
<1> DEFINE a == remote.responses
<1>1. /\ remote.ended = "none"
      /\ UNCHANGED <<mainQ, workerQ, queue, nextId, issued, applied, refused, told, callbacks, acking>>
  BY DEF RpcBreaks, identity, syncEngine, localStore, backend
<1>2. PICK n \in 0 .. Len(a) :
          remote' = [remote EXCEPT !.ended = code, !.responses = SubSeq(a, 1, n)]
  BY Types DEF RpcBreaks, Remote
<1>3. code # "PermissionDenied"
  BY FaultCodesAssumption
<1>4. /\ remote'.pipeline = remote.pipeline /\ remote'.handshake = remote.handshake
      /\ remote'.requests = remote.requests /\ remote'.responses = SubSeq(a, 1, n)
      /\ remote'.ended = code /\ remote'.strays = remote.strays
  BY <1>2, Types DEF Remote
<1>5. \A i \in DOMAIN SubSeq(a, 1, n) : i \in DOMAIN a /\ SubSeq(a, 1, n)[i] = a[i]
  BY Stores
<1>6. Sent(remote', applied, refused)
  BY <1>1, <1>3, <1>4, <1>5 DEF PInv, ServerSide, Sent, All
<1> QED BY <1>1, <1>4, <1>6, SentPromise

\* The callers die with the process.
LEMMA RelaunchPromise == ASSUME IInv, IInv', OInv, PInv, Relaunch PROVE PInv'
<1> DEFINE y == [Fresh EXCEPT !.strays = Abandoned(remote)]
           q == queue[knownUser']
<1>1. /\ workerQ' = <<>> /\ acking' = <<>> /\ callbacks' = [u \in Anybody |-> {}]
      /\ nextId' \in {id \in 1 .. MaxWrites + 1 : IsNextBatchId(id, queue)}
      /\ remote' = FillWritePipeline(y, q, 0)
      /\ UNCHANGED <<queue, applied, refused, told, issued>>
  BY DEF Relaunch, Launch, backend
<1>2. \/ knownUser' = authUser /\ mainQ' = <<>>
      \/ knownUser' = NoUser /\ mainQ' = <<[kind |-> "changed", user |-> authUser]>>
  BY DEF Relaunch, Launch
<1>3. Keeps(workerQ', workerQ, "write") /\ Keeps(mainQ', mainQ, "answer")
  <2>1. DOMAIN <<>> = {} /\ \A x : DOMAIN <<x>> = {1} /\ <<x>>[1] = x
    OBVIOUS
  <2>2. \A i \in DOMAIN mainQ' : mainQ'[i].kind # "answer"
    BY <1>2, <2>1
  <2>3. DOMAIN workerQ' = {}
    BY <1>1, <2>1
  <2> QED BY <2>2, <2>3 DEF Keeps
<1>4. \A u \in Anybody : callbacks'[u] = {}
  BY <1>1
<1>5. Callers'
  BY <1>1, <1>3, <1>4, CallersQuietly DEF PInv
<1>6. Dated'
  <2>1. Upcoming(nextId', workerQ, issued)
    BY <1>1, NextIdIsNotAhead DEF PInv
  <2>2. Past(workerQ, issued) \subseteq Past(workerQ', issued) /\ Upcoming(nextId', workerQ', issued)
    BY <1>3, <2>1, Indices, Stores, TimeGoesOn
  <2>3. Mentioned' \subseteq Mentioned
    <3>1. \A i \in DOMAIN mainQ' : mainQ'[i].kind = "answer" => \E j \in DOMAIN mainQ : mainQ[j] = mainQ'[i]
      BY <1>3 DEF Keeps
    <3> QED BY <1>1, <1>4, <3>1 DEF Mentioned
  <2> QED BY <1>1, <2>2, <2>3 DEF PInv, Dated
<1>7. knownUser' \in Anybody
  BY <1>2, Types DEF Anybody
<1>8. GivenUp(remote', remote)
  <2>1. /\ y.pipeline = <<>> /\ ~y.handshake /\ y.responses = <<>> /\ y.ended = "none"
        /\ y.strays = Abandoned(remote)
    BY DEF Fresh
  <2>2. y \in Remote
    <3>1. Abandoned(remote) \in SUBSET Stray /\ Fresh \in Remote
      BY Types, AbandonedStrays, FreshIsOrderly
    <3> QED BY <3>1, StraysOnly
  <2>3. q \in Seq(Batch) /\ Sorted(q)
    BY <1>7, Queue
  <2> HIDE DEF y, q
  <2>4. GivenUp(y, remote) /\ Fits(y.pipeline, q)
    BY <2>1, <2>3, FrontOfNothing DEF GivenUp
  <2> QED BY <1>1, <2>2, <2>3, <2>4, FillGivesUp
<1>9. ServerSide'
  BY <1>1, <1>8, ServerGivenUp DEF PInv
<1> QED BY <1>5, <1>6, <1>9 DEF PInv

------------------------------------------------------------------------------
(* The server answers *)

\* A batch that was answered or is in a queue.
Known(b) == b \in applied \cup refused \/ \E u \in Anybody : \E i \in DOMAIN queue[u] : queue[u][i] = b

\* Being answered by the server is more than being sent, and disturbs nobody else.
LEMMA MoreAnswered ==
    ASSUME NEW r, NEW S, NEW Q, NEW A, NEW R, NEW B, NEW T, A \subseteq B, R \subseteq T
    PROVE  /\ Sent(r, A, R) => Sent(r, B, T)
           /\ StraysInOrder(S, Q, A, R) => StraysInOrder(S, Q, B, T)
           /\ \A s : All(s, A) => All(s, B)
<1>1. \A s : All(s, A) => All(s, B)
  BY DEF All
<1>2. Sent(r, A, R) => Sent(r, B, T)
  <2>1. \A n : (\A i \in 1 .. n : r.pipeline[i] \in A) => \A i \in 1 .. n : r.pipeline[i] \in B
    OBVIOUS
  <2> QED BY <1>1, <2>1 DEF Sent
<1>3. \A s, q : Follows(s, q, A) => Follows(s, q, B)
  BY DEF Follows
<1>4. \A s, q : Placed(s, q, A \cup R) => Placed(s, q, B \cup T)
  BY DEF Placed
<1>5. StraysInOrder(S, Q, A, R) => StraysInOrder(S, Q, B, T)
  BY <1>3, <1>4 DEF StraysInOrder
<1> QED BY <1>1, <1>2, <1>5

LEMMA AnsweredDated ==
    ASSUME IInv, Dated, NEW b, Known(b), applied' \cup refused' = applied \cup refused \cup {b},
           UNCHANGED <<mainQ, workerQ, queue, nextId, issued, told, callbacks>>
    PROVE  Dated'
<1>1. Mentioned' \subseteq Mentioned
  <2>1. \A d \in Doc : b.doc = d => d \in Mentioned
    BY DEF Known, Mentioned
  <2> QED BY <2>1 DEF Mentioned
<1> QED BY <1>1 DEF Dated

LEMMA BatchDocs == ASSUME NEW q \in Seq(Batch) PROVE \A i \in DOMAIN q : q[i].doc \in Nat
<1>1. \A b \in Batch : b.doc \in Nat
  BY DEF Batch, Doc
<1> QED BY <1>1

\* The server applies a write of the queue of u, and has applied those before.
LEMMA AppliedGrows ==
    ASSUME IInv, OInv, Dated, AppliedInOrder, NEW u \in Anybody, NEW k \in DOMAIN queue[u],
           \A j \in 1 .. k - 1 : queue[u][j] \in applied,
           applied' = applied \cup {queue[u][k]}, queue' = queue
    PROVE  AppliedInOrder'
<1> DEFINE q == queue[u]
           b == q[k]
<1>1. q \in Seq(Batch) /\ DOMAIN q = 1 .. Len(q) /\ Len(q) \in Nat /\ InOrderOfDocs(q) /\ OfUser(q, u)
  BY Queue DEF Dated
<1>2. b.user = u /\ \A i \in DOMAIN q : q[i].doc \in Nat
  BY <1>1, BatchDocs DEF OfUser
<1>3. ASSUME NEW i \in DOMAIN q, q[i].doc < b.doc PROVE q[i] \in applied
  <2>1. q[i].doc \in Nat /\ b.doc \in Nat
    BY <1>2
  <2>2. i # k /\ ~(k < i)
    BY <1>1, <1>2, <1>3, <2>1 DEF InOrderOfDocs
  <2>3. i \in 1 .. k - 1
    BY <1>1, <2>2
  <2> QED BY <2>3
<1>4. ASSUME NEW c \in applied', NEW i \in DOMAIN queue'[c.user], queue'[c.user][i].doc < c.doc
      PROVE  queue'[c.user][i] \in applied'
  <2>1. CASE c = b
    BY <1>2, <1>3, <1>4, <2>1
  <2>2. CASE c \in applied
    BY <1>4, <2>2 DEF AppliedInOrder
  <2> QED BY <1>4, <2>1, <2>2
<1> QED BY <1>4 DEF AppliedInOrder

\* What all answers of the server have in common.
LEMMA AnswerPromise ==
    ASSUME IInv, IInv', PInv, NEW b, Known(b),
           \/ applied' = applied \cup {b} /\ refused' = refused /\ b.ok
           \/ applied' = applied /\ refused' = refused \cup {b},
           AppliedInOrder', Sent(remote', applied', refused'),
           StraysInOrder(remote'.strays, queue, applied', refused'),
           UNCHANGED <<mainQ, workerQ, queue, nextId, issued, told, callbacks, acking>>
    PROVE  PInv'
<1>1. applied \subseteq applied' /\ refused \subseteq refused'
  OBVIOUS
<1>2. Dated'
  BY AnsweredDated DEF PInv
<1>3. Callers'
  BY <1>1, MainsSame, CallersQuietly DEF PInv
<1>4. All(acking', applied')
  BY <1>1, MoreAnswered DEF PInv, ServerSide
<1>5. \A c \in applied' : c.ok
  BY DEF PInv, ServerSide
<1>6. ServerSide'
  BY <1>4, <1>5 DEF ServerSide
<1> QED BY <1>2, <1>3, <1>6 DEF PInv

\* The first write that is on its way.
LEMMA FirstSent ==
    ASSUME IInv, OInv, ServerSide, remote.requests # <<>>, remote.ended = "none"
    PROVE  /\ remote.handshake /\ remote.user = currentUser
           /\ \E n \in 0 .. Len(remote.pipeline) - 1 :
                 /\ Ends(remote.requests, remote.pipeline, n)
                 /\ \A i \in 1 .. n : remote.pipeline[i] \in applied
           /\ \E k \in DOMAIN queue[currentUser] :
                 /\ queue[currentUser][k] = Head(remote.requests)
                 /\ \A j \in 1 .. k - 1 : queue[currentUser][j] \in applied
           /\ Len(remote.responses) < Len(remote.pipeline)
           /\ remote.pipeline[Len(remote.responses) + 1] = Head(remote.requests)
<1> DEFINE s == remote.requests
           p == remote.pipeline
           a == remote.responses
           q == queue[currentUser]
<1>1. s \in Seq(Batch) /\ p \in Seq(Batch) /\ a \in Seq(Batch) /\ q \in Seq(Batch) /\ Sorted(q)
  BY Stores, Types
<1>2. remote.handshake /\ remote.state = "open" /\ remote.user = currentUser
  BY Types DEF Orderly, OInv, Owns
<1>3. PICK n \in 0 .. Len(p) : Ends(s, p, n) /\ \A i \in 1 .. n : p[i] \in applied
  BY <1>2 DEF ServerSide, Sent
<1>4. n \in 0 .. Len(p) - 1
  BY <1>1, <1>3 DEF Ends
<1>5. Follows(s, q, applied) /\ Placed(s, q, {})
  BY <1>1, <1>3, Stores, RequestsFollow DEF ServerSide
<1>6. \E k \in DOMAIN q : q[k] = Head(s) /\ \A j \in 1 .. k - 1 : q[j] \in applied
  <2>1. 1 \in DOMAIN s /\ Head(s) = s[1]
    BY <1>1
  <2>2. PICK k \in DOMAIN q : q[k] = Head(s)
    BY <1>5, <2>1 DEF Placed
  <2>3. \A j \in 1 .. k - 1 : q[j] \in applied
    BY <1>1, <1>5, <2>2, FollowsOn
  <2> QED BY <2>2, <2>3
<1>7. Len(a) < Len(p) /\ p[Len(a) + 1] = Head(s)
  <2>1. a \o s = p
    BY <1>2 DEF IInv, InOrder, InStep
  <2>2. Len(a) \in Nat /\ Len(s) \in Nat \ {0} /\ Head(s) = s[1]
    BY <1>1
  <2>3. /\ Len(a \o s) = Len(a) + Len(s)
        /\ \A i \in 1 .. Len(a) + Len(s) : (a \o s)[i] = IF i <= Len(a) THEN a[i] ELSE s[i - Len(a)]
    BY <1>1, ConcatProperties
  <2> HIDE DEF a, s, p
  <2>4. Len(a) < Len(p) /\ p[Len(a) + 1] = s[Len(a) + 1 - Len(a)] /\ Len(a) + 1 - Len(a) = 1
    BY <2>1, <2>2, <2>3
  <2> QED BY <2>2, <2>4
<1> QED BY <1>2, <1>3, <1>4, <1>6, <1>7

\* The answer to the n-th write of the pipeline leaves the others on their way.
LEMMA OneMoreApplied ==
    ASSUME NEW s \in Seq(Batch), s # <<>>, NEW p \in Seq(Batch), NEW n \in 0 .. Len(p) - 1, Ends(s, p, n),
           NEW A, \A i \in 1 .. n : p[i] \in A
    PROVE  /\ n + 1 \in 0 .. Len(p) /\ Ends(Tail(s), p, n + 1)
           /\ \A i \in 1 .. n + 1 : p[i] \in A \cup {Head(s)}
<1> DEFINE t == Tail(s)
<1>1. /\ DOMAIN s = 1 .. Len(s) /\ Len(s) \in Nat \ {0} /\ DOMAIN t = 1 .. Len(s) - 1 /\ Len(t) = Len(s) - 1
      /\ Head(s) = s[1] /\ \A i \in DOMAIN t : t[i] = s[i + 1] /\ i + 1 \in DOMAIN s
  BY Shifted
<1> HIDE DEF t
<1>2. Len(p) = n + Len(s) /\ n \in Nat /\ \A i \in DOMAIN s : s[i] = p[n + i]
  BY DEF Ends
<1>3. \A i \in DOMAIN t : n + (i + 1) = n + 1 + i
  BY <1>1, <1>2
<1>4. Ends(t, p, n + 1)
  BY <1>1, <1>2, <1>3 DEF Ends
<1>5. p[n + 1] = Head(s)
  BY <1>1, <1>2
<1>6. \A i \in 1 .. n + 1 : i \in 1 .. n \/ i = n + 1
  BY <1>2
<1> QED BY <1>2, <1>4, <1>5, <1>6 DEF t

LEMMA ServerHandlesPromise == ASSUME IInv, IInv', OInv, PInv, ServerHandles PROVE PInv'
<1> DEFINE b == Head(remote.requests)
           s == remote.requests
           p == remote.pipeline
           q == queue[currentUser]
<1>1. /\ s # <<>> /\ remote.ended = "none"
      /\ UNCHANGED <<mainQ, workerQ, queue, nextId, issued, told, callbacks, acking>>
  BY DEF ServerHandles, identity, syncEngine, localStore, budget
<1>2. remote \in Remote /\ s \in Seq(Batch) /\ p \in Seq(Batch) /\ remote.responses \in Seq(Batch)
  BY Types, Stores
<1>3. /\ remote.handshake /\ Len(remote.responses) < Len(p) /\ p[Len(remote.responses) + 1] = b
  BY <1>1, FirstSent DEF PInv
<1>4. PICK n \in 0 .. Len(p) - 1 : Ends(s, p, n) /\ \A i \in 1 .. n : p[i] \in applied
  BY <1>1, FirstSent DEF PInv
<1>5. PICK k \in DOMAIN q : q[k] = b /\ \A j \in 1 .. k - 1 : q[j] \in applied
  BY <1>1, FirstSent DEF PInv
<1>6. Known(b)
  BY <1>5, Types DEF Known
<1>7. CASE Accepts(remote.user, b)
  <2>1. /\ applied' = applied \cup {b} /\ refused' = refused
        /\ remote' = [remote EXCEPT !.requests = Tail(@), !.responses = Append(@, b)]
    BY <1>7 DEF ServerHandles
  <2>2. b.ok
    BY <1>7 DEF Accepts
  <2>3. AppliedInOrder'
    BY <1>1, <1>5, <2>1, Types, AppliedGrows DEF PInv, ServerSide
  <2>4. /\ n + 1 \in 0 .. Len(p) /\ Ends(Tail(s), p, n + 1)
        /\ \A i \in 1 .. n + 1 : p[i] \in applied'
    BY <1>1, <1>2, <1>4, <2>1, OneMoreApplied
  <2>5. All(Append(remote.responses, b), applied')
    <3>1. All(remote.responses, applied)
      BY DEF PInv, ServerSide, Sent
    <3>2. \A i \in DOMAIN Append(remote.responses, b) :
              Append(remote.responses, b)[i] = b
              \/ (i \in DOMAIN remote.responses /\ Append(remote.responses, b)[i] = remote.responses[i])
      BY <1>2, Appended
    <3> QED BY <2>1, <3>1, <3>2 DEF All
  <2> HIDE DEF b
  <2>6. /\ remote'.pipeline = p /\ remote'.handshake = remote.handshake /\ remote'.requests = Tail(s)
        /\ remote'.responses = Append(remote.responses, b) /\ remote'.ended = "none"
        /\ remote'.strays = remote.strays
    BY <1>1, <1>2, <2>1 DEF Remote
  <2>7. Sent(remote', applied', refused')
    BY <2>4, <2>5, <2>6 DEF Sent
  <2>8. StraysInOrder(remote'.strays, queue, applied', refused')
    <3>1. applied \subseteq applied' /\ refused \subseteq refused'
      BY <2>1
    <3>2. StraysInOrder(remote.strays, queue, applied, refused)
      BY DEF PInv, ServerSide
    <3> QED BY <2>6, <3>1, <3>2, MoreAnswered
  <2> QED BY <1>1, <1>6, <2>1, <2>2, <2>3, <2>7, <2>8, AnswerPromise
<1>8. CASE ~Accepts(remote.user, b)
  <2>1. /\ refused' = refused \cup {b} /\ applied' = applied
        /\ remote' = [remote EXCEPT !.requests = Tail(@), !.ended = "PermissionDenied"]
    BY <1>8 DEF ServerHandles
  <2> HIDE DEF b
  <2>2. /\ remote'.pipeline = p /\ remote'.handshake = remote.handshake
        /\ remote'.responses = remote.responses /\ remote'.ended = "PermissionDenied"
        /\ remote'.strays = remote.strays
    BY <1>2, <2>1 DEF Remote
  <2>3. Sent(remote', applied', refused')
    BY <1>3, <2>1, <2>2 DEF PInv, ServerSide, Sent
  <2>4. StraysInOrder(remote'.strays, queue, applied', refused')
    <3>1. applied \subseteq applied' /\ refused \subseteq refused'
      BY <2>1
    <3>2. StraysInOrder(remote.strays, queue, applied, refused)
      BY DEF PInv, ServerSide
    <3> QED BY <2>2, <3>1, <3>2, MoreAnswered
  <2>5. AppliedInOrder'
    BY <1>1, <2>1 DEF PInv, ServerSide, AppliedInOrder
  <2> QED BY <1>1, <1>6, <2>1, <2>3, <2>4, <2>5, AnswerPromise
<1> QED BY <1>7, <1>8

\* What arrives late is the next of its user's writes, or was answered before.
LEMMA StrayPromise ==
    ASSUME IInv, IInv', OInv, PInv, NEW stray \in remote.strays, StrayArrives(stray) PROVE PInv'
<1> DEFINE s == stray.requests
           b == Head(s)
           rest == Tail(s)
           u == stray.user
           q == queue[u]
           next == [stray EXCEPT !.requests = rest]
           t == remote.strays \ {stray}
<1>1. UNCHANGED <<mainQ, workerQ, queue, nextId, issued, told, callbacks, acking>>
  BY DEF StrayArrives, identity, syncEngine, localStore, budget
<1>2. remote \in Remote /\ stray \in Stray
  BY Types, Stores
<1>3. u \in Anybody /\ s \in Seq(Batch) /\ s # <<>> /\ next.requests = rest /\ next.user = u
  BY <1>2 DEF Stray
<1>4. q \in Seq(Batch)
  BY <1>3, Queue
<1>5. Follows(s, q, applied) /\ Placed(s, q, applied \cup refused)
  BY DEF PInv, ServerSide, StraysInOrder
<1>6. b \in applied \cup refused \/ \E k \in DOMAIN q : q[k] = b
  <2>1. 1 \in DOMAIN s /\ b = s[1]
    BY <1>3
  <2> QED BY <1>5, <2>1 DEF Placed
<1>7. Known(b)
  BY <1>3, <1>6 DEF Known
<1>8. /\ Follows(rest, q, applied \cup {b}) /\ Placed(rest, q, applied \cup refused)
      /\ \A k \in DOMAIN q : q[k] = b => \A j \in 1 .. k - 1 : q[j] \in applied
  BY <1>3, <1>4, <1>5, FollowsOn
<1>9. \A r : [remote EXCEPT !.strays = r].strays = r /\ \A A, R : Sent(remote, A, R) => Sent([remote EXCEPT !.strays = r], A, R)
  BY <1>2 DEF Sent, Remote
<1>10. CASE Accepts(u, b)
  <2>1. /\ applied' = applied \cup {b} /\ refused' = refused
        /\ remote' = [remote EXCEPT !.strays = t \cup (IF rest = <<>> THEN {} ELSE {next})]
    BY <1>2, <1>10 DEF StrayArrives, Remote
  <2>2. b.ok /\ b \notin refused
    BY <1>10 DEF Accepts, OInv, RefusedOnItsMerits
  <2>3. applied \subseteq applied' /\ refused \subseteq refused'
    BY <2>1
  <2>4. AppliedInOrder'
    <3>1. CASE b \in applied
      BY <1>1, <2>1, <3>1 DEF PInv, ServerSide, AppliedInOrder
    <3>2. CASE b \notin applied
      <4>1. PICK k \in DOMAIN q : q[k] = b
        BY <1>6, <2>2, <3>2
      <4> QED BY <1>1, <1>3, <1>8, <2>1, <4>1, AppliedGrows DEF PInv, ServerSide
    <3> QED BY <3>1, <3>2
  <2> HIDE DEF b, rest, next
  <2>5. Sent(remote', applied', refused')
    <3>1. Sent(remote, applied', refused')
      BY <2>3, MoreAnswered DEF PInv, ServerSide
    <3> QED BY <1>9, <2>1, <3>1
  <2>6. StraysInOrder(remote'.strays, queue, applied', refused')
    <3>1. \A x \in remote'.strays : x \in remote.strays \/ x = next
      BY <1>9, <2>1
    <3>2. StraysInOrder(remote.strays, queue, applied', refused')
      BY <2>3, MoreAnswered DEF PInv, ServerSide
    <3>3. Follows(rest, q, applied') /\ Placed(rest, q, applied' \cup refused')
      BY <1>8, <2>1 DEF Placed
    <3> QED BY <1>3, <3>1, <3>2, <3>3 DEF StraysInOrder
  <2> QED BY <1>1, <1>7, <2>1, <2>2, <2>4, <2>5, <2>6, AnswerPromise
<1>11. CASE ~Accepts(u, b)
  <2>1. /\ refused' = refused \cup {b} /\ applied' = applied
        /\ remote' = [remote EXCEPT !.strays = t]
    BY <1>2, <1>11 DEF StrayArrives, Remote
  <2>2. AppliedInOrder'
    BY <1>1, <2>1 DEF PInv, ServerSide, AppliedInOrder
  <2>3. applied \subseteq applied' /\ refused \subseteq refused'
    BY <2>1
  <2> HIDE DEF b, rest, next
  <2>4. Sent(remote', applied', refused')
    <3>1. Sent(remote, applied', refused')
      BY <2>3, MoreAnswered DEF PInv, ServerSide
    <3> QED BY <1>9, <2>1, <3>1
  <2>5. StraysInOrder(remote'.strays, queue, applied', refused')
    <3>1. StraysInOrder(remote.strays, queue, applied', refused')
      BY <2>3, MoreAnswered DEF PInv, ServerSide
    <3> QED BY <1>9, <2>1, <3>1 DEF StraysInOrder
  <2> QED BY <1>1, <1>7, <2>1, <2>2, <2>4, <2>5, AnswerPromise
<1> QED BY <1>10, <1>11

------------------------------------------------------------------------------
(* A caller is told *)

LEMMA OneIsTold ==
    ASSUME NEW m \in Seq(MainBlock), NEW cs, NEW t, NEW A, NEW R,
           ForOne(cs), Untold(cs, m, t), Truths(m, t, A, R),
           NEW v \in Anybody, NEW c \in cs[v], NEW bs, \A u \in Anybody : bs[u] \subseteq cs[u], c \notin bs[v],
           NEW x, x.kind = "answer", x.doc = c.doc, Truth(x.doc, x.answer, A, R)
    PROVE  ForOne(bs) /\ Untold(bs, Append(m, x), t) /\ Truths(Append(m, x), t, A, R)
<1> DEFINE l == Append(m, x)
<1>1. /\ \A i \in DOMAIN m : l[i] = m[i]
      /\ \A i \in DOMAIN l : (i \in DOMAIN m /\ l[i] = m[i]) \/ (i = Len(m) + 1 /\ l[i] = x)
  BY Appended
<1> HIDE DEF l
<1>2. ForOne(bs)
  BY DEF ForOne
<1>3. Truths(l, t, A, R)
  BY <1>1 DEF Truths
<1>4. /\ t[c.doc] = "nothing"
      /\ \A i \in DOMAIN m : m[i].kind = "answer" => m[i].doc # c.doc
  BY DEF Untold
<1>5. \A u \in Anybody : \A d \in bs[u] : d.doc # c.doc
  BY DEF ForOne
<1>6. Untold(bs, l, t)
  <2>1. \A u \in Anybody : \A d \in bs[u] :
          t[d.doc] = "nothing" /\ \A i \in DOMAIN l : l[i].kind = "answer" => l[i].doc # d.doc
    BY <1>1, <1>5 DEF Untold
  <2>2. \A i, j \in DOMAIN l :
          l[i].kind = "answer" /\ l[j].kind = "answer" /\ l[i].doc = l[j].doc => i = j
    BY <1>1, <1>4 DEF Untold
  <2>3. \A i \in DOMAIN l : l[i].kind = "answer" => t[l[i].doc] = "nothing"
    BY <1>1, <1>4 DEF Untold
  <2> QED BY <2>1, <2>2, <2>3 DEF Untold
<1> QED BY <1>2, <1>3, <1>6 DEF l

\* The caller of the first batch of the current user's queue, if he waits, waits for this one.
LEMMA FirstIsTold ==
    ASSUME IInv, IInv', CInv, Callers, NEW q, q = queue[currentUser], q # <<>>, NEW answer,
           mainQ' = mainQ \o Answers(q[1], answer), callbacks' = Unregistered(q[1]),
           Truth(q[1].doc, answer, applied, refused), UNCHANGED <<applied, refused, told>>
    PROVE  /\ Callers'
           /\ \A u \in Anybody : callbacks'[u] \subseteq callbacks[u]
           /\ \A i \in DOMAIN mainQ' : mainQ'[i].kind = "answer" =>
                 \/ i \in DOMAIN mainQ /\ mainQ'[i] = mainQ[i]
                 \/ \E u \in Anybody : \E c \in callbacks[u] : c.doc = mainQ'[i].doc
<1> DEFINE b == q[1]
           cs == callbacks[currentUser]
<1>1. q \in Seq(Batch) /\ Sorted(q) /\ currentUser \in Anybody /\ mainQ \in Seq(MainBlock)
  BY Stores, Types
<1>2. /\ \A u \in Anybody : callbacks'[u] \subseteq callbacks[u]
      /\ \A c \in callbacks'[currentUser] : c.id # b.id
  BY UnregisteredOthers
<1>3. CASE \E c \in cs : c.id = b.id
  <2> DEFINE c == CHOOSE d \in cs : d.id = b.id
             x == [kind |-> "answer", answer |-> answer, doc |-> c.doc]
  <2>1. c \in cs /\ c.id = b.id
    BY <1>3
  <2>2. Answers(b, answer) = <<x>>
    BY <1>3 DEF Answers
  <2> HIDE DEF c
  <2>3. x.kind = "answer" /\ x.doc = c.doc /\ x.answer = answer
    OBVIOUS
  <2> HIDE DEF x
  <2>4. mainQ' = Append(mainQ, x)
    BY <1>1, <2>2, AppendIsConcat
  <2>5. c.doc = b.doc
    <3>1. PICK i \in DOMAIN q : q[i].id = c.id /\ q[i].doc = c.doc
      BY <1>1, <2>1 DEF CInv, Waits
    <3>2. 1 \in DOMAIN q /\ i \in Nat \ {0} /\ b.id \in Nat
      BY <1>1, BatchIds
    <3>3. ~(1 < i)
      BY <1>1, <2>1, <3>1, <3>2 DEF Sorted
    <3>4. i = 1
      BY <3>2, <3>3
    <3> QED BY <3>1, <3>4
  <2>6. c \notin callbacks'[currentUser]
    BY <1>2, <2>1
  <2>7. Callers'
    BY <1>1, <1>2, <2>1, <2>3, <2>4, <2>5, <2>6, OneIsTold DEF Callers
  <2>8. \A i \in DOMAIN mainQ' : (i \in DOMAIN mainQ /\ mainQ'[i] = mainQ[i]) \/ mainQ'[i] = x
    BY <1>1, <2>4, Appended
  <2> QED BY <1>1, <1>2, <2>1, <2>3, <2>7, <2>8
<1>4. CASE ~\E c \in cs : c.id = b.id
  <2>1. Answers(b, answer) = <<>>
    BY <1>4 DEF Answers
  <2>2. mainQ' = mainQ
    BY <1>1, <2>1, ConcatEmptySeq
  <2>3. Callers'
    BY <1>2, <2>2, MainsSame, CallersQuietly
  <2> QED BY <1>2, <2>2, <2>3
<1> QED BY <1>3, <1>4

\* Nothing is named that was not.
LEMMA NothingNamed ==
    ASSUME \A u \in Anybody : \A i \in DOMAIN queue'[u] : \E j \in DOMAIN queue[u] : queue[u][j] = queue'[u][i],
           \A u \in Anybody : callbacks'[u] \subseteq callbacks[u],
           \A i \in DOMAIN mainQ' : mainQ'[i].kind = "answer" =>
                 \/ i \in DOMAIN mainQ /\ mainQ'[i] = mainQ[i]
                 \/ \E u \in Anybody : \E c \in callbacks[u] : c.doc = mainQ'[i].doc,
           UNCHANGED <<applied, refused, told>>
    PROVE  Mentioned' \subseteq Mentioned
BY DEF Mentioned

\* The n-th write of the pipeline is the one before when its first is done.
LEMMA OneLessToSend ==
    ASSUME NEW s \in Seq(Batch), NEW p \in Seq(Batch), p # <<>>, NEW n \in 1 .. Len(p), Ends(s, p, n),
           NEW A, \A i \in 1 .. n : p[i] \in A
    PROVE  n - 1 \in 0 .. Len(Tail(p)) /\ Ends(s, Tail(p), n - 1) /\ \A i \in 1 .. n - 1 : Tail(p)[i] \in A
<1> DEFINE t == Tail(p)
<1>1. /\ DOMAIN p = 1 .. Len(p) /\ Len(p) \in Nat \ {0} /\ DOMAIN t = 1 .. Len(p) - 1 /\ Len(t) = Len(p) - 1
      /\ \A i \in DOMAIN t : t[i] = p[i + 1]
  BY Shifted
<1> HIDE DEF t
<1>2. Len(p) = n + Len(s) /\ n \in Nat \ {0} /\ Len(s) \in Nat /\ DOMAIN s = 1 .. Len(s)
      /\ \A i \in DOMAIN s : s[i] = p[n + i]
  BY DEF Ends
<1>3. \A i \in DOMAIN s : n - 1 + i \in DOMAIN t /\ n - 1 + i + 1 = n + i
  BY <1>1, <1>2
<1>4. \A i \in DOMAIN s : s[i] = t[n - 1 + i]
  BY <1>1, <1>2, <1>3
<1>5. Len(t) = n - 1 + Len(s) /\ n - 1 \in 0 .. Len(t)
  BY <1>1, <1>2
<1>6. \A i \in 1 .. n - 1 : i \in DOMAIN t /\ i + 1 \in 1 .. n
  BY <1>1, <1>2
<1> QED BY <1>1, <1>4, <1>5, <1>6 DEF Ends, t

\* The response is for the first of the pipeline, which has been applied.
LEMMA ResultPromise == ASSUME IInv, IInv', CInv, PInv, OnMutationResult PROVE PInv'
<1> DEFINE q == queue[currentUser]
           p == remote.pipeline
           a == remote.responses
           s == remote.requests
           b == Head(p)
<1>1. /\ Worker /\ remote.handshake /\ a # <<>>
      /\ UNCHANGED <<workerQ, currentUser, queue, nextId, issued, applied, refused, told>>
  BY DEF OnMutationResult, localStore, backend, budget
<1>2. /\ remote \in Remote /\ InStep(remote) /\ Filled(p, q) /\ q \in Seq(Batch)
      /\ p \in Seq(Batch) /\ a \in Seq(Batch) /\ s \in Seq(Batch)
  BY <1>1, BeforeATurn DEF Remote
<1>3. /\ Len(a) \in Nat \ {0} /\ Len(p) \in Nat /\ Len(s) \in Nat
      /\ Len(a) + Len(s) <= Len(p) /\ a = SubSeq(p, 1, Len(a)) /\ p # <<>> /\ Len(a) <= Len(p)
  <2>1. Len(a) \in Nat \ {0} /\ Len(p) \in Nat /\ Len(s) \in Nat
    BY <1>1, <1>2
  <2>2. Len(a) + Len(s) <= Len(p) /\ a = SubSeq(p, 1, Len(a))
    BY <1>1, <1>2 DEF InStep
  <2>3. Len(a) <= Len(p)
    BY <2>1, <2>2, Sums
  <2>4. p # <<>>
    BY <1>2, <2>1, <2>3
  <2> QED BY <2>1, <2>2, <2>3, <2>4
<1>4. /\ remote' = [remote EXCEPT !.responses = Tail(@), !.pipeline = Tail(@)]
      /\ mainQ' = mainQ \o Answers(b, "ok") /\ callbacks' = Unregistered(b) /\ acking' = <<b>>
  BY <1>3 DEF OnMutationResult
<1>5. b = a[1] /\ 1 \in DOMAIN a /\ b = p[1]
  BY <1>1, <1>2, <1>3, HeadsAndTails
<1>6. All(a, applied) /\ b \in applied
  BY <1>5 DEF PInv, ServerSide, Sent, All
<1>7. q # <<>> /\ b = q[1]
  BY <1>2, <1>3, TailFits
<1>8. /\ remote'.pipeline = Tail(p) /\ remote'.handshake /\ remote'.requests = s
      /\ remote'.responses = Tail(a) /\ remote'.ended = remote.ended /\ remote'.strays = remote.strays
  BY <1>1, <1>2, <1>4 DEF Remote
<1> HIDE DEF b, q, p, a, s
<1>9. /\ Callers'
      /\ \A u \in Anybody : callbacks'[u] \subseteq callbacks[u]
      /\ \A i \in DOMAIN mainQ' : mainQ'[i].kind = "answer" =>
            \/ i \in DOMAIN mainQ /\ mainQ'[i] = mainQ[i]
            \/ \E u \in Anybody : \E c \in callbacks[u] : c.doc = mainQ'[i].doc
  <2>1. Truth(q[1].doc, "ok", applied, refused)
    BY <1>6, <1>7 DEF Truth
  <2> QED BY <1>1, <1>4, <1>7, <2>1, FirstIsTold DEF PInv, q
<1>10. Dated'
  <2>1. Mentioned' \subseteq Mentioned
    BY <1>1, <1>9, NothingNamed
  <2> QED BY <1>1, <2>1 DEF PInv, Dated
<1>11. /\ \A i \in DOMAIN Tail(a) : Tail(a)[i] = a[i + 1] /\ i + 1 \in DOMAIN a
       /\ Len(Tail(a)) = Len(a) - 1
       /\ \A i \in DOMAIN Tail(p) : Tail(p)[i] = p[i + 1]
       /\ Len(Tail(p)) = Len(p) - 1 /\ DOMAIN Tail(p) = 1 .. Len(p) - 1
  BY <1>1, <1>2, <1>3, Shifted DEF a
<1>12. Sent(remote', applied', refused')
  <2>1. All(Tail(a), applied)
    BY <1>6, <1>11 DEF All
  <2>2. ASSUME remote.ended # "PermissionDenied"
        PROVE  \E n \in 0 .. Len(Tail(p)) : Ends(s, Tail(p), n) /\ \A i \in 1 .. n : Tail(p)[i] \in applied
    <3>1. PICK n \in 0 .. Len(p) : Ends(s, p, n) /\ \A i \in 1 .. n : p[i] \in applied
      BY <1>1, <2>2 DEF PInv, ServerSide, Sent, p, s
    <3>2. n \in 1 .. Len(p)
      BY <1>3, <3>1 DEF Ends
    <3> QED BY <1>2, <1>3, <3>1, <3>2, OneLessToSend
  <2>3. ASSUME remote.ended = "PermissionDenied"
        PROVE  Len(Tail(a)) < Len(Tail(p)) /\ Tail(p)[Len(Tail(a)) + 1] \in refused
    <3>1. Len(a) < Len(p) /\ p[Len(a) + 1] \in refused
      BY <2>3 DEF PInv, ServerSide, Sent, p, a
    <3>2. Len(a) \in 1 .. Len(p) - 1 /\ Len(a) - 1 + 1 = Len(a)
      BY <1>3, <3>1
    <3> QED BY <1>3, <1>11, <3>1, <3>2
  <2> QED BY <1>1, <1>8, <2>1, <2>2, <2>3 DEF Sent
<1>13. All(acking', applied')
  BY <1>1, <1>4, <1>6 DEF All
<1>14. ServerSide'
  BY <1>1, <1>8, <1>12, <1>13 DEF PInv, ServerSide, AppliedInOrder
<1> QED BY <1>9, <1>10, <1>14 DEF PInv

\* The batch that goes was answered: nothing is out of its order.
LEMMA FirstLeaves ==
    ASSUME IInv, IInv', PInv, NEW q, q = queue[currentUser], q # <<>>, q[1] \in applied \cup refused,
           queue' = [queue EXCEPT ![currentUser] = Tail(q)], acking' = <<>>,
           Sent(remote', applied, refused), StraysInOrder(remote'.strays, queue, applied, refused),
           Callers', \A u \in Anybody : callbacks'[u] \subseteq callbacks[u],
           \A i \in DOMAIN mainQ' : mainQ'[i].kind = "answer" =>
                 \/ i \in DOMAIN mainQ /\ mainQ'[i] = mainQ[i]
                 \/ \E u \in Anybody : \E c \in callbacks[u] : c.doc = mainQ'[i].doc,
           UNCHANGED <<workerQ, nextId, issued, applied, refused, told>>
    PROVE  PInv'
<1>1. /\ \A u \in Anybody : InOrderOfDocs(queue'[u])
      /\ \A u \in Anybody : \A i \in DOMAIN queue'[u] : \E j \in DOMAIN queue[u] : queue[u][j] = queue'[u][i]
  BY DocsShrink DEF PInv, Dated
<1>2. Dated'
  <2>1. Mentioned' \subseteq Mentioned
    BY <1>1, NothingNamed
  <2> QED BY <1>1, <2>1 DEF PInv, Dated
<1>3. remote'.strays \in SUBSET Stray
  BY DEF IInv, TypeOK, Remote
<1>4. StraysInOrder(remote'.strays, queue', applied, refused)
  BY <1>3, StraysShrink
<1>5. AppliedInOrder'
  BY AppliedShrink DEF PInv, ServerSide
<1>6. All(acking', applied')
  BY DEF All
<1>7. ServerSide'
  BY <1>4, <1>5, <1>6 DEF PInv, ServerSide
<1> QED BY <1>2, <1>7 DEF PInv

LEMMA AcknowledgePromise == ASSUME IInv, IInv', PInv, AcknowledgeBatch PROVE PInv'
<1> DEFINE q == queue[currentUser]
<1>1. /\ acking # <<>> /\ acking' = <<>> /\ crash' = ~InQueue(acking[1])
      /\ queue' = (IF crash' THEN queue ELSE Removed(acking[1]))
      /\ remote' = FillWritePipeline(remote, queue'[currentUser], tokenCounter)
      /\ UNCHANGED <<mainQ, workerQ, currentUser, callbacks, nextId, issued, applied, refused, told>>
  BY DEF AcknowledgeBatch, identity, backend, budget
<1> HIDE DEF q
<1>2. /\ q \in Seq(Batch) /\ Sorted(q) /\ q # <<>> /\ acking[1] = q[1] /\ Fits(remote.pipeline, Tail(q))
      /\ InQueue(acking[1]) /\ Removed(acking[1]) = [queue EXCEPT ![currentUser] = Tail(q)]
  BY <1>1, AckedIsFirst DEF q
<1>3. queue' = [queue EXCEPT ![currentUser] = Tail(q)]
  BY <1>1, <1>2
<1>4. queue'[currentUser] = Tail(q) /\ Tail(q) \in Seq(Batch) /\ Sorted(Tail(q))
  BY <1>1, <1>2, <1>3, FrontRemoved DEF q
<1>5. q[1] \in applied
  <2>1. acking \in Seq(Batch) /\ 1 \in DOMAIN acking
    BY <1>1, Stores
  <2> QED BY <1>2, <2>1 DEF PInv, ServerSide, All
<1>6. Sent(remote', applied, refused) /\ remote'.strays = remote.strays
  <2>1. Sent(remote, applied, refused)
    BY DEF PInv, ServerSide
  <2>2. remote \in Remote /\ Orderly(remote) /\ tokenCounter \in Nat
    BY Types
  <2> DEFINE t == Tail(q)
             f == FillWritePipeline(remote, t, tokenCounter)
  <2>3. t \in Seq(Batch) /\ Sorted(t) /\ Fits(remote.pipeline, t) /\ remote' = f
    BY <1>1, <1>2, <1>4
  <2> HIDE DEF t
  <2>4. Sent(f, applied, refused) /\ f.strays = remote.strays
    BY <2>1, <2>2, <2>3, FillSends
  <2> HIDE DEF f
  <2> QED BY <2>3, <2>4
<1>7. Callers'
  BY <1>1, MainsSame, CallersQuietly DEF PInv
<1>8. StraysInOrder(remote'.strays, queue, applied, refused)
  BY <1>6 DEF PInv, ServerSide
<1> QED BY <1>1, <1>2, <1>3, <1>5, <1>6, <1>7, <1>8, FirstLeaves DEF q

\* What is rejected is the first of the pipeline: refused, unless a result was overtaken.
LEMMA FinishPromise == ASSUME IInv, IInv', OInv, CInv, PInv, OnStreamFinish PROVE PInv'
<1> DEFINE q == queue[currentUser]
           p == remote.pipeline
           a == remote.responses
           b == Head(p)
<1>1. /\ Worker /\ CanFinish
      /\ remote' = OnWriteStreamClose(remote, remote.ended, queue'[currentUser], tokenCounter)
      /\ UNCHANGED <<workerQ, currentUser, acking, nextId, issued, applied, refused, told>>
  BY DEF OnStreamFinish, backend, budget
<1>2. /\ remote \in Remote /\ Filled(p, q) /\ p \in Seq(Batch) /\ q \in Seq(Batch) /\ Sorted(q)
      /\ tokenCounter \in Nat /\ Orderly(remote) /\ InStep(remote) /\ a \in Seq(Batch)
  BY <1>1, BeforeATurn DEF Remote
<1>3. CASE RejectsFront(remote, remote.ended)
  <2>1. /\ crash' = ~InQueue(b) /\ queue' = (IF crash' THEN queue ELSE Removed(b))
        /\ mainQ' = mainQ \o Answers(b, "failed") /\ callbacks' = Unregistered(b)
    BY <1>3 DEF OnStreamFinish
  <2>2. p # <<>> /\ remote.handshake /\ remote.ended = "PermissionDenied"
    BY <1>3 DEF RejectsFront, IsPermanentWriteError
  <2>3. b = p[1]
    BY <1>2, <2>2
  <2>4. All(a, applied) /\ Len(a) < Len(p) /\ p[Len(a) + 1] \in refused
    BY <2>2 DEF PInv, ServerSide, Sent
  <2>5. a = SubSeq(p, 1, Len(a)) /\ Len(a) \in Nat /\ Len(p) \in Nat
    BY <1>2, <2>2 DEF InStep
  <2> HIDE DEF b, p, q, a
  <2>6. q # <<>> /\ b = q[1] /\ Fits(Tail(p), Tail(q))
    BY <1>2, <2>2, TailFits DEF b
  <2>7. queue' = [queue EXCEPT ![currentUser] = Tail(q)]
    BY <1>2, <2>1, <2>6, RemovedFirst DEF q
  <2>8. queue'[currentUser] = Tail(q) /\ Tail(q) \in Seq(Batch) /\ Sorted(Tail(q))
    BY <1>1, <2>6, <2>7, FrontRemoved DEF q
  <2>9. a = <<>> => b \in refused
    <3>1. Len(<<>>) + 1 = 1
      OBVIOUS
    <3> QED BY <2>3, <2>4, <3>1
  <2>10. a # <<>> => b \in applied
    <3> SUFFICES ASSUME a # <<>> PROVE b \in applied
      OBVIOUS
    <3>1. 1 \in DOMAIN a /\ Head(a) = a[1] /\ Len(a) <= Len(p)
      BY <1>2, <2>4, <2>5
    <3>2. b = Head(a)
      BY <1>2, <2>5, <3>1, HeadsAndTails DEF b
    <3> QED BY <2>4, <3>1, <3>2 DEF All
  <2>11. ~Overtaking => a = <<>>
    BY <1>1 DEF CanFinish, a
  <2>12. Truth(q[1].doc, "failed", applied, refused)
    BY <2>6, <2>9, <2>11 DEF Truth
  <2>13. /\ Callers'
         /\ \A u \in Anybody : callbacks'[u] \subseteq callbacks[u]
         /\ \A i \in DOMAIN mainQ' : mainQ'[i].kind = "answer" =>
               \/ i \in DOMAIN mainQ /\ mainQ'[i] = mainQ[i]
               \/ \E u \in Anybody : \E c \in callbacks[u] : c.doc = mainQ'[i].doc
    BY <1>1, <2>1, <2>6, <2>12, FirstIsTold DEF PInv, q
  <2>14. GivenUp(remote', remote)
    BY <1>1, <1>2, <2>6, <2>8, CloseGivesUp DEF p
  <2>15. Sent(remote', applied, refused)
    BY <2>14, NothingSent
  <2>16. StraysInOrder(remote'.strays, queue, applied, refused)
    BY <2>14, AbandonedInOrder DEF PInv, GivenUp, StraysInOrder
  <2>17. q[1] \in applied \cup refused /\ acking' = <<>>
    BY <1>1, <2>6, <2>9, <2>10 DEF Worker
  <2> QED BY <1>1, <2>6, <2>7, <2>13, <2>15, <2>16, <2>17, FirstLeaves DEF q
<1>4. CASE ~RejectsFront(remote, remote.ended)
  <2>1. UNCHANGED <<queue, mainQ, callbacks>>
    BY <1>4 DEF OnStreamFinish
  <2>2. remote' = OnWriteStreamClose(remote, remote.ended, q, tokenCounter)
    BY <1>1, <2>1
  <2>3. GivenUp(remote', remote)
    BY <1>2, <1>4, <2>2, CloseGivesUp
  <2> QED BY <1>1, <2>1, <2>3, GivesUpPromise DEF Worker
<1> QED BY <1>3, <1>4

------------------------------------------------------------------------------
(* A write is put into the queue *)

\* The first write of the worker's queue is later than what was seen of any other.
LEMMA NewestDoc ==
    ASSUME IInv, Dated, workerQ # <<>>, Head(workerQ).kind = "write", NEW d, d = Head(workerQ).doc
    PROVE  /\ d \in Doc /\ nextId <= d /\ Head(workerQ).ok \in Verdicts
           /\ \A e \in Mentioned : e < d
           /\ Past(workerQ, issued) \cup {d} \subseteq Past(Tail(workerQ), issued)
           /\ Upcoming(nextId + 1, Tail(workerQ), issued)
<1> DEFINE w == workerQ
           v == Tail(w)
<1>1. /\ w \in Seq(WorkerBlock) /\ w[1] = Head(w) /\ 1 \in DOMAIN w /\ DOMAIN w = 1 .. Len(w)
      /\ \A i \in DOMAIN v : v[i] = w[i + 1] /\ i + 1 \in DOMAIN w /\ 1 < i + 1
      /\ \A i, j \in DOMAIN v : i < j => i + 1 < j + 1
  BY Types, Shifted
<1>2. \A i \in DOMAIN w : w[i].kind = "write" => w[i].doc \in Doc /\ w[i].doc \in Nat
  <2>1. \A i \in DOMAIN w : w[i] \in WorkerBlock
    BY <1>1
  <2>2. \A x \in WorkerBlock : x.kind = "write" => x.doc \in Doc /\ x.doc \in Nat
    BY DEF WorkerBlock, Doc
  <2> QED BY <2>1, <2>2
<1>3. issued \in Nat /\ nextId \in Nat /\ Upcoming(nextId, w, issued)
  BY Stores DEF Dated
<1> HIDE DEF w, v
<1>4. w[1].kind = "write" /\ d = w[1].doc
  BY <1>1 DEF w
<1>5. d \in Doc /\ d \in Nat /\ nextId <= d /\ d <= issued /\ w[1].ok \in Verdicts
  BY <1>1, <1>2, <1>3, <1>4 DEF Upcoming
<1>6. \A i \in DOMAIN v : v[i].kind = "write" => d < v[i].doc /\ v[i].doc \in Nat
  BY <1>1, <1>2, <1>3, <1>4 DEF Upcoming
<1>7. \A e \in Mentioned : e < d
  BY <1>1, <1>4 DEF Dated, Past, w
<1>8. Past(w, issued) \cup {d} \subseteq Past(v, issued)
  <2>1. Past(w, issued) \subseteq Past(v, issued)
    BY <1>1 DEF Past
  <2>2. d \in Past(v, issued)
    BY <1>5, <1>6 DEF Past
  <2> QED BY <2>1, <2>2
<1>9. Upcoming(nextId + 1, v, issued)
  <2>1. nextId + 1 <= issued + 1
    BY <1>3, <1>5
  <2>2. \A i \in DOMAIN v : v[i].kind = "write" => nextId + 1 <= v[i].doc
    BY <1>3, <1>5, <1>6
  <2>3. \A i \in DOMAIN v : v[i].kind = "write" => v[i].doc <= issued /\ v[i].ok \in Verdicts
    BY <1>1, <1>3 DEF Upcoming
  <2>4. \A i, j \in DOMAIN v : v[i].kind = "write" /\ v[j].kind = "write" /\ i < j => v[i].doc < v[j].doc
    BY <1>1, <1>3 DEF Upcoming
  <2> QED BY <2>1, <2>2, <2>3, <2>4 DEF Upcoming
<1> QED BY <1>1, <1>5, <1>7, <1>8, <1>9 DEF w, v

\* Behind the queue, the order is kept.
LEMMA DocsGrow ==
    ASSUME NEW q \in Seq(Batch), InOrderOfDocs(q), NEW x \in Batch, x.id <= x.doc, x.ok \in Verdicts,
           \A i \in DOMAIN q : q[i].doc < x.doc
    PROVE  InOrderOfDocs(Append(q, x))
<1> DEFINE a == Append(q, x)
<1>1. /\ Len(q) \in Nat /\ DOMAIN q = 1 .. Len(q) /\ DOMAIN a = 1 .. Len(q) + 1
      /\ \A i \in DOMAIN q : a[i] = q[i]
      /\ a[Len(q) + 1] = x
  BY Appended
<1> HIDE DEF a
<1>2. ASSUME NEW i \in DOMAIN a, NEW j \in DOMAIN a, i < j PROVE a[i].doc < a[j].doc
  <2>1. i \in DOMAIN q /\ (j \in DOMAIN q \/ j = Len(q) + 1)
    BY <1>1, <1>2
  <2> QED BY <1>1, <1>2, <2>1 DEF InOrderOfDocs
<1>3. \A i \in DOMAIN a : a[i].id <= a[i].doc /\ a[i].ok \in Verdicts
  BY <1>1 DEF InOrderOfDocs
<1> QED BY <1>2, <1>3 DEF InOrderOfDocs, a

\* Nobody waits for a write that was not mentioned, and nobody was told of it.
LEMMA OneMoreWaits ==
    ASSUME IInv, Callers, NEW x, x.doc \in Doc, x.doc \notin Mentioned,
           \A u \in Anybody : \A c \in callbacks'[u] :
               c \in callbacks[u] \/ (u = currentUser /\ c = [id |-> x.id, doc |-> x.doc]),
           UNCHANGED <<mainQ, told, applied, refused>>
    PROVE  Callers'
<1> DEFINE e == [id |-> x.id, doc |-> x.doc]
<1>1. e.doc = x.doc
  OBVIOUS
<1> HIDE DEF e
<1>2. \A u \in Anybody : \A c \in callbacks'[u] : c \in callbacks[u] \/ (u = currentUser /\ c = e)
  BY DEF e
<1>3. /\ \A u \in Anybody : \A c \in callbacks[u] : c.doc # e.doc
      /\ \A i \in DOMAIN mainQ : mainQ[i].kind = "answer" => mainQ[i].doc # e.doc
      /\ told[e.doc] = "nothing"
  BY <1>1 DEF Mentioned
<1>4. ForOne(callbacks')
  BY <1>2, <1>3 DEF Callers, ForOne
<1>5. Untold(callbacks', mainQ', told')
  BY <1>2, <1>3 DEF Callers, Untold
<1>6. Truths(mainQ', told', applied', refused')
  BY DEF Callers
<1> QED BY <1>4, <1>5, <1>6 DEF Callers

\* What the server has seen are other writes.
LEMMA OneMoreQueued ==
    ASSUME IInv, OInv, ServerSide, NEW x \in Batch, NEW q, q = queue[currentUser],
           queue' = [queue EXCEPT ![currentUser] = Append(q, x)],
           \A b \in applied \cup refused : b.doc < x.doc,
           \A u \in Anybody : \A i \in DOMAIN queue[u] : queue[u][i].doc < x.doc
    PROVE  /\ StraysInOrder(remote.strays, queue', applied, refused)
           /\ \A b \in applied : \A i \in DOMAIN queue'[b.user] :
                 queue'[b.user][i].doc < b.doc => queue'[b.user][i] \in applied
<1>1. q \in Seq(Batch) /\ x.doc \in Nat /\ \A b \in applied : b.user \in Anybody /\ b.doc \in Nat
  <2>1. \A b \in Batch : b.user \in Anybody /\ b.doc \in Nat
    BY DEF Batch, Anybody, Doc
  <2> QED BY <2>1, Stores, Types
<1>2. \A u \in Anybody : queue'[u] = IF u = currentUser THEN Append(q, x) ELSE queue[u]
  BY OneQueue
<1>3. ASSUME NEW s \in remote.strays
      PROVE  /\ Follows(s.requests, queue'[s.user], applied)
             /\ Placed(s.requests, queue'[s.user], applied \cup refused)
  <2>1. s.user \in Anybody
    BY Stores DEF Stray
  <2>2. Follows(s.requests, queue[s.user], applied) /\ Placed(s.requests, queue[s.user], applied \cup refused)
    BY DEF ServerSide, StraysInOrder
  <2>3. \A k \in DOMAIN s.requests : s.requests[k] # x
    <3>1. \A k \in DOMAIN s.requests : s.requests[k].doc < x.doc
      BY <2>1, <2>2 DEF Placed
    <3> QED BY <1>1, <3>1
  <2>4. CASE s.user = currentUser
    <3>1. queue'[s.user] = Append(q, x) /\ queue[s.user] = q
      BY <1>2, <2>1, <2>4
    <3> QED BY <1>1, <2>2, <2>3, <3>1, FollowsAppend
  <2>5. CASE s.user # currentUser
    BY <1>2, <2>1, <2>2, <2>5
  <2> QED BY <2>4, <2>5
<1>4. ASSUME NEW b \in applied, NEW i \in DOMAIN queue'[b.user], queue'[b.user][i].doc < b.doc
      PROVE  queue'[b.user][i] \in applied
  <2>1. CASE b.user = currentUser
    <3>1. queue'[b.user] = Append(q, x)
      BY <1>1, <1>2, <2>1
    <3>2. (i \in DOMAIN q /\ Append(q, x)[i] = q[i]) \/ Append(q, x)[i] = x
      BY <1>1, <1>4, <3>1, Appended
    <3>3. Append(q, x)[i] # x
      <4>1. b.doc < x.doc /\ b.doc \in Nat
        BY <1>1
      <4> QED BY <1>1, <1>4, <3>1, <4>1
    <3> QED BY <1>4, <2>1, <3>1, <3>2, <3>3 DEF ServerSide, AppliedInOrder
  <2>2. CASE b.user # currentUser
    BY <1>1, <1>2, <1>4, <2>2 DEF ServerSide, AppliedInOrder
  <2> QED BY <2>1, <2>2
<1> QED BY <1>3, <1>4 DEF StraysInOrder

LEMMA HandleWritePromise == ASSUME IInv, IInv', OInv, PInv, HandleWrite PROVE PInv'
<1> DEFINE write == Head(workerQ)
           x == [id |-> nextId, user |-> write.user, doc |-> write.doc, ok |-> write.ok]
           q == queue[currentUser]
           f == FillWritePipeline(remote, queue'[currentUser], tokenCounter)
<1>1. /\ Worker /\ workerQ # <<>> /\ write.kind = "write" /\ workerQ' = Tail(workerQ)
      /\ queue' = [queue EXCEPT ![currentUser] = Append(q, x)]
      /\ callbacks' = [callbacks EXCEPT ![currentUser] = Registered(@, x)]
      /\ nextId' = nextId + 1 /\ remote' = f
      /\ UNCHANGED <<mainQ, currentUser, acking, issued, applied, refused, told>>
  BY DEF HandleWrite, NextOnWorker, identity, backend, budget
<1>2. x \in Batch /\ x.id = nextId /\ x.doc = write.doc /\ x.ok = write.ok
  <2>1. write \in WorkerBlock /\ nextId \in Nat \ {0}
    BY <1>1 DEF IInv, TypeOK
  <2>2. write.user \in Users /\ write.doc \in Doc /\ write.ok \in BOOLEAN
    BY <1>1, <2>1 DEF WorkerBlock
  <2> QED BY <2>1, <2>2 DEF Batch
<1>3. /\ x.doc \in Doc /\ x.id <= x.doc /\ x.ok \in Verdicts
      /\ \A e \in Mentioned : e < x.doc
      /\ Past(workerQ, issued) \cup {x.doc} \subseteq Past(workerQ', issued)
      /\ Upcoming(nextId', workerQ', issued)
  BY <1>1, <1>2, NewestDoc DEF PInv, Dated
<1>4. /\ q \in Seq(Batch) /\ Sorted(q) /\ Fits(remote.pipeline, q) /\ \A i \in DOMAIN q : q[i].id < x.id
      /\ remote \in Remote /\ Orderly(remote) /\ tokenCounter \in Nat
  BY <1>1, <1>2, Types, BeforeATurn DEF IInv, Queues
<1>5. \A c \in Registered(callbacks[currentUser], x) :
          c \in callbacks[currentUser] \/ c = [id |-> x.id, doc |-> x.doc]
  BY DEF Registered
<1> HIDE DEF x, q, f
<1>6. /\ queue'[currentUser] = Append(q, x) /\ Append(q, x) \in Seq(Batch)
      /\ Sorted(Append(q, x)) /\ Fits(remote.pipeline, Append(q, x))
  BY <1>1, <1>2, <1>4, Types, BehindTheQueue DEF IInv, TypeOK
<1>7. /\ \A u \in Anybody : \A i \in DOMAIN queue[u] : queue[u][i].doc \in Mentioned
      /\ \A b \in applied \cup refused : b.doc \in Mentioned
  <2>1. \A b \in Batch : b.doc \in Doc
    BY DEF Batch
  <2> QED BY <2>1, Stores DEF Mentioned
<1>8. \A u \in Anybody : queue'[u] = IF u = currentUser THEN Append(q, x) ELSE queue[u]
  BY <1>1, OneQueue
<1>9. Dated'
  <2>1. \A i \in DOMAIN Append(q, x) : (i \in DOMAIN q /\ Append(q, x)[i] = q[i]) \/ Append(q, x)[i] = x
    BY <1>4, Appended
  <2>2. \A u \in Anybody : InOrderOfDocs(queue'[u])
    <3>1. InOrderOfDocs(q) /\ \A i \in DOMAIN q : q[i].doc < x.doc
      BY <1>3, <1>7, Types DEF PInv, Dated, q
    <3>2. InOrderOfDocs(Append(q, x))
      BY <1>2, <1>3, <1>4, <3>1, DocsGrow
    <3> QED BY <1>8, <3>2 DEF PInv, Dated
  <2>3. \A u \in Anybody : \A i \in DOMAIN queue'[u] :
            queue'[u][i].doc = x.doc \/ \E j \in DOMAIN queue[u] : queue'[u][i] = queue[u][j]
    BY <1>8, <2>1 DEF q
  <2>4. \A u \in Anybody : \A c \in callbacks'[u] : c.doc = x.doc \/ c \in callbacks[u]
    BY <1>1, <1>5, Stores
  <2>5. Mentioned' \subseteq Mentioned \cup {x.doc}
    BY <1>1, <2>3, <2>4 DEF Mentioned
  <2> QED BY <1>1, <1>3, <2>2, <2>5 DEF PInv, Dated
<1>10. ServerSide'
  <2>1. /\ StraysInOrder(remote.strays, queue', applied, refused)
        /\ \A b \in applied : \A i \in DOMAIN queue'[b.user] :
              queue'[b.user][i].doc < b.doc => queue'[b.user][i] \in applied
    BY <1>1, <1>2, <1>3, <1>7, OneMoreQueued DEF PInv, q
  <2>2. Sent(remote, applied, refused)
    BY DEF PInv, ServerSide
  <2> DEFINE a == Append(q, x)
             g == FillWritePipeline(remote, a, tokenCounter)
  <2>3. a \in Seq(Batch) /\ Sorted(a) /\ Fits(remote.pipeline, a) /\ remote' = g
    BY <1>1, <1>6 DEF f
  <2> HIDE DEF a
  <2>4. Sent(g, applied, refused) /\ g.strays = remote.strays
    BY <1>4, <2>2, <2>3, FillSends
  <2> HIDE DEF g
  <2>5. Sent(remote', applied', refused') /\ StraysInOrder(remote'.strays, queue', applied', refused')
    BY <1>1, <2>1, <2>3, <2>4
  <2> QED BY <1>1, <2>1, <2>5 DEF PInv, ServerSide, AppliedInOrder
<1>11. Callers'
  <2>1. x.doc \notin Mentioned
    <3>1. ~(x.doc < x.doc)
      BY <1>3 DEF Doc
    <3> QED BY <1>3, <3>1, Zenon
  <2>2. \A u \in Anybody : \A c \in callbacks'[u] :
            c \in callbacks[u] \/ (u = currentUser /\ c = [id |-> x.id, doc |-> x.doc])
    BY <1>1, <1>5, Stores
  <2> QED BY <1>1, <1>3, <2>1, <2>2, OneMoreWaits DEF PInv
<1> QED BY <1>9, <1>10, <1>11 DEF PInv

------------------------------------------------------------------------------
(* The theorems *)

LEMMA InitPromised == Init => PInv
<1> SUFFICES ASSUME Init PROVE PInv
  OBVIOUS
<1>1. /\ workerQ = <<>> /\ acking = <<>> /\ nextId = 1 /\ issued = 0 /\ applied = {} /\ refused = {}
      /\ remote = Fresh /\ queue = [u \in Anybody |-> <<>>] /\ callbacks = [u \in Anybody |-> {}]
      /\ told = [d \in 1 .. MaxWrites |-> "nothing"]
      /\ mainQ = <<>> \/ mainQ = <<[kind |-> "changed", user |-> authUser]>>
  BY DEF Init
<1>2. DOMAIN <<>> = {} /\ \A x : DOMAIN <<x>> = {1} /\ <<x>>[1] = x
  OBVIOUS
<1>3. \A i \in DOMAIN mainQ : mainQ[i].kind # "answer"
  BY <1>1, <1>2
<1>4. \A u \in Anybody : DOMAIN queue[u] = {} /\ callbacks[u] = {}
  BY <1>1, <1>2
<1>5. \A d \in Doc : told[d] = "nothing"
  BY <1>1 DEF Doc
<1>6. Dated
  <2>1. Mentioned = {}
    BY <1>1, <1>3, <1>4, <1>5 DEF Mentioned
  <2>2. Upcoming(nextId, workerQ, issued)
    BY <1>1, <1>2 DEF Upcoming
  <2> QED BY <1>4, <2>1, <2>2 DEF Dated, InOrderOfDocs
<1>7. ServerSide
  <2>1. ~remote.handshake /\ remote.responses = <<>> /\ remote.ended = "none" /\ remote.strays = {}
    BY <1>1 DEF Fresh
  <2> QED BY <1>1, <1>2, <2>1 DEF ServerSide, Sent, All, StraysInOrder, AppliedInOrder
<1>8. Callers
  BY <1>3, <1>4, <1>5 DEF Callers, ForOne, Untold, Truths, Truth
<1> QED BY <1>6, <1>7, <1>8 DEF PInv

LEMMA StutterPromise == ASSUME PInv, UNCHANGED vars PROVE PInv'
<1>1. UNCHANGED <<mainQ, workerQ, acking, queue, nextId, issued, remote, applied, refused, told, callbacks>>
  BY DEF vars, identity, syncEngine, localStore, backend, budget
<1>2. Dated'
  BY <1>1 DEF PInv, Dated, Mentioned
<1>3. ServerSide' /\ Callers'
  BY <1>1 DEF PInv, ServerSide, AppliedInOrder, Callers
<1> QED BY <1>2, <1>3 DEF PInv

LEMMA PInvIsInductive == IInv /\ OInv /\ CInv /\ PInv /\ [Next]_vars => PInv'
<1> SUFFICES ASSUME IInv, OInv, CInv, PInv, [Next]_vars PROVE PInv'
  OBVIOUS
<1>1. IInv'
  BY IInvIsInductive
<1>2. CASE Relaunch
  BY <1>1, <1>2, RelaunchPromise
<1>3. CASE Auth
  BY <1>1, <1>3, AuthPromise
<1>4. CASE Main
  <2>1. ASSUME NEW ok \in Verdicts, Write(ok) PROVE PInv'
    BY <1>1, <2>1, WritePromise
  <2> QED BY <1>1, <1>4, <2>1, AuthStatePromise, OnTokenPromise, OnAnswerPromise DEF Main
<1>5. CASE WorkerStep
  BY <1>1, <1>5, CredentialPromise, HandleWritePromise, ResumeStartPromise, BackoffPromise,
     IdleTimeoutPromise, NetworkChangesPromise, HandshakePromise, ResultPromise,
     AcknowledgePromise, FinishPromise DEF WorkerStep
<1>6. CASE Server
  <2>1. ASSUME NEW code \in FaultCodes, RpcBreaks(code) PROVE PInv'
    BY <1>1, <2>1, RpcBreaksPromise
  <2>2. ASSUME NEW stray \in remote.strays, StrayArrives(stray) PROVE PInv'
    BY <1>1, <2>2, StrayPromise
  <2> QED BY <1>1, <1>6, <2>1, <2>2, ServerGreetsPromise, ServerHandlesPromise DEF Server
<1>7. CASE UNCHANGED vars
  BY <1>7, StutterPromise
<1> QED BY <1>2, <1>3, <1>4, <1>5, <1>6, <1>7 DEF Next

\* In every state of every behaviour, all invariants of the write path hold together.
THEOREM AlwaysPromised == Spec => [](IInv /\ OInv /\ CInv /\ PInv)
<1>1. Init => PInv
  BY InitPromised
<1>2. Spec => [](IInv /\ OInv) /\ [](IInv /\ CInv)
  BY AlwaysOwned, AlwaysWaitedFor
<1>3. IInv /\ OInv /\ CInv /\ PInv /\ [Next]_vars => PInv'
  BY PInvIsInductive
<1> QED BY <1>1, <1>2, <1>3, PTL DEF Spec

\* ServerHandles and StrayArrives apply no write while an earlier one of the same user is still
\* to be applied, though pipelines are sent again after a stream broke and what was sent
\* before may arrive at any time.
THEOREM ServerKeepsOrder == Spec => []AppliedInOrder
<1>1. PInv => AppliedInOrder
  BY DEF PInv, ServerSide
<1> QED BY <1>1, AlwaysPromised, PTL

\* Whose write OnMutationResult reports as stored finds it on the server: results carry no id,
\* and are taken for the front of the pipeline.
THEOREM ToldTheTruth == Spec => []StoredIfTold
<1>1. PInv => StoredIfTold
  BY DEF PInv, Callers, Truths, Truth, StoredIfTold
<1> QED BY <1>1, AlwaysPromised, PTL

------------------------------------------------------------------------------
(* Outbox: every step of the three threads, of the server and of the network is a step of it or
   leaves it as it is *)

Kept == O!Next \/ UNCHANGED O!vars

LEMMA Unnoticed == ASSUME UNCHANGED <<queue, applied, refused, told>> PROVE Kept
BY DEF Kept, O!vars

LEMMA InitKept == Init => O!Init
<1> SUFFICES ASSUME Init PROVE O!Init
  OBVIOUS
<1>1. queue = [u \in Anybody |-> <<>>] /\ applied = {} /\ refused = {} /\ told = [d \in Doc |-> "nothing"]
  BY DEF Init, Doc
<1> QED BY <1>1 DEF O!Init

------------------------------------------------------------------------------
(* The queue and the callers *)

\* HandleWrite puts a write that is like no other.
LEMMA HandleWriteKept == ASSUME IInv, OInv, PInv, HandleWrite PROVE Kept
<1> DEFINE write == Head(workerQ)
           x == [id |-> nextId, user |-> write.user, doc |-> write.doc, ok |-> write.ok]
           q == queue[currentUser]
<1>1. /\ workerQ # <<>> /\ write.kind = "write"
      /\ queue' = [queue EXCEPT ![currentUser] = Append(q, x)]
      /\ UNCHANGED <<applied, refused, told>>
  BY DEF HandleWrite, NextOnWorker, backend, budget
<1>2. x.id = nextId /\ x.user = write.user /\ x.doc = write.doc /\ x.ok = write.ok
  OBVIOUS
<1>3. /\ write.doc \in Doc /\ nextId <= write.doc /\ write.ok \in Verdicts
      /\ \A e \in Mentioned : e < write.doc
  BY <1>1, NewestDoc DEF PInv
<1>4. x \in [id : 1 .. MaxWrites, user : Users, doc : Doc, ok : Verdicts]
  <2>1. write.user \in Users
    <3>1. write \in WorkerBlock
      BY <1>1, Types
    <3> QED BY <1>1, <3>1 DEF WorkerBlock
  <2>2. nextId \in 1 .. MaxWrites
    BY <1>3, Stores, WriteBoundsAssumption DEF Doc
  <2> QED BY <1>3, <2>1, <2>2
<1>5. x.doc \in Nat /\ x.doc \notin Mentioned
  BY <1>2, <1>3 DEF Doc
<1> HIDE DEF x
<1>6. \A b \in applied \cup refused : b # x
  <2>1. \A b \in Batch : b.doc \in Doc
    BY DEF Batch
  <2> QED BY <1>5, <2>1, Stores DEF Mentioned
<1>7. \A v \in Anybody : \A i \in DOMAIN queue[v] : queue[v][i] # x
  <2>1. \A b \in Batch : b.doc \in Doc
    BY DEF Batch
  <2> QED BY <1>5, <2>1, Stores DEF Mentioned
<1>8. /\ currentUser \in Anybody /\ queue'[currentUser] = Append(q, x)
      /\ Len(Append(q, x)) = Len(q) + 1 /\ Append(q, x)[Len(q) + 1] = x
  <2>1. q \in Seq(Batch)
    BY Stores, Types
  <2> QED BY <1>1, <2>1, Stores, Types, Appended
<1>9. O!Put(currentUser)
  BY <1>1, <1>4, <1>6, <1>7, <1>8 DEF O!Put
<1> QED BY <1>8, <1>9 DEF Kept, O!Next

\* AcknowledgeBatch removes what the server has applied, OnStreamFinish what it has refused.
LEMMA RemoveKept ==
    ASSUME IInv, NEW q, q = queue[currentUser], q # <<>>, q[1] \in applied \cup refused,
           queue' = [queue EXCEPT ![currentUser] = Tail(q)], UNCHANGED <<applied, refused, told>>
    PROVE  Kept
<1>1. currentUser \in Anybody /\ Head(q) = q[1]
  BY Stores, Types
<1>2. O!Remove(currentUser)
  BY <1>1 DEF O!Remove
<1> QED BY <1>1, <1>2 DEF Kept, O!Next

LEMMA AcknowledgeKept == ASSUME IInv, PInv, AcknowledgeBatch PROVE Kept
<1> DEFINE q == queue[currentUser]
<1>1. /\ acking # <<>> /\ crash' = ~InQueue(acking[1])
      /\ queue' = (IF crash' THEN queue ELSE Removed(acking[1]))
      /\ UNCHANGED <<applied, refused, told>>
  BY DEF AcknowledgeBatch, backend
<1> HIDE DEF q
<1>2. /\ q # <<>> /\ acking[1] = q[1]
      /\ InQueue(acking[1]) /\ Removed(acking[1]) = [queue EXCEPT ![currentUser] = Tail(q)]
  BY <1>1, AckedIsFirst DEF q
<1>3. q[1] \in applied
  <2>1. acking \in Seq(Batch) /\ 1 \in DOMAIN acking
    BY <1>1, Stores
  <2> QED BY <1>2, <2>1 DEF PInv, ServerSide, All
<1> QED BY <1>1, <1>2, <1>3, RemoveKept DEF q

LEMMA FinishKept == ASSUME ~Overtaking, IInv, PInv, OnStreamFinish PROVE Kept
<1> DEFINE q == queue[currentUser]
           p == remote.pipeline
           a == remote.responses
           b == Head(p)
<1>1. /\ Worker /\ CanFinish /\ UNCHANGED <<applied, refused, told>>
  BY DEF OnStreamFinish, backend
<1>2. Filled(p, q) /\ p \in Seq(Batch) /\ q \in Seq(Batch) /\ Sorted(q)
  BY <1>1, BeforeATurn DEF Remote
<1>3. CASE RejectsFront(remote, remote.ended)
  <2>1. crash' = ~InQueue(b) /\ queue' = (IF crash' THEN queue ELSE Removed(b))
    BY <1>3 DEF OnStreamFinish
  <2>2. p # <<>> /\ remote.ended = "PermissionDenied"
    BY <1>3 DEF RejectsFront, IsPermanentWriteError
  <2>3. b = p[1] /\ a = <<>>
    BY <1>1, <1>2, <2>2 DEF CanFinish
  <2>4. p[Len(a) + 1] \in refused
    BY <2>2 DEF PInv, ServerSide, Sent
  <2>5. Len(<<>>) + 1 = 1
    OBVIOUS
  <2> HIDE DEF b, p, q, a
  <2>6. b \in refused
    BY <2>3, <2>4, <2>5
  <2>7. q # <<>> /\ b = q[1]
    BY <1>2, <2>2, TailFits DEF b
  <2>8. queue' = [queue EXCEPT ![currentUser] = Tail(q)]
    BY <1>2, <2>1, <2>7, RemovedFirst DEF q
  <2> QED BY <1>1, <2>6, <2>7, <2>8, RemoveKept DEF q
<1>4. CASE ~RejectsFront(remote, remote.ended)
  BY <1>1, <1>4, Unnoticed DEF OnStreamFinish
<1> QED BY <1>3, <1>4

LEMMA AnswerKept == ASSUME ~Overtaking, IInv, PInv, OnAnswer PROVE Kept
<1> DEFINE x == Head(mainQ)
<1>1. /\ mainQ # <<>> /\ x.kind = "answer" /\ told' = [told EXCEPT ![x.doc] = x.answer]
      /\ UNCHANGED <<queue, applied, refused>>
  BY DEF OnAnswer, NextOnMain, localStore, backend
<1>2. 1 \in DOMAIN mainQ /\ x = mainQ[1]
  BY <1>1, Types
<1>3. x.doc \in Doc /\ x.answer \in {"ok", "failed"}
  <2>1. x \in MainBlock
    BY <1>1, Types
  <2> QED BY <1>1, <2>1 DEF MainBlock
<1> HIDE DEF x
<1>4. told[x.doc] = "nothing" /\ Truth(x.doc, x.answer, applied, refused)
  BY <1>1, <1>2 DEF PInv, Callers, Untold, Truths
<1>5. O!Tell(x.doc, x.answer)
  BY <1>1, <1>3, <1>4 DEF O!Tell, Truth
<1> QED BY <1>3, <1>5 DEF Kept, O!Next

------------------------------------------------------------------------------
(* The server *)

\* The server comes to the k-th write of a queue after it has applied those before.
LEMMA ServerKept ==
    ASSUME IInv, OInv, PInv, NEW u \in Anybody, NEW k \in DOMAIN queue[u], NEW b, b = queue[u][k],
           \A j \in 1 .. k - 1 : queue[u][j] \in applied,
           \/ b.ok /\ applied' = applied \cup {b} /\ refused' = refused
           \/ ~b.ok /\ refused' = refused \cup {b} /\ applied' = applied,
           UNCHANGED <<queue, told>>
    PROVE  Kept
<1>1. O!Reached(u, k)
  BY DEF O!Reached
<1>2. ASSUME b.ok, applied' = applied \cup {b}, refused' = refused PROVE O!Store(u, k)
  <2>1. b \notin refused
    BY <1>2 DEF OInv, RefusedOnItsMerits
  <2> QED BY <1>1, <1>2, <2>1 DEF O!Store
<1>3. ASSUME ~b.ok, refused' = refused \cup {b}, applied' = applied PROVE O!Refuse(u, k)
  <2>1. b \notin applied
    BY <1>3 DEF PInv, ServerSide
  <2> QED BY <1>1, <1>3, <2>1 DEF O!Refuse
<1> QED BY <1>2, <1>3 DEF Kept, O!Next

LEMMA ServerHandlesKept == ASSUME IInv, OInv, PInv, ServerHandles PROVE Kept
<1> DEFINE s == remote.requests
           b == Head(s)
<1>1. /\ s # <<>> /\ remote.ended = "none" /\ UNCHANGED <<queue, told>>
      /\ \/ Accepts(remote.user, b) /\ applied' = applied \cup {b} /\ refused' = refused
         \/ ~Accepts(remote.user, b) /\ refused' = refused \cup {b} /\ applied' = applied
  BY DEF ServerHandles, localStore
<1>2. s \in Seq(Batch) /\ currentUser \in Anybody
  BY Types, Stores
<1>3. remote.user = currentUser /\ remote.state = "open"
  BY <1>1, FirstSent, Types DEF PInv, Orderly
<1>4. PICK k \in DOMAIN queue[currentUser] :
          queue[currentUser][k] = b /\ \A j \in 1 .. k - 1 : queue[currentUser][j] \in applied
  BY <1>1, FirstSent DEF PInv
<1>5. Accepts(remote.user, b) <=> b.ok
  <2>1. OfUser(s, remote.user)
    BY <1>3 DEF OInv, Owns
  <2>2. Accepts(remote.user, b) => b.ok
    BY DEF Accepts
  <2> QED BY <1>1, <1>2, <2>1, <2>2, OnlyOnMerits
<1> HIDE DEF b
<1> QED BY <1>1, <1>2, <1>4, <1>5, ServerKept

\* What arrives again was answered before, and is answered alike.
LEMMA StrayKept == ASSUME IInv, OInv, PInv, NEW stray \in remote.strays, StrayArrives(stray) PROVE Kept
<1> DEFINE s == stray.requests
           b == Head(s)
           u == stray.user
           q == queue[u]
<1>1. /\ UNCHANGED <<queue, told>>
      /\ \/ Accepts(u, b) /\ applied' = applied \cup {b} /\ refused' = refused
         \/ ~Accepts(u, b) /\ refused' = refused \cup {b} /\ applied' = applied
  BY DEF StrayArrives, localStore
<1>2. u \in Anybody /\ s \in Seq(Batch) /\ s # <<>>
  BY Stores DEF Stray
<1>3. q \in Seq(Batch) /\ OfUser(s, u)
  BY <1>2, Queue DEF OInv, Owns
<1>4. Accepts(u, b) <=> b.ok
  <2>1. Accepts(u, b) => b.ok
    BY DEF Accepts
  <2> QED BY <1>2, <1>3, <2>1, OnlyOnMerits
<1>5. Follows(s, q, applied) /\ Placed(s, q, applied \cup refused)
  BY DEF PInv, ServerSide, StraysInOrder
<1>6. b \in applied \cup refused \/ \E k \in DOMAIN q : q[k] = b
  <2>1. 1 \in DOMAIN s /\ b = s[1]
    BY <1>2
  <2> QED BY <1>5, <2>1 DEF Placed
<1>7. \A k \in DOMAIN q : q[k] = b => \A j \in 1 .. k - 1 : q[j] \in applied
  BY <1>2, <1>3, <1>5, FollowsOn
<1> HIDE DEF b
<1>8. CASE \E k \in DOMAIN q : q[k] = b
  BY <1>1, <1>2, <1>4, <1>7, <1>8, ServerKept
<1>9. CASE b \in applied \cup refused
  <2>1. b.ok => b \in applied
    BY <1>9 DEF OInv, RefusedOnItsMerits
  <2>2. ~b.ok => b \in refused
    BY <1>9 DEF PInv, ServerSide
  <2>3. applied' = applied /\ refused' = refused
    BY <1>1, <1>4, <2>1, <2>2
  <2> QED BY <1>1, <2>3, Unnoticed
<1> QED BY <1>6, <1>8, <1>9

------------------------------------------------------------------------------
(* The theorem *)

LEMMA NextKept ==
    ASSUME ~Overtaking, IInv, OInv, PInv, [Next]_vars
    PROVE  Kept
<1> USE DEF identity, syncEngine, localStore, backend, budget
<1>1. CASE Relaunch
  BY <1>1, Unnoticed DEF Relaunch
<1>2. CASE Auth
  BY <1>2, Unnoticed DEF Auth, ChangeUser, RefreshToken, TakeToken, GiveToken
<1>3. CASE Main
  <2>1. CASE OnAnswer
    BY <2>1, AnswerKept
  <2>2. CASE ~OnAnswer
    BY <1>3, <2>2, Unnoticed DEF Main, OnAuthStateChange, OnToken, Write
  <2> QED BY <2>1, <2>2
<1>4. CASE WorkerStep
  <2>1. CASE HandleCredentialChange \/ ResumeStart \/ BackoffElapses \/ IdleTimeout \/ NetworkChanges
             \/ OnHandshakeComplete
    BY <2>1, Unnoticed DEF HandleCredentialChange, ResumeStart, BackoffElapses, IdleTimeout,
                           NetworkChanges, OnHandshakeComplete
  <2>2. CASE OnMutationResult
    BY <2>2, Unnoticed DEF OnMutationResult
  <2> QED BY <1>4, <2>1, <2>2, HandleWriteKept, AcknowledgeKept, FinishKept DEF WorkerStep
<1>5. CASE Server
  <2>1. CASE ServerGreets \/ \E code \in FaultCodes : RpcBreaks(code)
    BY <2>1, Unnoticed DEF ServerGreets, RpcBreaks
  <2>2. ASSUME NEW stray \in remote.strays, StrayArrives(stray) PROVE Kept
    BY <2>2, StrayKept
  <2> QED BY <1>5, <2>1, <2>2, ServerHandlesKept DEF Server
<1>6. CASE UNCHANGED vars
  BY <1>6, Unnoticed DEF vars
<1> QED BY <1>1, <1>2, <1>3, <1>4, <1>5, <1>6 DEF Next

\* The three threads, the server and the network together implement Outbox: writes leave
\* their queue one after another and answered, and callers are told once, and the truth,
\* provided that the end of an RPC never overtakes a result on its way to the worker.
THEOREM PromiseKept == ASSUME ~Overtaking PROVE Spec => KeepsItsPromise
<1>1. Init => O!Init
  BY InitKept
<1>2. IInv /\ OInv /\ PInv /\ [Next]_vars => [O!Next]_(O!vars)
  BY NextKept DEF Kept
<1> QED BY <1>1, <1>2, AlwaysPromised, PTL DEF Spec, KeepsItsPromise, O!Spec
====
