---- MODULE Outbox ----
(***************************************************************************)
(* What the Firestore client promises about writes: a queue per user whose *)
(* writes reach the server one after another.  None leaves the queue       *)
(* before the server has stored or refused it, and its caller is told at   *)
(* most once, and what happened.                                           *)
(***************************************************************************)
EXTENDS Naturals, Sequences

CONSTANTS Users, Writes, Docs \* a write w is for the document w.doc

VARIABLES outbox, stored, refused, told

vars == <<outbox, stored, refused, told>>

Init ==
    /\ outbox = [u \in Users |-> <<>>]
    /\ stored = {}
    /\ refused = {}
    /\ told = [d \in Docs |-> "nothing"]

\* A queue grows by a write that is in no queue and was not answered by the server.
Put(u) ==
    /\ Len(outbox'[u]) = Len(outbox[u]) + 1
    /\ LET w == outbox'[u][Len(outbox'[u])] IN
       /\ w \in Writes \ (stored \cup refused)
       /\ \A v \in Users : \A i \in DOMAIN outbox[v] : outbox[v][i] # w
       /\ outbox' = [outbox EXCEPT ![u] = Append(@, w)]
    /\ UNCHANGED <<stored, refused, told>>

\* The server has answered all writes before the i-th one.
Reached(u, i) == i \in DOMAIN outbox[u] /\ \A j \in 1 .. i - 1 : outbox[u][j] \in stored

Store(u, i) ==
    /\ Reached(u, i)
    /\ outbox[u][i] \notin refused
    /\ stored' = stored \cup {outbox[u][i]}
    /\ UNCHANGED <<outbox, refused, told>>

Refuse(u, i) ==
    /\ Reached(u, i)
    /\ outbox[u][i] \notin stored
    /\ refused' = refused \cup {outbox[u][i]}
    /\ UNCHANGED <<outbox, stored, told>>

Remove(u) ==
    /\ outbox[u] # <<>>
    /\ Head(outbox[u]) \in stored \cup refused
    /\ outbox' = [outbox EXCEPT ![u] = Tail(@)]
    /\ UNCHANGED <<stored, refused, told>>

Tell(d, answer) ==
    /\ told[d] = "nothing"
    /\ \/ answer = "ok" /\ \E w \in stored : w.doc = d
       \/ answer = "failed" /\ \E w \in refused : w.doc = d
    /\ told' = [told EXCEPT ![d] = answer]
    /\ UNCHANGED <<outbox, stored, refused>>

Next ==
    \/ \E u \in Users :
          \/ Put(u)
          \/ \E i \in DOMAIN outbox[u] : Store(u, i) \/ Refuse(u, i)
          \/ Remove(u)
    \/ \E d \in Docs, answer \in {"ok", "failed"} : Tell(d, answer)

Spec == Init /\ [][Next]_vars
====
