---- MODULE MCConvey ----
(* TLC's instances of Convey. *)
EXTENDS Convey, TLC

Accounts == Permutations(Users)

\* The app of somebody who granted both permissions before: nothing is asked.
GrantedInit == Init /\ canRecord = TRUE /\ canTranscribe = TRUE
GrantedSpec == GrantedInit /\ [][Next]_vars
====
