---- MODULE MCRecords ----
(* TLC's instance of Records. *)
EXTENDS Records, TLC

Accounts == Permutations(Users)
====
