---- MODULE MCAuthSession ----
(* TLC's instances of AuthSession. *)
EXTENDS AuthSession, TLC

Accounts == Permutations(Users)
====
