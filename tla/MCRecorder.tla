---- MODULE MCRecorder ----
(* TLC's instances of Recorder. *)
EXTENDS Recorder
====
