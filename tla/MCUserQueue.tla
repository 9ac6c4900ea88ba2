---- MODULE MCUserQueue ----
(* A queue of at most MaxJobs jobs for TLC. *)
EXTENDS UserQueue
====
