---- MODULE MCKernelQueue ----
(* A queue of at most MaxJobs jobs for TLC. *)
EXTENDS KernelQueue
====
