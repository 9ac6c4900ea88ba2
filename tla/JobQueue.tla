------------------------------ MODULE JobQueue -------------------------------
(***************************************************************************)
(* What the query executor of a layer promises to those who enqueue: jobs  *)
(* run one at a time, in the order they were enqueued, each exactly once   *)
(* unless its query is unregistered before, and none waits for ever.       *)
(* KernelQueue and UserQueue implement it.                                 *)
(***************************************************************************)
EXTENDS Naturals, Sequences, JobList

CONSTANTS Queries, NoQuery

VARIABLES jobs, running

vars == <<jobs, running>>

Init == jobs = <<>> /\ running = NoQuery

Enqueue(q) ==
  /\ jobs' = Append(jobs, q)
  /\ UNCHANGED running

Start ==
  /\ running = NoQuery /\ jobs # <<>>
  /\ running' = Head(jobs)
  /\ jobs' = Tail(jobs)

Finish ==
  /\ running # NoQuery
  /\ running' = NoQuery
  /\ UNCHANGED jobs

(* Only jobs that do not run yet can be purged.                            *)
Purge(q) ==
  /\ running = NoQuery
  /\ jobs' = Without(jobs, {q})
  /\ UNCHANGED running

Next == (\E q \in Queries : Enqueue(q) \/ Purge(q)) \/ Start \/ Finish

Safety == Init /\ [][Next]_vars

Fairness == WF_vars(Start) /\ WF_vars(Finish)

Spec == Safety /\ Fairness
===============================================================================
