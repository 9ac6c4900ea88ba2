---------------------------- MODULE MCRingBuffer -----------------------------
(* Small rings for TLC: blocks of txMemory and writers are interchangeable. *)
EXTENDS RingBuffer, TLC

Symmetry == Permutations(Addrs) \cup Permutations(Writers)
===============================================================================
