------------------------------- MODULE MCStreams ------------------------------
(* Two queries at a node, and its provider that may go.                    *)
EXTENDS Streams, TLC
===============================================================================
