------------------------------- MODULE Channel -------------------------------
(***************************************************************************)
(* What one direction of the link between the two layers promises: a       *)
(* bounded FIFO of messages with several senders and one receiver.  Each   *)
(* sender offers one message at a time; an offered message is appended     *)
(* exactly once, or withdrawn by its sender.  The receiver looks at the    *)
(* oldest message while it handles it and removes it when it is done, and  *)
(* nothing a sender does changes the message being handled.                *)
(*                                                                         *)
(* RingBuffer (lib/communication.c) implements this specification.         *)
(***************************************************************************)
EXTENDS Naturals, Sequences

CONSTANTS
  Senders,    \* threads that call ringBufferWrite
  Messages,   \* what can be sent
  NoMessage,  \* "nothing offered", "nothing being handled"
  Capacity    \* messages that fit

VARIABLES
  outbox,     \* [Senders -> message offered and not yet accepted]
  queue,      \* accepted messages, oldest first
  handled     \* the message the receiver is looking at

vars == <<outbox, queue, handled>>

Init ==
  /\ outbox = [w \in Senders |-> NoMessage]
  /\ queue = <<>>
  /\ handled = NoMessage

Offer(w, m) ==
  /\ outbox[w] = NoMessage
  /\ outbox' = [outbox EXCEPT ![w] = m]
  /\ UNCHANGED <<queue, handled>>

Withdraw(w) ==
  /\ outbox[w] # NoMessage
  /\ outbox' = [outbox EXCEPT ![w] = NoMessage]
  /\ UNCHANGED <<queue, handled>>

Send(w) ==
  /\ outbox[w] # NoMessage
  /\ Len(queue) < Capacity
  /\ queue' = Append(queue, outbox[w])
  /\ outbox' = [outbox EXCEPT ![w] = NoMessage]
  /\ UNCHANGED handled

BeginHandling ==
  /\ handled = NoMessage
  /\ queue # <<>>
  /\ handled' = Head(queue)
  /\ UNCHANGED <<outbox, queue>>

EndHandling ==
  /\ handled # NoMessage
  /\ queue' = Tail(queue)
  /\ handled' = NoMessage
  /\ UNCHANGED outbox

Next ==
  \/ \E w \in Senders, m \in Messages : Offer(w, m)
  \/ \E w \in Senders : Withdraw(w) \/ Send(w)
  \/ BeginHandling
  \/ EndHandling

Safety == Init /\ [][Next]_vars

(* The receiver keeps polling, so an accepted message is eventually handled. *)
Spec == Safety /\ WF_vars(BeginHandling) /\ WF_vars(EndHandling)
===============================================================================
