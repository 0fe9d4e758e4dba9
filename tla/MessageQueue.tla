---------------------------- MODULE MessageQueue ----------------------------
(***************************************************************************)
(* What fifo.c gives to its clients, without mutex, pointers or condition  *)
(* variable: a queue that may lose a message but never makes one up,       *)
(* delivers it to two clients, delivers out of order, or accepts one after *)
(* it has been closed.                                                     *)
(***************************************************************************)
EXTENDS Sequences

CONSTANTS Threads, Messages, NULL

VARIABLES
  queue,      \* the messages waiting, oldest first
  closed,     \* no message is accepted any more
  held        \* the message each thread owns, or NULL

vars == <<queue, closed, held>>

Waiting == {queue[i] : i \in DOMAIN queue}
Owned   == {held[t] : t \in Threads} \ {NULL}

Init ==
  /\ queue = <<>>
  /\ closed = FALSE
  /\ held = [t \in Threads |-> NULL]

Obtain(t) ==
  /\ held[t] = NULL
  /\ \E m \in Messages \ (Waiting \cup Owned) : held' = [held EXCEPT ![t] = m]
  /\ UNCHANGED <<queue, closed>>

Discard(t) ==
  /\ held[t] # NULL
  /\ held' = [held EXCEPT ![t] = NULL]
  /\ UNCHANGED <<queue, closed>>

\* The message is kept or lost; its owner cannot tell.
Put(t) ==
  /\ ~closed
  /\ held[t] # NULL
  /\ queue' \in {Append(queue, held[t]), queue}
  /\ held' = [held EXCEPT ![t] = NULL]
  /\ UNCHANGED closed

Get(t) ==
  /\ queue # <<>>
  /\ held[t] = NULL
  /\ held' = [held EXCEPT ![t] = Head(queue)]
  /\ queue' = Tail(queue)
  /\ UNCHANGED closed

Close ==
  /\ closed' = TRUE
  /\ UNCHANGED <<queue, held>>

Clear ==
  /\ queue' = <<>>
  /\ UNCHANGED <<closed, held>>

Next == Close \/ Clear \/ \E t \in Threads : Obtain(t) \/ Discard(t) \/ Put(t) \/ Get(t)

Spec == Init /\ [][Next]_vars
=============================================================================
