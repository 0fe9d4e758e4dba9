------------------------------ MODULE Exchange ------------------------------
(***************************************************************************)
(* sendMessage() and receiveMessage() of message.c, as one process sees    *)
(* them: threads that send a request and wait for its acknowledge, and, in *)
(* the server, receiver threads that read the same socket.                 *)
(*                                                                         *)
(* The network and the peer are what can arrive: an acknowledge of any     *)
(* request sent so far, any number of times, late or never (which covers   *)
(* loss, duplication, delay and reordering), an ordinary message, or the   *)
(* report of an error that makes the next recvfrom() fail.                 *)
(***************************************************************************)
EXTENDS Integers, Sequences, FiniteSets

CONSTANTS
  Processes,      \* which programs to consider: "client", "server"
  Senders,        \* the threads that call sendMessage()
  Ui,             \* the only one of them in the client
  Receivers,      \* the threads in goReceiverThreads(), in the server
  Requests,       \* the messages sent, each by one call of sendMessage()
  To, Id,         \* their fields `to' and `messageId'
  Froms,          \* the values of an acknowledge's field `from': no handler sets it
  Others,         \* <<from, messageId>> of the ordinary messages that may arrive
  SocketBuffer,   \* how many datagrams the kernel keeps; it drops the others
  MaxArrivals     \* bound: how many datagrams arrive in all

None     == "none"       \* no request
Ordinary == "ordinary"   \* in place of the request: the message answers none

ASSUME ExchangeAssumption ==
  /\ Processes \subseteq {"client", "server"}
  /\ Ui \in Senders
  /\ Senders \cap Receivers = {}
  /\ IsFiniteSet(Requests) /\ Requests \cap {None, Ordinary} = {}
  /\ To \in [Requests -> Nat]
  /\ Id \in [Requests -> Nat]
  /\ Froms \subseteq Nat
  /\ Others \subseteq Nat \X Nat
  /\ SocketBuffer \in Nat
  /\ MaxArrivals \in Nat

VARIABLES
  process,    \* which program this is
  inbox,      \* the datagrams in the socket's receive buffer
  arrived,    \* how many have arrived
  stage,      \* where each sender is in sendMessage()
  request,    \* the message each sender sent last
  result,     \* what became of each request
  answer,     \* the request that the message accepted for it answers
  queued,     \* how many messages were put into the queue
  discarded,  \* how many were thrown away, as there is no queue
  failed      \* how many times recvfrom() returned -1

vars == <<process, inbox, arrived, stage, request, result, answer, queued, discarded, failed>>

Acks   == [kind : {"ack"}, from : Froms, id : Nat, re : Requests]
Plain  == [kind : {"message"}, from : Nat, id : Nat, re : {Ordinary}]
Errors == {[kind |-> "error"]}
Datagrams == Acks \cup Plain \cup Errors

Init ==
  /\ process \in Processes
  /\ inbox = <<>>
  /\ arrived = 0
  /\ stage = [t \in Senders |-> "out"]
  /\ request = [t \in Senders |-> None]
  /\ result = [r \in Requests |-> "unsent"]
  /\ answer = [r \in Requests |-> None]
  /\ queued = 0
  /\ discarded = 0
  /\ failed = 0

-----------------------------------------------------------------------------
(* The network and the peer.                                               *)

\* sendAcknowledgeMessage() at the other end echoes messageId.
AckOf(r, f) == [kind |-> "ack", from |-> f, id |-> Id[r], re |-> r]

Sent == {r \in Requests : result[r] \notin {"unsent", "refused"}}

Arrivals ==
  {AckOf(r, f) : r \in Sent, f \in Froms}
  \cup {[kind |-> "message", from |-> o[1], id |-> o[2], re |-> Ordinary] : o \in Others}
  \cup Errors

Arrive ==
  /\ arrived < MaxArrivals
  /\ Len(inbox) < SocketBuffer
  /\ \E d \in Arrivals : inbox' = Append(inbox, d)
  /\ arrived' = arrived + 1
  /\ UNCHANGED <<process, stage, request, result, answer, queued, discarded, failed>>

-----------------------------------------------------------------------------
(* sendMessage().                                                          *)

\* Thread t leaves sendMessage() with result v for its request.
Returns(t, v) ==
  /\ stage' = [stage EXCEPT ![t] = "out"]
  /\ result' = [result EXCEPT ![request[t]] = v]

\* buildBuffer() and sendto().  The client's only thread is its user interface.
SendTo(t) ==
  /\ stage[t] = "out"
  /\ process = "client" => t = Ui
  /\ \E r \in Requests :
       /\ result[r] = "unsent"
       /\ request' = [request EXCEPT ![t] = r]
       /\ \/ /\ result' = [result EXCEPT ![r] = "sent"]
             /\ stage' = [stage EXCEPT ![t] = "select"]
          \/ /\ result' = [result EXCEPT ![r] = "refused"]   \* sendto() returns -1
             /\ stage' = stage
  /\ UNCHANGED <<process, inbox, arrived, answer, queued, discarded, failed>>

\* select() finds the socket readable.
SelectReady(t) ==
  /\ stage[t] = "select"
  /\ inbox # <<>>
  /\ stage' = [stage EXCEPT ![t] = "receive"]
  /\ UNCHANGED <<process, inbox, arrived, request, result, answer, queued, discarded, failed>>

\* select() returns -1, which is not 0: only the client's thread takes signals.
SelectInterrupted(t) ==
  /\ stage[t] = "select"
  /\ process = "client"
  /\ stage' = [stage EXCEPT ![t] = "receive"]
  /\ UNCHANGED <<process, inbox, arrived, request, result, answer, queued, discarded, failed>>

\* Fault: the loop goes on after a time-out.
SelectTimeout_Again(t) ==
  /\ stage[t] = "select"
  /\ inbox = <<>>
  /\ UNCHANGED vars

\* Fault: what is returned is the 0 of select().
SelectTimeout_Zero(t) ==
  /\ stage[t] = "select"
  /\ inbox = <<>>
  /\ Returns(t, "zero")
  /\ UNCHANGED <<process, inbox, arrived, request, answer, queued, discarded, failed>>

\* The five seconds, less what earlier calls of select() took, are over.
SelectTimeout(t) ==
  /\ stage[t] = "select"
  /\ inbox = <<>>
  /\ Returns(t, "failed")
  /\ UNCHANGED <<process, inbox, arrived, request, answer, queued, discarded, failed>>

\* Fault: the acknowledge is recognised by its sender only.
Matches_FromOnly(d, r) == To[r] = d.from

\* The test of line 122, on what receiveMessage() returned.
Matches(d, r) == To[r] = d.from /\ Id[r] = d.id

\* Whoever reads the socket takes the oldest datagram out of it.
TakeMessage == inbox # <<>> /\ Head(inbox) \notin Errors /\ inbox' = Tail(inbox)
TakeError   == inbox # <<>> /\ Head(inbox) \in Errors /\ inbox' = Tail(inbox)

Accept(t) ==
  /\ stage[t] = "receive"
  /\ TakeMessage
  /\ Matches(Head(inbox), request[t])
  /\ answer' = [answer EXCEPT ![request[t]] = Head(inbox).re]
  /\ Returns(t, "acked")
  /\ UNCHANGED <<process, arrived, request, queued, discarded, failed>>

\* receiveMessage() returns NULL: back to select().
ReceiveFails(t) ==
  /\ stage[t] = "receive"
  /\ TakeError
  /\ failed' = failed + 1
  /\ stage' = [stage EXCEPT ![t] = "select"]
  /\ UNCHANGED <<process, arrived, request, result, answer, queued, discarded>>

\* Fault: the server throws away what is not the acknowledge, too.
PassOn_Dropped(t) ==
  /\ stage[t] = "receive"
  /\ TakeMessage
  /\ ~Matches(Head(inbox), request[t])
  /\ discarded' = discarded + 1
  /\ stage' = [stage EXCEPT ![t] = "select"]
  /\ UNCHANGED <<process, arrived, request, result, answer, queued, failed>>

\* Any other message goes to fifo_put(), and back to select().  The client passes
\* NULL for the queue: fifo_put() returns -1 at once and the message is lost.
PassOn(t) ==
  /\ stage[t] = "receive"
  /\ TakeMessage
  /\ ~Matches(Head(inbox), request[t])
  /\ \/ process = "server" /\ queued' = queued + 1 /\ UNCHANGED discarded
     \/ process = "client" /\ discarded' = discarded + 1 /\ UNCHANGED queued
  /\ stage' = [stage EXCEPT ![t] = "select"]
  /\ UNCHANGED <<process, arrived, request, result, answer, failed>>

SenderStep(t) ==
  SelectReady(t) \/ SelectTimeout(t) \/ Accept(t) \/ ReceiveFails(t) \/ PassOn(t)

-----------------------------------------------------------------------------
(* goReceiverThreads(): one turn of its loop.                              *)

Receive ==
  /\ process = "server"
  /\ Receivers # {}
  /\ TakeMessage
  /\ queued' = queued + 1
  /\ UNCHANGED <<process, arrived, stage, request, result, answer, discarded, failed>>

ReceiveBad ==
  /\ process = "server"
  /\ Receivers # {}
  /\ TakeError
  /\ failed' = failed + 1
  /\ UNCHANGED <<process, arrived, stage, request, result, answer, queued, discarded>>

-----------------------------------------------------------------------------
Next ==
  \/ Arrive
  \/ \E t \in Senders : SendTo(t) \/ SelectInterrupted(t) \/ SenderStep(t)
  \/ Receive \/ ReceiveBad

Spec == Init /\ [][Next]_vars

\* The scheduler runs every sender that can run.  Nothing has to arrive, no
\* request has to be sent, and no receiver has to read.
FairSpec == Spec /\ \A t \in Senders : WF_vars(SenderStep(t))

-----------------------------------------------------------------------------
(* Properties.                                                             *)

ExchangeTypeOK ==
  /\ process \in Processes
  /\ inbox \in Seq(Datagrams)
  /\ arrived \in 0 .. MaxArrivals
  /\ stage \in [Senders -> {"out", "select", "receive"}]
  /\ request \in [Senders -> Requests \cup {None}]
  /\ result \in [Requests -> {"unsent", "refused", "sent", "failed", "acked"}]
  /\ answer \in [Requests -> Requests \cup {None, Ordinary}]
  /\ queued \in Nat
  /\ discarded \in Nat
  /\ failed \in Nat

\* The test of message.c:122 looks at `from' and `messageId' and not at the type:
\* what ends a send is an acknowledge of a request with the same identifier that
\* was sent, or an ordinary message that carries these two numbers.  No other
\* does, whatever the network does and whichever thread reads it.
EndedByLike ==
  \A r \in Requests : result[r] = "acked" =>
    \/ answer[r] \in Sent /\ Id[answer[r]] = Id[r]
    \/ answer[r] = Ordinary /\ <<To[r], Id[r]>> \in Others

\* Each datagram that arrived is still in the socket, was reported as an error,
\* was queued, was thrown away by a client, or has ended exactly one send: none is
\* used twice, and between the threads of the server none is lost.
AllAccounted ==
  /\ arrived = Len(inbox) + failed + queued + discarded
                 + Cardinality({r \in Requests : result[r] = "acked"})
  /\ process = "server" => discarded = 0

\* A thread waits in recvfrom(), which has no time-out, for a datagram that
\* select() announced and another thread took (or that was never announced).
Robbed(t) == stage[t] = "receive" /\ inbox = <<>>

\* "Acknowledge was not received (timed out). Gives up" (message.c:116): every
\* send returns, unless its thread is stuck in recvfrom() for good.  It rests on
\* arrivals that end: nothing looks at the clock while there is something to read.
SendReturns ==
  \A t \in Senders :
    (stage[t] # "out") ~> (stage[t] = "out" \/ [](Robbed(t)))
=============================================================================
