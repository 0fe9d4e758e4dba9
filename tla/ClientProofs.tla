---------------------------- MODULE ClientProofs ----------------------------
(***************************************************************************)
(* Proofs about Exchange, for any number of threads, requests and          *)
(* datagrams, and about Client, for any requests, user IDs, replies and    *)
(* network.  What is proved of Exchange holds of Client, which implements  *)
(* it.                                                                     *)
(***************************************************************************)
EXTENDS Client, FiniteSetTheorems, SequenceTheorems, TLAPS

-----------------------------------------------------------------------------
(* The exchange.                                                           *)

Acked == {r \in Requests : result[r] = "acked"}

\* A thread inside sendMessage() has sent its request, and no other thread has
\* the same one.
SendInv ==
  /\ \A t \in Senders : stage[t] # "out" => request[t] \in Requests /\ result[request[t]] = "sent"
  /\ \A t, u \in Senders : t # u /\ stage[t] # "out" /\ stage[u] # "out" => request[t] # request[u]

\* What an acknowledge or an ordinary message in the socket carries.
InboxInv ==
  \A k \in 1 .. Len(inbox) :
    /\ inbox[k].kind = "ack" => inbox[k].id = Id[inbox[k].re]
    /\ inbox[k].kind = "message" => <<inbox[k].from, inbox[k].id>> \in Others

Inv == ExchangeTypeOK /\ SendInv /\ InboxInv /\ AllAccounted

\* The acknowledges in the socket answer requests that were sent.
LikeInv ==
  /\ EndedByLike
  /\ \A k \in 1 .. Len(inbox) : inbox[k].kind = "ack" => inbox[k].re \in Sent

-----------------------------------------------------------------------------
\* A new or removed acknowledge changes their number by one or not at all.
LEMMA AckedFinite == IsFiniteSet(Acked) /\ Cardinality(Acked) \in Nat
BY ExchangeAssumption, FS_Subset, FS_CardinalityType DEF ExchangeAssumption, Acked

LEMMA InitInv == Init => Inv
<1>. SUFFICES ASSUME Init PROVE Inv
  OBVIOUS
<1>1. ExchangeTypeOK
  BY ExchangeAssumption DEF Init, ExchangeTypeOK, ExchangeAssumption
<1>2. SendInv /\ InboxInv
  BY DEF Init, SendInv, InboxInv
<1>3. AllAccounted
  <2>1. {r \in Requests : result[r] = "acked"} = {}
    BY DEF Init
  <2>. QED BY <2>1, FS_EmptySet DEF Init, AllAccounted
<1>. QED BY <1>1, <1>2, <1>3 DEF Inv

\* What may arrive is a datagram, and carries what InboxInv says.
LEMMA ArrivalsKnown ==
  ASSUME NEW d \in Arrivals
  PROVE  /\ d \in Datagrams
         /\ d.kind = "ack" => d.id = Id[d.re]
         /\ d.kind = "message" => <<d.from, d.id>> \in Others
<1>. USE ExchangeAssumption DEF ExchangeAssumption, Datagrams, Acks, Plain, Errors
<1>1. CASE d \in Errors
  BY <1>1
<1>2. ASSUME NEW r \in Sent, NEW f \in Froms, d = AckOf(r, f)
      PROVE  d \in Acks /\ d.kind = "ack" /\ d.id = Id[d.re]
  BY <1>2 DEF AckOf, Sent
<1>3. ASSUME NEW o \in Others, d = [kind |-> "message", from |-> o[1], id |-> o[2], re |-> Ordinary]
      PROVE  d \in Plain /\ d.kind = "message" /\ <<d.from, d.id>> \in Others
  BY <1>3
<1>. QED BY <1>1, <1>2, <1>3 DEF Arrivals

\* Reading the socket leaves a shorter one with the same contents.
LEMMA TakenTail ==
  ASSUME ExchangeTypeOK, InboxInv, inbox # <<>>, inbox' = Tail(inbox)
  PROVE  /\ inbox' \in Seq(Datagrams)
         /\ InboxInv'
         /\ Len(inbox) = Len(inbox') + 1
         /\ Head(inbox) \in Datagrams
         /\ Head(inbox) = inbox[1] /\ 1 \in 1 .. Len(inbox)
<1>1. inbox \in Seq(Datagrams) /\ Len(inbox) \in Nat /\ Len(inbox) > 0
  BY DEF ExchangeTypeOK
<1>2. /\ inbox' \in Seq(Datagrams)
      /\ Len(inbox') = Len(inbox) - 1
      /\ \A k \in 1 .. Len(inbox') : inbox'[k] = inbox[k + 1]
  BY <1>1
<1>3. InboxInv'
  BY <1>1, <1>2 DEF InboxInv
<1>. QED BY <1>1, <1>2, <1>3

\* The steps that take a datagram out of the socket without ending a send.
Reads ==
  /\ inbox # <<>>
  /\ inbox' = Tail(inbox)
  /\ UNCHANGED <<process, arrived, request, result, answer>>
  /\ \/ stage' = stage
     \/ \E t \in Senders : stage[t] = "receive" /\ stage' = [stage EXCEPT ![t] = "select"]
  /\ queued' \in Nat /\ discarded' \in Nat /\ failed' \in Nat
  /\ failed' + queued' + discarded' = failed + queued + discarded + 1
  /\ process = "server" => discarded' = discarded

LEMMA StepInv == Inv /\ [Next]_vars => Inv'
<1>. SUFFICES ASSUME Inv, [Next]_vars PROVE Inv'
  OBVIOUS
<1>. USE ExchangeAssumption DEF ExchangeAssumption
<1>t. ExchangeTypeOK /\ SendInv /\ InboxInv /\ AllAccounted
  BY DEF Inv
<1>c. IsFiniteSet(Acked) /\ Cardinality(Acked) \in Nat
  BY AckedFinite
<1>1. CASE UNCHANGED vars
  BY <1>t, <1>1 DEF vars, Inv, ExchangeTypeOK, SendInv, InboxInv, AllAccounted
<1>2. CASE Arrive
  <2>1. PICK d \in Arrivals : inbox' = Append(inbox, d)
    BY <1>2 DEF Arrive
  <2>2. /\ d \in Datagrams
        /\ d.kind = "ack" => d.id = Id[d.re]
        /\ d.kind = "message" => <<d.from, d.id>> \in Others
    BY ArrivalsKnown
  <2>3. /\ inbox' \in Seq(Datagrams)
        /\ Len(inbox') = Len(inbox) + 1
        /\ Len(inbox) \in Nat
        /\ \A k \in 1 .. Len(inbox) : inbox'[k] = inbox[k]
        /\ inbox'[Len(inbox) + 1] = d
    BY <1>t, <2>1, <2>2 DEF ExchangeTypeOK
  <2>4. ExchangeTypeOK'
    BY <1>t, <1>2, <2>3 DEF Arrive, ExchangeTypeOK
  <2>5. SendInv'
    BY <1>t, <1>2 DEF Arrive, SendInv
  <2>6. InboxInv'
    <3>. SUFFICES ASSUME NEW k \in 1 .. Len(inbox')
                  PROVE  /\ inbox'[k].kind = "ack" => inbox'[k].id = Id[inbox'[k].re]
                         /\ inbox'[k].kind = "message" => <<inbox'[k].from, inbox'[k].id>> \in Others
      BY DEF InboxInv
    <3>1. CASE k \in 1 .. Len(inbox)
      <4>1. inbox'[k] = inbox[k]
        BY <2>3, <3>1
      <4>. QED BY <1>t, <3>1, <4>1 DEF InboxInv
    <3>2. CASE k = Len(inbox) + 1
      <4>1. inbox'[k] = d
        BY <2>3, <3>2
      <4>. QED BY <2>2, <4>1
    <3>. QED BY <2>3, <3>1, <3>2
  <2>7. AllAccounted'
    <3>1. Acked' = Acked
      BY <1>2 DEF Arrive, Acked
    <3>. QED BY <1>t, <1>c, <1>2, <2>3, <3>1 DEF Arrive, AllAccounted, Acked, ExchangeTypeOK
  <2>. QED BY <2>4, <2>5, <2>6, <2>7 DEF Inv
<1>3. ASSUME NEW t \in Senders, SendTo(t) PROVE Inv'
  <2>1. PICK r \in Requests :
          /\ result[r] = "unsent"
          /\ request' = [request EXCEPT ![t] = r]
          /\ \/ /\ result' = [result EXCEPT ![r] = "sent"]
                /\ stage' = [stage EXCEPT ![t] = "select"]
             \/ /\ result' = [result EXCEPT ![r] = "refused"]
                /\ stage' = stage
    BY <1>3 DEF SendTo
  <2>2. ExchangeTypeOK'
    BY <1>t, <1>3, <2>1 DEF SendTo, ExchangeTypeOK
  <2>3. SendInv'
    BY <1>t, <1>3, <2>1 DEF SendTo, SendInv, ExchangeTypeOK
  <2>4. InboxInv'
    BY <1>t, <1>3 DEF SendTo, InboxInv
  <2>5. AllAccounted'
    <3>1. Acked' = Acked
      BY <1>t, <2>1 DEF Acked, ExchangeTypeOK
    <3>. QED BY <1>t, <1>3, <3>1 DEF SendTo, AllAccounted, Acked
  <2>. QED BY <2>2, <2>3, <2>4, <2>5 DEF Inv
<1>4. ASSUME NEW t \in Senders, SelectReady(t) \/ SelectInterrupted(t) PROVE Inv'
  <2>1. ExchangeTypeOK'
    BY <1>t, <1>4 DEF SelectReady, SelectInterrupted, ExchangeTypeOK
  <2>2. SendInv'
    BY <1>t, <1>4 DEF SelectReady, SelectInterrupted, SendInv, ExchangeTypeOK
  <2>3. InboxInv' /\ AllAccounted'
    BY <1>t, <1>4 DEF SelectReady, SelectInterrupted, InboxInv, AllAccounted
  <2>. QED BY <2>1, <2>2, <2>3 DEF Inv
<1>5. ASSUME NEW t \in Senders, SelectTimeout(t) PROVE Inv'
  <2>0. request[t] \in Requests /\ result[request[t]] = "sent"
    BY <1>t, <1>5 DEF SelectTimeout, SendInv
  <2>1. ExchangeTypeOK'
    BY <1>t, <1>5 DEF SelectTimeout, Returns, ExchangeTypeOK
  <2>2. SendInv'
    BY <1>t, <1>5 DEF SelectTimeout, Returns, SendInv, ExchangeTypeOK
  <2>3. InboxInv'
    BY <1>t, <1>5 DEF SelectTimeout, InboxInv
  <2>4. Acked' = Acked
    BY <1>t, <1>5, <2>0 DEF SelectTimeout, Returns, Acked, ExchangeTypeOK
  <2>5. AllAccounted'
    BY <1>t, <1>5, <2>4 DEF SelectTimeout, AllAccounted, Acked
  <2>. QED BY <2>1, <2>2, <2>3, <2>5 DEF Inv
<1>6. ASSUME NEW t \in Senders, Accept(t) PROVE Inv'
  <2>0. request[t] \in Requests /\ result[request[t]] = "sent"
    BY <1>t, <1>6 DEF Accept, SendInv
  <2>1. /\ inbox' \in Seq(Datagrams)
        /\ InboxInv'
        /\ Len(inbox) = Len(inbox') + 1
        /\ Head(inbox) \in Datagrams \ Errors
    BY <1>t, <1>6, TakenTail DEF Accept, TakeMessage
  <2>2. Head(inbox).re \in Requests \cup {None, Ordinary}
    BY <2>1 DEF Datagrams, Acks, Plain
  <2>3. ExchangeTypeOK'
    BY <1>t, <1>6, <2>1, <2>2 DEF Accept, Returns, ExchangeTypeOK
  <2>4. SendInv'
    BY <1>t, <1>6 DEF Accept, Returns, SendInv, ExchangeTypeOK
  <2>5. Acked' = Acked \cup {request[t]} /\ request[t] \notin Acked
    BY <1>t, <1>6, <2>0 DEF Accept, Returns, Acked, ExchangeTypeOK
  <2>6. Cardinality(Acked') = Cardinality(Acked) + 1
    BY <1>c, <2>5, FS_AddElement
  <2>7. AllAccounted'
    <3>1. Len(inbox') \in Nat /\ Len(inbox) \in Nat
      BY <1>t, <2>1 DEF ExchangeTypeOK
    <3>. QED BY <1>t, <1>c, <1>6, <2>1, <2>6, <3>1 DEF Accept, AllAccounted, Acked, ExchangeTypeOK
  <2>. QED BY <2>1, <2>3, <2>4, <2>7 DEF Inv
<1>7. ASSUME Reads PROVE Inv'
  <2>1. /\ inbox' \in Seq(Datagrams)
        /\ InboxInv'
        /\ Len(inbox) = Len(inbox') + 1
    BY <1>t, <1>7, TakenTail DEF Reads
  <2>2. ExchangeTypeOK'
    BY <1>t, <1>7, <2>1 DEF ExchangeTypeOK, Reads
  <2>3. SendInv'
    BY <1>t, <1>7 DEF Reads, SendInv, ExchangeTypeOK
  <2>4. Acked' = Acked
    BY <1>7 DEF Acked, Reads
  <2>5. AllAccounted'
    <3>1. Len(inbox') \in Nat /\ Len(inbox) \in Nat
      BY <1>t, <2>1 DEF ExchangeTypeOK
    <3>2. queued \in Nat /\ discarded \in Nat /\ failed \in Nat /\ arrived \in Nat
      BY <1>t DEF ExchangeTypeOK
    <3>3. /\ arrived = Len(inbox) + failed + queued + discarded + Cardinality(Acked)
          /\ process = "server" => discarded = 0
      BY <1>t DEF AllAccounted, Acked
    <3>4. /\ arrived' = arrived /\ process' = process
          /\ failed' + queued' + discarded' = failed + queued + discarded + 1
          /\ failed' \in Nat /\ queued' \in Nat /\ discarded' \in Nat
          /\ process = "server" => discarded' = discarded
      BY <1>7 DEF Reads
    <3>5. Cardinality(Acked') = Cardinality(Acked) /\ Cardinality(Acked) \in Nat
      BY <1>c, <2>4
    <3>6. arrived = Len(inbox') + failed' + queued' + discarded' + Cardinality(Acked)
      <4>. DEFINE a == arrived  l == Len(inbox)  l2 == Len(inbox')  f == failed  f2 == failed'
                  q == queued   q2 == queued'    d == discarded  d2 == discarded'  c == Cardinality(Acked)
      <4>1. a \in Nat /\ l \in Nat /\ l2 \in Nat /\ f \in Nat /\ f2 \in Nat /\ q \in Nat /\ q2 \in Nat
            /\ d \in Nat /\ d2 \in Nat /\ c \in Nat
        BY <3>1, <3>2, <3>4, <3>5
      <4>2. a = l + f + q + d + c /\ l = l2 + 1 /\ f2 + q2 + d2 = f + q + d + 1
        BY <2>1, <3>3, <3>4
      <4>. HIDE DEF a, l, l2, f, f2, q, q2, d, d2, c
      <4>3. a = l2 + f2 + q2 + d2 + c
        BY <4>1, <4>2
      <4>. QED BY <4>3 DEF a, l2, f2, q2, d2, c
    <3>7. arrived' = Len(inbox') + failed' + queued' + discarded' + Cardinality(Acked')
      BY <3>4, <3>5, <3>6
    <3>8. process' = "server" => discarded' = 0
      BY <3>3, <3>4
    <3>. QED BY <3>7, <3>8, Zenon DEF AllAccounted, Acked
  <2>. QED BY <2>1, <2>2, <2>3, <2>5 DEF Inv
<1>n. queued \in Nat /\ discarded \in Nat /\ failed \in Nat
  BY <1>t DEF ExchangeTypeOK
<1>8. ASSUME NEW t \in Senders, ReceiveFails(t) PROVE Inv'
  <2>1. failed' = failed + 1 /\ queued' = queued /\ discarded' = discarded
    BY <1>8 DEF ReceiveFails
  <2>2. failed' \in Nat /\ failed' + queued' + discarded' = failed + queued + discarded + 1
    BY <1>n, <2>1
  <2>3. Reads
    BY <1>n, <1>8, <2>1, <2>2 DEF Reads, ReceiveFails, TakeError
  <2>. QED BY <1>7, <2>3
<1>9. ASSUME NEW t \in Senders, PassOn(t) PROVE Inv'
  <2>1. \/ queued' = queued + 1 /\ discarded' = discarded
        \/ process = "client" /\ queued' = queued /\ discarded' = discarded + 1
    BY <1>9 DEF PassOn
  <2>2. /\ failed' = failed /\ queued' \in Nat /\ discarded' \in Nat
        /\ failed' + queued' + discarded' = failed + queued + discarded + 1
        /\ process = "server" => discarded' = discarded
    BY <1>n, <1>9, <2>1 DEF PassOn
  <2>3. Reads
    BY <1>n, <1>9, <2>2 DEF Reads, PassOn, TakeMessage
  <2>. QED BY <1>7, <2>3
<1>10. CASE Receive
  <2>1. Reads
    BY <1>n, <1>10 DEF Reads, Receive, TakeMessage
  <2>. QED BY <1>7, <2>1
<1>11. CASE ReceiveBad
  <2>1. Reads
    BY <1>n, <1>11 DEF Reads, ReceiveBad, TakeError
  <2>. QED BY <1>7, <2>1
<1>. QED BY <1>1, <1>2, <1>3, <1>4, <1>5, <1>6, <1>8, <1>9, <1>10, <1>11
       DEF Next, SenderStep

-----------------------------------------------------------------------------
(* Every field holds a value of its type; in particular a thread never     *)
(* returns a result for a request it does not have.                        *)
THEOREM TypeCorrect == Spec => []ExchangeTypeOK
<1>1. Inv => ExchangeTypeOK
  BY DEF Inv
<1>. QED BY <1>1, InitInv, StepInv, PTL DEF Spec

(* Each datagram that arrived is in the socket, was an error, was queued,  *)
(* was thrown away by a client or ended exactly one send; the threads of   *)
(* the server throw none away (message.c:112-135, server.c:136-145).       *)
THEOREM Accounted == Spec => []AllAccounted
<1>1. Inv => AllAccounted
  BY DEF Inv
<1>. QED BY <1>1, InitInv, StepInv, PTL DEF Spec

(* A send returns 1 only for an acknowledge of a request with the same     *)
(* identifier that was sent, or for an ordinary message with the numbers   *)
(* that message.c:122 compares, however the network loses, repeats, delays *)
(* and reorders, and whatever `from' the handlers leave in an acknowledge. *)
THEOREM LookalikesOnly == Spec => []EndedByLike
<1>1. Init => LikeInv
  BY DEF Init, LikeInv, EndedByLike
<1>2. Inv /\ LikeInv /\ [Next]_vars => LikeInv'
  <2>. SUFFICES ASSUME Inv, LikeInv, [Next]_vars PROVE LikeInv'
    OBVIOUS
  <2>t. ExchangeTypeOK /\ SendInv /\ InboxInv
    BY DEF Inv
  <2>q. inbox \in Seq(Datagrams)
    BY <2>t DEF ExchangeTypeOK
  <2>0. ASSUME \A q \in Requests : result'[q] = result[q] \/ (result[q] = "unsent" /\ result'[q] # "acked")
                                   \/ (result[q] = "sent" /\ result'[q] = "failed"),
               UNCHANGED answer
        PROVE  EndedByLike' /\ Sent \subseteq Sent'
    BY <2>0 DEF LikeInv, EndedByLike, Sent
  <2>1. ASSUME inbox # <<>>, inbox' = Tail(inbox), Sent \subseteq Sent'
        PROVE  \A k \in 1 .. Len(inbox') : inbox'[k].kind = "ack" => inbox'[k].re \in Sent'
    <3>1. \A k \in 1 .. Len(inbox') : k + 1 \in 1 .. Len(inbox) /\ inbox'[k] = inbox[k + 1]
      BY <2>q, <2>1
    <3>. QED BY <2>1, <3>1 DEF LikeInv
  <2>2. ASSUME NEW t \in Senders, Accept(t) PROVE LikeInv'
    <3> DEFINE r == request[t]
               d == Head(inbox)
    <3>1. /\ answer' = [answer EXCEPT ![r] = d.re]
          /\ result' = [result EXCEPT ![r] = "acked"]
          /\ inbox # <<>> /\ inbox' = Tail(inbox) /\ d \notin Errors
          /\ To[r] = d.from /\ Id[r] = d.id
      BY <2>2 DEF Accept, TakeMessage, Returns, Matches
    <3>2. r \in Requests /\ result[r] = "sent"
      BY <2>t, <2>2 DEF Accept, SendInv
    <3>3. d = inbox[1] /\ 1 \in 1 .. Len(inbox) /\ d \in Datagrams
      BY <2>t, <3>1, TakenTail
    <3>4. d \in Acks \/ d \in Plain
      BY <3>1, <3>3 DEF Datagrams
    <3>5. \/ d.re \in Sent /\ Id[d.re] = Id[r]
          \/ d.re = Ordinary /\ <<To[r], Id[r]>> \in Others
      <4>1. CASE d \in Acks
        BY <2>t, <3>1, <3>3, <4>1 DEF Acks, InboxInv, LikeInv
      <4>2. CASE d \in Plain
        <5>1. d.kind = "message" /\ d.re = Ordinary
          BY <4>2 DEF Plain
        <5>. QED BY <2>t, <3>1, <3>3, <5>1 DEF InboxInv
      <4>. QED BY <3>4, <4>1, <4>2
    <3> HIDE DEF r, d
    <3>6. Sent' = Sent
      BY <2>t, <3>1, <3>2 DEF Sent, ExchangeTypeOK
    <3>7. EndedByLike'
      BY <2>t, <3>1, <3>2, <3>5, <3>6 DEF EndedByLike, LikeInv, ExchangeTypeOK
    <3>. QED BY <2>1, <3>1, <3>6, <3>7 DEF LikeInv
  <2>3. ASSUME NEW t \in Senders, SelectTimeout(t) PROVE LikeInv'
    <3>1. request[t] \in Requests /\ result[request[t]] = "sent"
      BY <2>t, <2>3 DEF SelectTimeout, SendInv
    <3>2. EndedByLike' /\ Sent \subseteq Sent' /\ inbox' = inbox
      BY <2>0, <2>t, <2>3, <3>1 DEF SelectTimeout, Returns, ExchangeTypeOK
    <3>. QED BY <3>2 DEF LikeInv
  <2>4. ASSUME NEW t \in Senders, SendTo(t) PROVE LikeInv'
    <3>1. EndedByLike' /\ Sent \subseteq Sent' /\ inbox' = inbox
      BY <2>0, <2>t, <2>4 DEF SendTo, ExchangeTypeOK
    <3>. QED BY <3>1 DEF LikeInv
  <2>5. CASE Arrive
    <3>1. PICK d \in Arrivals : inbox' = Append(inbox, d)
      BY <2>5 DEF Arrive
    <3>2. d.kind = "ack" => d.re \in Sent
      BY DEF Arrivals, AckOf, Errors
    <3>3. d \in Datagrams
      BY ArrivalsKnown
    <3>4. /\ Len(inbox') = Len(inbox) + 1 /\ Len(inbox) \in Nat
          /\ \A k \in 1 .. Len(inbox) : inbox'[k] = inbox[k]
          /\ inbox'[Len(inbox) + 1] = d
      BY <2>q, <3>1, <3>3
    <3>5. UNCHANGED <<result, answer>>
      BY <2>5 DEF Arrive
    <3>6. ASSUME NEW k \in 1 .. Len(inbox'), inbox'[k].kind = "ack" PROVE inbox'[k].re \in Sent
      <4>1. CASE k \in 1 .. Len(inbox)
        BY <3>4, <3>6, <4>1 DEF LikeInv
      <4>2. CASE k = Len(inbox) + 1
        <5>1. inbox'[k] = d
          BY <3>4, <4>2
        <5>. QED BY <3>2, <3>6, <5>1
      <4>. QED BY <3>4, <4>1, <4>2
    <3>7. EndedByLike' /\ Sent' = Sent
      BY <3>5 DEF EndedByLike, LikeInv, Sent
    <3>. QED BY <3>6, <3>7 DEF LikeInv
  <2>6. ASSUME UNCHANGED <<result, answer>>, inbox' = inbox \/ (inbox # <<>> /\ inbox' = Tail(inbox))
        PROVE  LikeInv'
    <3>1. EndedByLike' /\ Sent' = Sent
      BY <2>6 DEF EndedByLike, LikeInv, Sent
    <3>. QED BY <2>1, <2>6, <3>1 DEF LikeInv
  <2>. QED BY <2>2, <2>3, <2>4, <2>5, <2>6
         DEF Next, vars, SelectReady, SelectInterrupted, SenderStep, ReceiveFails,
             PassOn, Receive, ReceiveBad, TakeMessage, TakeError
<1>3. LikeInv => EndedByLike
  BY DEF LikeInv
<1>. QED BY <1>1, <1>2, <1>3, InitInv, StepInv, PTL DEF Spec

-----------------------------------------------------------------------------
(* The client.                                                             *)

\* A command that waits has sent its request; only while it waits is the client
\* inside sendMessage(); and logins and registrations happen off line.
UiInv ==
  /\ stage[Ui] # "out" => pc \in Sending
  /\ pc \in Sending => request[Ui] \in Requests
  /\ status = "Y" => pc \notin {"login", "register", "confirm", "confirming"}

\* What may have ended request r.
Ended(r) ==
  \/ answer[r] = r
  \/ /\ answer[r] \in Requests
     /\ Id[answer[r]] = Id[r]
     /\ result[answer[r]] \in {"failed", "acked"}
  \/ answer[r] = Ordinary /\ <<To[r], Id[r]>> \in Others

\* The request on its way is the current one, whoever was acknowledged in its
\* place had returned, and an acknowledge answers a request that was sent.
AnswerInv ==
  /\ \A r \in Requests : result[r] = "sent" => r = request[Ui] /\ stage[Ui] # "out"
  /\ \A k \in 1 .. Len(inbox) :
       inbox[k].kind = "ack" => result[inbox[k].re] \in {"sent", "failed", "acked"}
  /\ EndedByOwnOrPast

ClientInv == Inv /\ ClientTypeOK /\ UiInv

-----------------------------------------------------------------------------
(* What becomes of an acknowledge's arguments.                             *)

\* A sequence is the beginning of its concatenation with another.
LEMMA Prefix ==
  ASSUME NEW S, NEW s \in Seq(S), NEW t \in Seq(S)
  PROVE  /\ s \o t \in Seq(S)
         /\ Len(s \o t) = Len(s) + Len(t)
         /\ \A k \in 1 .. Len(s) : (s \o t)[k] = s[k]
BY ConcatProperties

\* The int that is copied out of an acknowledge is four bytes, whatever the size
\* of its arguments, and that of an int sent is the int one byte further: a byte
\* that was never written, then all bytes but the last.
LEMMA AnswerShifted ==
  ASSUME NEW a \in Seq(Byte), NEW value \in Answers(a)
  PROVE  /\ value \in Int4
         /\ Len(a) = 4 => value[2] = a[1] /\ value[3] = a[2] /\ value[4] = a[3]
<1>1. PICK junk \in Junk, rest \in Junk :
        value = FirstInt(receiveMessage(Packet(buildBuffer(Acknowledge(a), junk, 0)), <<>>).arguments,
                         [k \in 1 .. 4 |-> rest])
  BY DEF Answers
<1>2. junk \in Byte /\ rest \in Byte /\ Len(a) \in Nat
  BY ClientAssumption DEF ClientAssumption
<1> DEFINE bytes == <<junk>> \o a
           sent  == SubSeq(bytes, 1, Len(a))
           tail  == [k \in 1 .. 4 |-> rest]
<1>3. receiveMessage(Packet(buildBuffer(Acknowledge(a), junk, 0)), <<>>).arguments
        = SubSeq(sent, 1, Len(a))
  <2> DEFINE header == [type |-> 7, sequence |-> 0, argumentsSize |-> Len(a), crc16 |-> 0]
  <2>1. [header EXCEPT !.sequence = 0, !.crc16 = 0] = header
    <3>1. header \in [type : {7}, sequence : {0}, argumentsSize : Nat, crc16 : {0}]
      BY <1>2
    <3> HIDE DEF header
    <3>. QED BY <3>1
  <2>2. header.argumentsSize = Len(a) /\ header.type = 7 /\ header.type \notin {1, 2}
    OBVIOUS
  <2>3. Acknowledge(a) = [header |-> header, arguments |-> a]
    BY DEF Acknowledge
  <2> HIDE DEF header
  <2>4. buildBuffer(Acknowledge(a), junk, 0) = [header |-> header, bytes |-> bytes]
    BY <2>1, <2>3 DEF buildBuffer
  <2> HIDE DEF bytes
  <2> DEFINE buffer == [header |-> header, bytes |-> bytes]
  <2>5. buffer.header = header /\ buffer.bytes = bytes
    OBVIOUS
  <2>6. [buffer EXCEPT !.bytes = sent] = [header |-> header, bytes |-> sent]
    OBVIOUS
  <2> HIDE DEF buffer
  <2>7. Packet(buffer) = [header |-> header, bytes |-> sent]
    BY <2>2, <2>5, <2>6 DEF Packet
  <2> DEFINE packet == [header |-> header, bytes |-> sent]
  <2> HIDE DEF sent
  <2>8. packet.header = header /\ packet.bytes = sent
    OBVIOUS
  <2> HIDE DEF packet
  <2> DEFINE message == [header |-> header, arguments |-> SubSeq(sent, 1, Len(a))]
  <2>9. buildMessage(packet) = message
    BY <2>2, <2>8 DEF buildMessage
  <2>10. message.header = header /\ message.arguments = SubSeq(sent, 1, Len(a))
    OBVIOUS
  <2> HIDE DEF message
  <2>11. receiveMessage(packet, <<>>) = message
    BY <2>2, <2>9, <2>10 DEF receiveMessage
  <2>. QED BY <2>4, <2>7, <2>10, <2>11 DEF buffer, packet
<1>4. bytes \in Seq(Byte) /\ Len(bytes) = Len(a) + 1
  BY <1>2
<1>5. \A k \in 1 .. Len(a) : bytes[k + 1] = a[k]
  BY <1>2
<1>6. /\ sent \in Seq(Byte) /\ Len(sent) = Len(a)
      /\ \A k \in 1 .. Len(a) : sent[k] = bytes[k]
  BY <1>2, <1>4
<1> DEFINE args == SubSeq(sent, 1, Len(a))
<1>7. /\ args \in Seq(Byte) /\ Len(args) = Len(a)
      /\ \A k \in 1 .. Len(a) : args[k] = sent[k]
  <2> HIDE DEF sent
  <2>. QED BY <1>2, <1>6
<1>8. tail \in Seq(Byte) /\ Len(tail) = 4
  BY <1>2
<1> HIDE DEF bytes, sent, args, tail
<1>9. /\ args \o tail \in Seq(Byte) /\ Len(args \o tail) = Len(a) + 4
      /\ \A k \in 1 .. Len(a) : (args \o tail)[k] = args[k]
  <2>1. args \in Seq(Byte) /\ tail \in Seq(Byte) /\ Len(args) = Len(a) /\ Len(tail) = 4
    BY <1>7, <1>8
  <2> HIDE DEF args, tail
  <2>2. /\ args \o tail \in Seq(Byte)
        /\ Len(args \o tail) = Len(args) + Len(tail)
        /\ \A k \in 1 .. Len(args) : (args \o tail)[k] = args[k]
    BY <2>1, Prefix
  <2>. QED BY <1>2, <2>1, <2>2
<1>10. value = SubSeq(args \o tail, 1, 4)
  BY <1>1, <1>3 DEF FirstInt, args, tail
<1>11. /\ value \in Seq(Byte) /\ Len(value) = 4
       /\ \A k \in 1 .. 4 : value[k] = (args \o tail)[k]
  <2> DEFINE all == args \o tail
  <2>1. all \in Seq(Byte) /\ Len(all) \in Nat /\ Len(all) >= 4 /\ value = SubSeq(all, 1, 4)
    BY <1>2, <1>9, <1>10
  <2> HIDE DEF all
  <2>2. value \in Seq(Byte) /\ Len(value) = 4 /\ \A k \in 1 .. 4 : value[k] = all[k]
    BY <2>1
  <2>. QED BY <2>2 DEF all
<1>12. value \in Int4
  <2>1. value \in [1 .. Len(value) -> Byte]
    BY <1>11, LenProperties
  <2>. QED BY <1>11, <2>1 DEF Int4
<1>13. ASSUME Len(a) = 4 PROVE value[2] = a[1] /\ value[3] = a[2] /\ value[4] = a[3]
  <2>1. ASSUME NEW k \in 1 .. 3 PROVE value[k + 1] = a[k]
    <3>1. k \in 1 .. Len(a) /\ k + 1 \in 1 .. Len(a) /\ k + 1 \in 1 .. 4
      BY <1>13
    <3>2. value[k + 1] = (args \o tail)[k + 1]
      BY <1>11, <3>1
    <3>. QED BY <1>5, <1>6, <1>7, <1>9, <3>1, <3>2
  <2>. QED BY <2>1
<1>. QED BY <1>12, <1>13

\* The answer 1 is never read as a 1.
LEMMA OneIsShifted == IntOf(1) \notin Answers(IntOf(1))
<1>. SUFFICES ASSUME IntOf(1) \in Answers(IntOf(1)) PROVE FALSE
  OBVIOUS
<1> DEFINE one == IntOf(1)
<1>1. one \in Seq(Byte) /\ Len(one) = 4 /\ one[1] = 1 /\ one[2] = 0
  BY DEF IntOf, Byte
<1> HIDE DEF one
<1>2. one \in Answers(one)
  BY DEF one
<1>. QED BY <1>1, <1>2, AnswerShifted

-----------------------------------------------------------------------------
(* The client uses the socket as Exchange says.                            *)

\* What the only sender of the client and the network do.
UiNext ==
  Arrive \/ SelectInterrupted(Ui) \/ SenderStep(Ui) \/ SendTo(Ui)

LEMMA StepMaps == [ClientNext]_clientVars => [UiNext]_vars
<1>. SUFFICES ASSUME [ClientNext]_clientVars PROVE [UiNext]_vars
  OBVIOUS
<1>1. CASE UNCHANGED clientVars
  BY <1>1 DEF clientVars
<1>2. CASE ClientNext
  <2>2. ASSUME NEW type, NEW id, NEW label, Sends(type, id, label) PROVE UiNext
    BY <2>2 DEF Sends, UiNext
  <2>3. CASE Arrive \/ SelectInterrupted(Ui) \/ SenderStep(Ui)
    BY <2>3 DEF UiNext
  <2>4. CASE UNCHANGED vars
    BY <2>4
  <2>5. CASE PressF2 \/ PressF3 \/ PressF6 \/ PressF9 \/ ConfirmSends \/ FetchList
    BY <2>2, <2>5 DEF PressF2, PressF3, PressF6, PressF9, ConfirmSends, FetchList
  <2>6. CASE ChooseUser \/ Browse
    BY <2>2, <2>4, <2>6 DEF ChooseUser, Browse, NoItem
  <2>7. CASE LoginReturns \/ RegisterReturns \/ ConfirmReturns
    BY <2>4, <2>7 DEF LoginReturns, RegisterReturns, ConfirmReturns
  <2>8. CASE PressF4 \/ PressF5 \/ PressF7 \/ Escape \/ StopBrowsing
    BY <2>4, <2>8 DEF PressF4, PressF5, PressF7, Escape, StopBrowsing, Opens, Closes
  <2>9. ASSUME NEW label, CommandDone(label) PROVE UNCHANGED vars
    BY <2>9 DEF CommandDone
  <2>. QED BY <1>2, <2>3, <2>4, <2>5, <2>6, <2>7, <2>8, <2>9 DEF ClientNext, Proceeds, ReadsKey
<1>. QED BY <1>1, <1>2

LEMMA UiNextIsNext == UiNext => Next
BY ExchangeAssumption DEF UiNext, Next, ExchangeAssumption

(* The client implements the exchange: what is proved of sendMessage(),    *)
(* message.c:73, for any callers, holds for the commands of client.c.      *)
THEOREM Implements == ClientSpec => ImplementsExchange
<1>1. ClientInit => Init
  BY DEF ClientInit
<1>2. [ClientNext]_clientVars => [Next]_vars
  BY StepMaps, UiNextIsNext
<1>. QED BY <1>1, <1>2, PTL DEF ClientSpec, Spec, ImplementsExchange

-----------------------------------------------------------------------------
(* Types, and where the client is.                                         *)

LEMMA ClientInitInv == ClientInit => ClientInv
<1>. SUFFICES ASSUME ClientInit PROVE ClientInv
  OBVIOUS
<1>1. Init
  BY DEF ClientInit
<1>2. Inv
  BY <1>1, InitInv
<1>3. IntOf(0) \in Int4
  BY DEF IntOf, Int4, Byte
<1>4. ClientTypeOK
  BY <1>3 DEF ClientInit, ClientTypeOK
<1>5. UiInv
  BY <1>1, ExchangeAssumption DEF ClientInit, Init, UiInv, Sending, ExchangeAssumption
<1>. QED BY <1>2, <1>4, <1>5 DEF ClientInv

\* A call of sendMsgType...() for the user `id' at one of the labels in Sending.
LEMMA SendsKeeps ==
  ASSUME ClientInv, NEW type, NEW id \in Int4, NEW label \in Sending, Sends(type, id, label),
         crashed' \in BOOLEAN, UNCHANGED <<status, myID, userList, reply>>,
         status = "Y" => label \notin {"login", "register", "confirming"}
  PROVE  ClientTypeOK' /\ UiInv'
<1>1. PICK r \in Requests : request' = [request EXCEPT ![Ui] = r]
  BY DEF Sends, SendTo
<1>2. request'[Ui] = r
  BY <1>1, ExchangeAssumption DEF ClientInv, Inv, ExchangeTypeOK, ExchangeAssumption
<1>3. from' \in [Requests -> Int4]
  BY <1>2 DEF Sends, ClientInv, ClientTypeOK
<1>4. ClientTypeOK'
  BY <1>3 DEF Sends, ClientInv, ClientTypeOK
<1>5. UiInv'
  BY <1>2 DEF Sends, ClientInv, UiInv, Sending
<1>. QED BY <1>4, <1>5

LEMMA ClientStepInv == ClientInv /\ [ClientNext]_clientVars => ClientInv'
<1>. SUFFICES ASSUME ClientInv, [ClientNext]_clientVars PROVE ClientInv'
  OBVIOUS
<1>t. Inv /\ ClientTypeOK /\ UiInv /\ ExchangeTypeOK /\ Ui \in Senders
  BY ExchangeAssumption DEF ClientInv, Inv, ExchangeAssumption
<1>i. Inv'
  BY <1>t, StepMaps, UiNextIsNext, StepInv
<1>0. IntOf(0) \in Int4 /\ UserIds \subseteq Int4 /\ Replies \subseteq Seq(Byte)
  BY ClientAssumption DEF ClientAssumption, IntOf, Int4, Byte
<1>a. ASSUME NEW a \in Replies, NEW value \in Answers(a) PROVE value \in Int4
  BY <1>0, <1>a, AnswerShifted
<1>1. CASE UNCHANGED clientVars
  <2>1. ClientTypeOK' /\ UiInv'
    BY <1>t, <1>1 DEF clientVars, uiVars, vars, ClientTypeOK, UiInv
  <2>. QED BY <1>i, <2>1 DEF ClientInv
<1>2. CASE ClientNext
  <2>. SUFFICES ClientTypeOK' /\ UiInv'
    BY <1>i DEF ClientInv
  <2>1. ASSUME Arrive \/ SelectInterrupted(Ui) \/ SenderStep(Ui), UNCHANGED uiVars
        PROVE  ClientTypeOK' /\ UiInv'
    <3>1. request' = request /\ (stage'[Ui] # "out" => stage[Ui] # "out")
      BY <1>t, <2>1 DEF Arrive, SelectInterrupted, SenderStep, SelectReady, SelectTimeout, Accept,
           ReceiveFails, PassOn, Returns, ExchangeTypeOK
    <3>. QED BY <1>t, <2>1, <3>1 DEF uiVars, ClientTypeOK, UiInv
  <2>2. CASE PressF2
    BY <1>0, <1>t, <2>2, SendsKeeps DEF PressF2, Sending, ClientTypeOK
  <2>3. CASE PressF3
    BY <1>0, <2>3, SendsKeeps DEF PressF3, Sending, Undefined
  <2>4. CASE ConfirmSends
    BY <1>t, <2>4, SendsKeeps DEF ConfirmSends, Sending, ClientTypeOK, UiInv
  <2>5. CASE FetchList \/ PressF6 \/ PressF9
    BY <1>t, <2>5, SendsKeeps DEF FetchList, PressF6, PressF9, Sending, ClientTypeOK, Undefined
  <2>6. CASE ChooseUser \/ Browse
    <3>1. CASE NoItem("choose") \/ NoItem("browse")
      BY <1>t, <3>1 DEF NoItem, vars, ClientTypeOK, UiInv
    <3>2. CASE Sends(3, myID, "sending") /\ UNCHANGED <<crashed, status, myID, userList, reply>>
      BY <1>t, <3>2, SendsKeeps DEF Sending, ClientTypeOK
    <3>3. CASE Sends(5, myID, "removing") /\ Undefined(TRUE) /\ UNCHANGED <<status, myID, userList, reply>>
      BY <1>t, <3>3, SendsKeeps DEF Sending, ClientTypeOK, Undefined
    <3>. QED BY <2>6, <3>1, <3>2, <3>3 DEF ChooseUser, Browse
  <2>7. CASE PressF4 \/ PressF5 \/ PressF7 \/ Escape \/ StopBrowsing
    BY <1>t, <2>7 DEF PressF4, PressF5, PressF7, Escape, StopBrowsing, Opens, Closes, vars,
         ClientTypeOK, UiInv, Sending
  <2>8. CASE LoginReturns
    <3>1. stage' = stage /\ request' = request /\ stage[Ui] = "out" /\ pc' = "keys"
      BY <2>8 DEF LoginReturns, Returned, vars
    <3>2. crashed' \in BOOLEAN /\ from' = from
      BY <2>8 DEF LoginReturns, Undefined
    <3>3. reply' \in [Requests -> Replies \cup {NoReply}]
      BY <1>t, <2>8 DEF LoginReturns, ClientTypeOK
    <3>4. myID' \in Int4 /\ status' \in {"N", "Y"} /\ userList' \in BOOLEAN
      <4>1. Current \in Requests
        BY <1>t, <2>8 DEF LoginReturns, Returned, UiInv, Sending, Current
      <4>. QED BY <1>t, <2>8, <4>1 DEF LoginReturns, ClientTypeOK
    <3>5. ClientTypeOK'
      BY <1>t, <3>1, <3>2, <3>3, <3>4 DEF ClientTypeOK
    <3>. QED BY <3>1, <3>5 DEF UiInv, Sending
  <2>9. CASE RegisterReturns
    <3>1. stage' = stage /\ request' = request /\ stage[Ui] = "out" /\ pc' \in {"keys", "confirm"}
      BY <2>9 DEF RegisterReturns, Returned, vars
    <3>2. myID' \in Int4
      BY <1>0, <1>a, <2>9 DEF RegisterReturns
    <3>3. UNCHANGED <<crashed, status, userList, from, reply>> /\ status # "Y"
      BY <1>t, <2>9 DEF RegisterReturns, Returned, UiInv
    <3>. QED BY <1>t, <3>1, <3>2, <3>3 DEF ClientTypeOK, UiInv, Sending
  <2>10. CASE ConfirmReturns
    <3>1. stage' = stage /\ request' = request /\ stage[Ui] = "out" /\ pc' = "keys" /\ status' = "Y"
      BY <2>10 DEF ConfirmReturns, Returned, vars
    <3>2. reply' \in [Requests -> Replies \cup {NoReply}]
      BY <1>t, <2>10 DEF ConfirmReturns, ClientTypeOK
    <3>3. crashed' \in BOOLEAN /\ UNCHANGED <<myID, userList, from>>
      BY <2>10 DEF ConfirmReturns, Undefined
    <3>. QED BY <1>t, <3>1, <3>2, <3>3 DEF ClientTypeOK, UiInv, Sending
  <2>11. ASSUME NEW label \in {"sending", "adding", "fetching", "removing", "leaving"}, CommandDone(label)
         PROVE  ClientTypeOK' /\ UiInv'
    <3>1. stage' = stage /\ request' = request /\ stage[Ui] = "out"
          /\ pc' \in {"keys", "fetch", "browse", "done"}
      BY <2>11 DEF CommandDone, Returned, After, vars
    <3>2. crashed' \in BOOLEAN /\ UNCHANGED <<status, myID, userList, from, reply>>
      BY <2>11 DEF CommandDone, Undefined
    <3>. QED BY <1>t, <3>1, <3>2 DEF ClientTypeOK, UiInv, Sending
  <2>. QED BY <1>2, <2>1, <2>2, <2>3, <2>4, <2>5, <2>6, <2>7, <2>8, <2>9, <2>10, <2>11
           DEF ClientNext, Proceeds, ReadsKey
<1>. QED BY <1>1, <1>2

LEMMA ClientInvariant == ClientSpec => []ClientInv
BY ClientInitInv, ClientStepInv, PTL DEF ClientSpec

(* Every variable of client.c holds a value of its type, myID an int of    *)
(* four bytes whatever arrives as the answer.                              *)
THEOREM ClientTypeCorrect == ClientSpec => []ClientTypeOK
<1>1. ClientInv => ClientTypeOK
  BY DEF ClientInv
<1>. QED BY <1>1, ClientInvariant, PTL

-----------------------------------------------------------------------------
(* Identity and answers.                                                   *)

\* The commands that do not end a login leave the status and the user ID alone,
\* or happen off line.
LEMMA IdentityStep ==
  ASSUME ClientInv, [ClientNext]_clientVars
  PROVE  /\ status = "Y" => status' = "Y" /\ myID' = myID
         /\ pc = "login" /\ status' # status => LoginReturns
<1>t. UiInv /\ ClientTypeOK
  BY DEF ClientInv
<1>1. CASE LoginReturns \/ RegisterReturns \/ ConfirmReturns
  BY <1>t, <1>1 DEF LoginReturns, RegisterReturns, ConfirmReturns, Returned, UiInv
<1>2. CASE UNCHANGED <<status, myID>>
  BY <1>2
<1>. QED
  BY <1>1, <1>2 DEF ClientNext, clientVars, uiVars, Proceeds, ReadsKey, PressF2, PressF3, PressF4,
     PressF5, PressF6, PressF7, PressF9, ChooseUser, Escape, Browse, StopBrowsing, ConfirmSends,
     FetchList, CommandDone, NoItem, Opens, Closes

(* Who is on line stays on line as the same user (client.c:52-149): no     *)
(* key, answer or late datagram changes who the commands are sent for.     *)
THEOREM IdentityIsKept == ClientSpec => IdentityKept
<1>1. ClientInv /\ [ClientNext]_clientVars => [status = "Y" => status' = "Y" /\ myID' = myID]_clientVars
  BY IdentityStep
<1>. QED BY <1>1, ClientInvariant, PTL DEF ClientSpec, IdentityKept

(* A login that is answered with 1 leaves the client off line              *)
(* (client.c:296, message.c:39), whatever byte precedes the answer.        *)
THEOREM OneRefused == ClientSpec => OneIsRefused
<1> DEFINE Refused == pc = "login" /\ status' # status => reply'[Current] # IntOf(1)
<1>1. ClientInv /\ [ClientNext]_clientVars => [Refused]_clientVars
  <2>. SUFFICES ASSUME ClientInv, [ClientNext]_clientVars, pc = "login", status' # status
                PROVE  reply'[Current] # IntOf(1)
    OBVIOUS
  <2>1. LoginReturns
    BY IdentityStep
  <2>2. Current \in Requests
    BY DEF ClientInv, UiInv, Sending, Current
  <2>3. status \in {"N", "Y"} /\ status # "Y" /\ reply \in [Requests -> Replies \cup {NoReply}]
    BY DEF ClientInv, ClientTypeOK, UiInv
  <2>4. PICK a \in Replies : IntOf(1) \in Answers(a) /\ reply' = [reply EXCEPT ![Current] = a]
    BY <2>1, <2>3 DEF LoginReturns
  <2>5. reply'[Current] = a
    BY <2>2, <2>3, <2>4
  <2>. QED BY <2>4, <2>5, OneIsShifted
<1>. QED BY <1>1, ClientInvariant, PTL DEF ClientSpec, OneIsRefused

LEMMA AnswerInit == ClientInit => AnswerInv
BY DEF ClientInit, Init, AnswerInv, EndedByOwnOrPast

LEMMA AnswerStep == Inv /\ AnswerInv /\ [UiNext]_vars => AnswerInv'
<1>. SUFFICES ASSUME Inv, AnswerInv, [UiNext]_vars PROVE AnswerInv'
  OBVIOUS
<1>. USE ExchangeAssumption DEF ExchangeAssumption
<1>t. ExchangeTypeOK /\ SendInv /\ InboxInv /\ Ui \in Senders
  BY DEF Inv
<1>s. ASSUME NEW r \in Requests, result[r] = "sent" PROVE r = request[Ui] /\ stage[Ui] # "out"
  BY <1>s DEF AnswerInv
<1>b. ASSUME NEW k \in 1 .. Len(inbox), inbox[k].kind = "ack"
      PROVE  result[inbox[k].re] \in {"sent", "failed", "acked"}
  BY <1>b DEF AnswerInv
<1>q. inbox \in Seq(Datagrams)
  BY <1>t DEF ExchangeTypeOK
<1>1. CASE UNCHANGED vars
  BY <1>1 DEF vars, AnswerInv, EndedByOwnOrPast
<1>2. CASE Arrive
  <2>1. PICK d \in Arrivals : inbox' = Append(inbox, d)
    BY <1>2 DEF Arrive
  <2>2. d \in Datagrams
    BY ArrivalsKnown
  <2>3. d.kind = "ack" => d.re \in Sent
    BY <1>t DEF Arrivals, AckOf, Errors
  <2>4. /\ Len(inbox) \in Nat /\ Len(inbox') = Len(inbox) + 1
        /\ \A k \in 1 .. Len(inbox) : inbox'[k] = inbox[k]
        /\ inbox'[Len(inbox) + 1] = d
    BY <1>q, <2>1, <2>2
  <2>5. UNCHANGED <<result, request, stage, answer>>
    BY <1>2 DEF Arrive
  <2>6. ASSUME NEW k \in 1 .. Len(inbox'), inbox'[k].kind = "ack"
        PROVE  result[inbox'[k].re] \in {"sent", "failed", "acked"}
    <3>1. CASE k \in 1 .. Len(inbox)
      BY <1>b, <2>4, <2>6, <3>1
    <3>2. CASE k = Len(inbox) + 1
      <4>1. inbox'[k] = d /\ d.re \in Sent
        BY <2>3, <2>4, <2>6, <3>2
      <4>. QED BY <1>t, <4>1 DEF Sent, ExchangeTypeOK
    <3>. QED BY <2>4, <3>1, <3>2
  <2>. QED BY <2>5, <2>6 DEF AnswerInv, EndedByOwnOrPast
<1>3. CASE SelectInterrupted(Ui) \/ SelectReady(Ui)
  <2>1. UNCHANGED <<result, request, inbox, answer>> /\ stage'[Ui] # "out"
    BY <1>t, <1>3 DEF SelectInterrupted, SelectReady, ExchangeTypeOK
  <2>. QED BY <2>1 DEF AnswerInv, EndedByOwnOrPast
<1>4. CASE SelectTimeout(Ui)
  <2>1. /\ UNCHANGED <<request, inbox, answer>> /\ request[Ui] \in Requests
        /\ result' = [result EXCEPT ![request[Ui]] = "failed"]
    BY <1>t, <1>4 DEF SelectTimeout, Returns, SendInv
  <2>2. \A r \in Requests : result'[r] # "sent" /\ (result'[r] = result[r] \/ result'[r] = "failed")
    BY <1>s, <1>t, <2>1 DEF ExchangeTypeOK
  <2>. QED BY <1>t, <2>1, <2>2 DEF AnswerInv, EndedByOwnOrPast, ExchangeTypeOK
<1>5. CASE SendTo(Ui)
  <2>1. PICK r \in Requests :
          /\ result[r] = "unsent"
          /\ request' = [request EXCEPT ![Ui] = r]
          /\ \/ /\ result' = [result EXCEPT ![r] = "sent"]
                /\ stage' = [stage EXCEPT ![Ui] = "select"]
             \/ /\ result' = [result EXCEPT ![r] = "refused"]
                /\ stage' = stage
    BY <1>5 DEF SendTo
  <2>2. stage[Ui] = "out" /\ UNCHANGED <<inbox, answer>>
    BY <1>5 DEF SendTo
  <2>3. \A q \in Requests : result[q] # "sent"
    BY <1>s, <2>2
  <2>4. request'[Ui] = r /\ \A q \in Requests : q # r => result'[q] = result[q]
    BY <1>t, <2>1 DEF ExchangeTypeOK
  <2>5. \A q \in Requests : result'[q] = "sent" => q = request'[Ui] /\ stage'[Ui] # "out"
    BY <1>t, <2>1, <2>3, <2>4 DEF ExchangeTypeOK
  <2>6. ASSUME NEW k \in 1 .. Len(inbox), inbox[k].kind = "ack"
        PROVE  result'[inbox[k].re] \in {"sent", "failed", "acked"}
    <3>1. inbox[k] \in Datagrams
      BY <1>q
    <3>2. inbox[k].re \in Requests
      BY <2>6, <3>1 DEF Datagrams, Acks, Plain, Errors
    <3>. QED BY <1>b, <2>1, <2>4, <2>6, <3>2
  <2>7. EndedByOwnOrPast'
    <3>. SUFFICES ASSUME NEW q \in Requests, result'[q] = "acked"
                  PROVE  Ended(q)'
      BY DEF EndedByOwnOrPast, Ended
    <3>1. q # r /\ result[q] = "acked" /\ answer'[q] = answer[q]
      BY <1>t, <2>1, <2>2, <2>4 DEF ExchangeTypeOK
    <3>2. Ended(q)
      BY <3>1 DEF AnswerInv, EndedByOwnOrPast, Ended
    <3>. QED BY <2>1, <2>4, <3>1, <3>2 DEF Ended
  <2>. QED BY <2>2, <2>5, <2>6, <2>7 DEF AnswerInv
<1>6. ASSUME inbox # <<>>, inbox' = Tail(inbox)
      PROVE  /\ \A k \in 1 .. Len(inbox') : k + 1 \in 1 .. Len(inbox) /\ inbox'[k] = inbox[k + 1]
             /\ 1 \in 1 .. Len(inbox) /\ Head(inbox) = inbox[1] /\ inbox[1] \in Datagrams
  BY <1>q, <1>6
<1>7. CASE ReceiveFails(Ui) \/ PassOn(Ui)
  <2>1. /\ UNCHANGED <<result, request, answer>> /\ stage'[Ui] # "out"
        /\ inbox # <<>> /\ inbox' = Tail(inbox)
    BY <1>t, <1>7 DEF ReceiveFails, PassOn, TakeMessage, TakeError, ExchangeTypeOK
  <2>2. \A k \in 1 .. Len(inbox') : k + 1 \in 1 .. Len(inbox) /\ inbox'[k] = inbox[k + 1]
    BY <1>6, <2>1
  <2>. QED BY <2>1, <2>2 DEF AnswerInv, EndedByOwnOrPast
<1>8. CASE Accept(Ui)
  <2> DEFINE r == request[Ui]
             d == Head(inbox)
  <2>1. /\ UNCHANGED request
        /\ answer' = [answer EXCEPT ![r] = d.re]
        /\ result' = [result EXCEPT ![r] = "acked"]
        /\ inbox # <<>> /\ inbox' = Tail(inbox) /\ d \notin Errors
        /\ To[r] = d.from /\ Id[r] = d.id
    BY <1>8 DEF Accept, TakeMessage, Returns, Matches
  <2>2. r \in Requests /\ result[r] = "sent"
    BY <1>t, <1>8 DEF Accept, SendInv
  <2>3. /\ \A k \in 1 .. Len(inbox') : k + 1 \in 1 .. Len(inbox) /\ inbox'[k] = inbox[k + 1]
        /\ 1 \in 1 .. Len(inbox) /\ d = inbox[1] /\ d \in Datagrams
    BY <1>6, <2>1
  <2>4. \/ d.re = Ordinary /\ <<To[r], Id[r]>> \in Others
        \/ d.re \in Requests /\ d.id = Id[d.re] /\ result[d.re] \in {"sent", "failed", "acked"}
    <3>1. d \in Acks \/ d \in Plain
      BY <2>1, <2>3 DEF Datagrams
    <3>2. CASE d \in Plain
      <4>1. d.kind = "message" /\ d.re = Ordinary
        BY <3>2 DEF Plain
      <4>. QED BY <1>t, <2>1, <2>3, <4>1 DEF InboxInv
    <3>3. CASE d \in Acks
      BY <1>b, <1>t, <2>3, <3>3 DEF Acks, InboxInv
    <3>. QED BY <3>1, <3>2, <3>3
  <2> HIDE DEF r, d
  <2>5. \A q \in Requests : result'[q] # "sent" /\ (result'[q] = result[q] \/ result'[q] = "acked")
    BY <1>s, <1>t, <2>1, <2>2 DEF ExchangeTypeOK, r
  <2>6. ASSUME NEW q \in Requests, result'[q] = "acked" PROVE Ended(q)'
    <3>1. CASE q = r
      <4>1. answer'[q] = d.re
        BY <1>t, <2>1, <2>2, <3>1 DEF ExchangeTypeOK
      <4>. QED BY <2>1, <2>4, <2>5, <3>1, <4>1 DEF Ended
    <3>2. CASE q # r
      <4>1. answer'[q] = answer[q] /\ result[q] = "acked"
        BY <1>t, <2>1, <2>6, <3>2 DEF ExchangeTypeOK
      <4>2. Ended(q)
        BY <4>1 DEF AnswerInv, EndedByOwnOrPast, Ended
      <4>. QED BY <2>5, <4>1, <4>2 DEF Ended
    <3>. QED BY <3>1, <3>2
  <2>7. ASSUME NEW k \in 1 .. Len(inbox'), inbox'[k].kind = "ack"
        PROVE  result'[inbox'[k].re] \in {"sent", "failed", "acked"}
    <3>1. k + 1 \in 1 .. Len(inbox) /\ inbox'[k] = inbox[k + 1] /\ inbox[k + 1] \in Datagrams
      BY <1>q, <2>3
    <3>2. inbox'[k].re \in Requests
      BY <2>7, <3>1 DEF Datagrams, Acks, Plain, Errors
    <3>. QED BY <1>b, <2>5, <2>7, <3>1, <3>2
  <2>. QED BY <2>5, <2>6, <2>7 DEF AnswerInv, EndedByOwnOrPast, Ended
<1>. QED BY <1>1, <1>2, <1>3, <1>4, <1>5, <1>7, <1>8 DEF UiNext, SenderStep

(* What ends a command is its own acknowledge, one for a request with the  *)
(* same identifier that was given up or ended before, or an ordinary       *)
(* message with the numbers that message.c:122 compares: never the         *)
(* acknowledge of a request that is still to be sent.                      *)
THEOREM OwnOrPastOnly == ClientSpec => []EndedByOwnOrPast
<1>1. ClientInv /\ AnswerInv /\ [ClientNext]_clientVars => AnswerInv'
  BY StepMaps, AnswerStep DEF ClientInv
<1>2. AnswerInv => EndedByOwnOrPast
  BY DEF AnswerInv
<1>. QED BY <1>1, <1>2, ClientInvariant, AnswerInit, PTL DEF ClientSpec
=============================================================================
