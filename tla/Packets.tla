------------------------------- MODULE Packets -------------------------------
(***************************************************************************)
(* One message on its way from buildBuffer() to receiveMessage(), and what *)
(* the checksum of crc16.c would say of its arguments.                     *)
(***************************************************************************)
EXTENDS Wire, Crc16

CONSTANTS
  Messages,        \* the messages that are sent
  Junk,            \* what malloc() leaves in a byte
  Uninitialised,   \* what it leaves where the header will be
  Pointer          \* the bytes of receiveMessage()'s pointer to the address

\* What of a struct message_t is sent.
Message == [header : [from : Nat, to : Nat, type : Nat, messageId : Nat, sequence : Nat,
                      argumentsSize : Nat, crc16 : SUBSET Word],
            arguments : Seq(Byte)]

ASSUME PacketsAssumption ==
  /\ Messages \subseteq Message
  /\ \A m \in Messages :
       /\ m.header.argumentsSize = Len(m.arguments)
       /\ m.header.type = 1 => Len(m.arguments) = LoginSize
       /\ m.header.type = 2 => Len(m.arguments) = RegisterSize
  /\ Junk \subseteq Byte
  /\ Pointer \in Seq(Byte)

VARIABLES
  message,    \* what the sender passes to sendMessage() or sendAcknowledgeMessage()
  stage,      \* how far it is
  buffer,     \* its packet
  received    \* what receiveMessage() returns

vars == <<message, stage, buffer, received>>

Nothing == <<>>

Init ==
  /\ message \in Messages
  /\ stage = "new"
  /\ buffer = Nothing
  /\ received = Nothing

\* The checksum is that of the block before anything is written to it.
Build ==
  /\ stage = "new"
  /\ \E junk \in Junk, block \in Uninitialised :
       buffer' = buildBuffer(message, junk, get_crc16(block))
  /\ stage' = "built"
  /\ UNCHANGED <<message, received>>

Deliver ==
  /\ stage = "built"
  /\ received' = receiveMessage(Packet(buffer), Pointer)
  /\ stage' = "received"
  /\ UNCHANGED <<message, buffer>>

Next == Build \/ Deliver

Spec == Init /\ [][Next]_vars

-----------------------------------------------------------------------------
(* Properties.                                                             *)

\* "Constroi uma mensagem a partir dos dados no pacote" (message.c:53): it does
\* not.  What arrives is an arbitrary byte and the arguments sent without the
\* last, so they arrive (a password, an identifier, an answer) as they were sent
\* only if all their bytes are the same.
UnchangedOnlyIfUniform ==
  (/\ stage = "received"
   /\ SubSeq(received.arguments, 1, Len(message.arguments)) = message.arguments) =>
      \A j, k \in DOMAIN message.arguments : message.arguments[j] = message.arguments[k]

\* Data for the checksum: the arguments, each taken once.
Data == IF stage = "new" THEN message.arguments ELSE <<>>

\* crc16_using_poly() computes "the 16 bit remainder of a block of data using
\* the ccitt polynomial generator" (crc16.c:38-39), in its reflected form.
PolyIsRemainder == crc16_using_poly(Data) = ReferencePoly(Data)

\* crc16_using_table() computes the remainder of the block as it is, so each
\* entry of the table is right; the two functions are not exchangeable.
TableIsRemainder == crc16_using_table(Data) = ReferenceTable(Data)

\* A block with one byte changed has another checksum, if and only if the byte is
\* among those that get_crc16() looks at, as it loses the upper bits of `size'.
DetectsOneByte ==
  \A k \in DOMAIN Data, b \in Junk :
    b # Data[k] =>
      ((get_crc16([Data EXCEPT ![k] = b]) # get_crc16(Data)) <=> k <= Len(Data) % UshortRange)
=============================================================================
