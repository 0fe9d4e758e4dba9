-------------------------------- MODULE Wire --------------------------------
(***************************************************************************)
(* What message.c makes of a message on its way: buildBuffer(), sendto()   *)
(* and, at the other end, recvfrom(), buildMessage() and what              *)
(* receiveMessage() adds.                                                  *)
(*                                                                         *)
(* The fields before `arguments' are copied as they are, so a header is a  *)
(* record.  The arguments are bytes, as buildBuffer() puts them one byte   *)
(* further than buildMessage() looks for them.                             *)
(***************************************************************************)
EXTENDS Integers, Sequences

CONSTANTS
  LoginSize,      \* where receiveMessage() writes the address in messages of
  RegisterSize    \* types 1 and 2: 10 and 76, the size of what the client sends

Byte    == 0 .. 255
Int4    == [1 .. 4 -> Byte]        \* sizeof( int ), the lowest byte first
IntOf(b) == <<b, 0, 0, 0>>         \* the int b, for a byte b

ASSUME WireAssumption == LoginSize \in Nat /\ RegisterSize \in Nat

\* Variant: the arguments are written where buildMessage() looks for them.
buildBuffer_InPlace(message, junk, crc) ==
  [header |-> [message.header EXCEPT !.sequence = 0, !.crc16 = crc],
   bytes  |-> message.arguments]

\* The bytes that follow the header: one that was never written, then the
\* arguments, the last of which is written past the end of the block.
buildBuffer(message, junk, crc) ==
  [header |-> [message.header EXCEPT !.sequence = 0, !.crc16 = crc],
   bytes  |-> <<junk>> \o message.arguments]

\* sendto() sends messageSize() bytes.
Packet(buffer) ==
  [buffer EXCEPT !.bytes = SubSeq(@, 1, buffer.header.argumentsSize)]

\* The test of the checksum is commented out.
buildMessage(packet) ==
  [header    |-> packet.header,
   arguments |-> SubSeq(packet.bytes, 1, packet.header.argumentsSize)]

\* In messages of types 1 and 2 the arguments grow by a struct sockaddr_in, for
\* which the bytes of the local pointer to it are copied.
receiveMessage(packet, pointer) ==
  LET message == buildMessage(packet)
      offset == IF message.header.type = 1 THEN LoginSize ELSE RegisterSize
  IN  IF message.header.type \notin {1, 2} THEN message
      ELSE [header    |-> [message.header EXCEPT !.argumentsSize = @ + Len(pointer)],
            arguments |-> SubSeq(message.arguments, 1, offset) \o pointer]

\* memcpy( &result, arguments, sizeof( result ) ): the first four bytes.  Those
\* past the end of the arguments are whatever follows them, here `rest'.
FirstInt(arguments, rest) == SubSeq(arguments \o rest, 1, 4)
=============================================================================
