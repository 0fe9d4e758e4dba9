------------------------------ MODULE MCPackets ------------------------------
(* Small instances of Packets for TLC. *)
EXTENDS Packets

CONSTANT MaxLength

\* All 256 entries of the table of crc16.h; no constant changes them.
ASSUME TableAssumption == EntriesRight

\* Bytes of the test driver and the ends of the range, so chosen that blocks of four
\* bytes use every entry of the table.
SomeBytes == {0, 79, 84, 228, 255}

Blocks == UNION {[1 .. n -> SomeBytes] : n \in 0 .. MaxLength}

MessageOf(type, arguments) ==
  [header |-> [from |-> 3, to |-> 5, type |-> type, messageId |-> 7, sequence |-> 9,
               argumentsSize |-> Len(arguments), crc16 |-> {}],
   arguments |-> arguments]

MCMessages ==
  {MessageOf(7, a) : a \in Blocks}
  \cup {MessageOf(1, a) : a \in [1 .. LoginSize -> SomeBytes]}
  \cup {MessageOf(2, a) : a \in [1 .. RegisterSize -> SomeBytes]}

MCUninitialised == {<<0, 0, 0>>, <<84>>}
MCPointer == <<63, 84>>
=============================================================================
