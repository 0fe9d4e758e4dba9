------------------------------- MODULE Crc16 -------------------------------
(***************************************************************************)
(* crc16.c: the checksum of a block of bytes, computed bit by bit and, in  *)
(* another flavour, with the table of crc16.h.                             *)
(*                                                                         *)
(* A word of 16 bits, and a byte, is the set of the positions of its ones, *)
(* position 0 being the least significant: exclusive or is the symmetric   *)
(* difference.                                                             *)
(***************************************************************************)
EXTENDS Integers, SequencesExt

CONSTANT UshortRange   \* unsigned short has the values 0 .. UshortRange - 1

ASSUME Crc16Assumption == UshortRange \in Nat \ {0}

Word    == 0 .. 15
Bits(n) == {k \in Word : (n \div 2^k) % 2 = 1}
Xor(a, b) == SymDiff(a, b)

ShiftRight(w) == {k - 1 : k \in w \ {0}}
SwapBytes(w)  == {(k + 8) % 16 : k \in w}

-----------------------------------------------------------------------------
(* crc16_using_poly().                                                     *)

CRC16_CCITT_POLY == {3, 10, 15}

\* Fault: the two bits are compared the wrong way round.
ShiftBit_Equal(crc, bit) ==
  IF (0 \in crc) = bit THEN Xor(ShiftRight(crc), CRC16_CCITT_POLY) ELSE ShiftRight(crc)

ShiftBit(crc, bit) ==
  IF (0 \in crc) # bit THEN Xor(ShiftRight(crc), CRC16_CCITT_POLY) ELSE ShiftRight(crc)

\* shifted[k] is the register after k bits.
ShiftByte(crc, byte) ==
  LET shifted[k \in 0 .. 8] ==
        IF k = 0 THEN crc ELSE ShiftBit(shifted[k - 1], (k - 1) \in byte)
  IN  shifted[8]

\* The register, preset to all ones, after the block.
ShiftData(data) ==
  LET shifted[k \in 0 .. Len(data)] ==
        IF k = 0 THEN Word ELSE ShiftByte(shifted[k - 1], Bits(data[k]))
  IN  shifted[Len(data)]

\* Fault: the loop ends one byte early.
crc16_using_poly_Short(data) ==
  IF data = <<>> THEN {} ELSE SwapBytes(Word \ ShiftData(Front(data)))

\* Complemented and its two bytes exchanged at the end.
crc16_using_poly(data) == IF data = <<>> THEN {} ELSE SwapBytes(Word \ ShiftData(data))

\* The parameter `length' is an unsigned short, `size' is not.
get_crc16(data) == crc16_using_poly(SubSeq(data, 1, Len(data) % UshortRange))

-----------------------------------------------------------------------------
(* crc16_using_table(), which nothing calls.                               *)

crc16_table == <<
  \h0000, \h1021, \h2042, \h3063, \h4084, \h50a5, \h60c6, \h70e7,
  \h8108, \h9129, \ha14a, \hb16b, \hc18c, \hd1ad, \he1ce, \hf1ef,
  \h1231, \h0210, \h3273, \h2252, \h52b5, \h4294, \h72f7, \h62d6,
  \h9339, \h8318, \hb37b, \ha35a, \hd3bd, \hc39c, \hf3ff, \he3de,
  \h2462, \h3443, \h0420, \h1401, \h64e6, \h74c7, \h44a4, \h5485,
  \ha56a, \hb54b, \h8528, \h9509, \he5ee, \hf5cf, \hc5ac, \hd58d,
  \h3653, \h2672, \h1611, \h0630, \h76d7, \h66f6, \h5695, \h46b4,
  \hb75b, \ha77a, \h9719, \h8738, \hf7df, \he7fe, \hd79d, \hc7bc,
  \h48c4, \h58e5, \h6886, \h78a7, \h0840, \h1861, \h2802, \h3823,
  \hc9cc, \hd9ed, \he98e, \hf9af, \h8948, \h9969, \ha90a, \hb92b,
  \h5af5, \h4ad4, \h7ab7, \h6a96, \h1a71, \h0a50, \h3a33, \h2a12,
  \hdbfd, \hcbdc, \hfbbf, \heb9e, \h9b79, \h8b58, \hbb3b, \hab1a,
  \h6ca6, \h7c87, \h4ce4, \h5cc5, \h2c22, \h3c03, \h0c60, \h1c41,
  \hedae, \hfd8f, \hcdec, \hddcd, \had2a, \hbd0b, \h8d68, \h9d49,
  \h7e97, \h6eb6, \h5ed5, \h4ef4, \h3e13, \h2e32, \h1e51, \h0e70,
  \hff9f, \hefbe, \hdfdd, \hcffc, \hbf1b, \haf3a, \h9f59, \h8f78,
  \h9188, \h81a9, \hb1ca, \ha1eb, \hd10c, \hc12d, \hf14e, \he16f,
  \h1080, \h00a1, \h30c2, \h20e3, \h5004, \h4025, \h7046, \h6067,
  \h83b9, \h9398, \ha3fb, \hb3da, \hc33d, \hd31c, \he37f, \hf35e,
  \h02b1, \h1290, \h22f3, \h32d2, \h4235, \h5214, \h6277, \h7256,
  \hb5ea, \ha5cb, \h95a8, \h8589, \hf56e, \he54f, \hd52c, \hc50d,
  \h34e2, \h24c3, \h14a0, \h0481, \h7466, \h6447, \h5424, \h4405,
  \ha7db, \hb7fa, \h8799, \h97b8, \he75f, \hf77e, \hc71d, \hd73c,
  \h26d3, \h36f2, \h0691, \h16b0, \h6657, \h7676, \h4615, \h5634,
  \hd94c, \hc96d, \hf90e, \he92f, \h99c8, \h89e9, \hb98a, \ha9ab,
  \h5844, \h4865, \h7806, \h6827, \h18c0, \h08e1, \h3882, \h28a3,
  \hcb7d, \hdb5c, \heb3f, \hfb1e, \h8bf9, \h9bd8, \habbb, \hbb9a,
  \h4a75, \h5a54, \h6a37, \h7a16, \h0af1, \h1ad0, \h2ab3, \h3a92,
  \hfd2e, \hed0f, \hdd6c, \hcd4d, \hbdaa, \had8b, \h9de8, \h8dc9,
  \h7c26, \h6c07, \h5c64, \h4c45, \h3ca2, \h2c83, \h1ce0, \h0cc1,
  \hef1f, \hff3e, \hcf5d, \hdf7c, \haf9b, \hbfba, \h8fd9, \h9ff8,
  \h6e17, \h7e36, \h4e55, \h5e74, \h2e93, \h3eb2, \h0ed1, \h1ef0 >>

Low8(w)  == w \cap (0 .. 7)
High8(w) == {k - 8 : k \in w \cap (8 .. 15)}

\* Entry of the table for a byte given by its bits.
Entry(byte) == Bits(crc16_table[1 + MapThenSumSet(LAMBDA k : 2^k, byte)])

\* Fault: the entry is looked up with the lower byte.
TableByte_Low(crc, byte) == Xor({k + 8 : k \in Low8(crc)}, Entry(Xor(Low8(crc), byte)))

TableByte(crc, byte) == Xor({k + 8 : k \in Low8(crc)}, Entry(Xor(High8(crc), byte)))

\* crc[k] is the sum after k bytes.
crc16_using_table(data) ==
  LET crc[k \in 0 .. Len(data)] ==
        IF k = 0 THEN {} ELSE TableByte(crc[k - 1], Low8(Bits(data[k])))
  IN  crc[Len(data)]

-----------------------------------------------------------------------------
(* Reference: the remainder of a polynomial over the field of two elements *)
(* by x^16 + x^12 + x^5 + 1, a polynomial being the set of its exponents.  *)

\* x^k modulo the generator.
PowerMod[k \in Nat] ==
  IF k < 16 THEN {k}
  ELSE LET q == {e + 1 : e \in PowerMod[k - 1]}
       IN  IF 16 \in q THEN Xor(q \ {16}, {12, 5, 0}) ELSE q

\* A sum of powers has x^e when an odd number of them has.
Remainder(poly, degree) ==
  LET power == [k \in 0 .. degree |-> PowerMod[k]]
  IN  {e \in Word : Quantify(poly, LAMBDA k : e \in power[k]) % 2 = 1}

\* Each entry of the table is the remainder of its index times x^16.
EntriesRight == \A byte \in SUBSET (0 .. 7) : Entry(byte) = Remainder({k + 16 : k \in byte}, 23)

\* The least significant bit of each byte comes first, the first 16
\* coefficients are complemented, and so is the remainder, which is read
\* backwards.
ReferencePoly(data) ==
  LET n == 8 * Len(data)
      bit(p) == ((p % 8) \in Bits(data[1 + p \div 8]))
      block == {n + 15 - p : p \in {q \in 0 .. n - 1 : bit(q)}}
  IN  SwapBytes(Word \ {15 - e : e \in Remainder(Xor(block, n .. n + 15), n + 15)})

\* The most significant bit of each byte comes first.
ReferenceTable(data) ==
  LET n == 8 * Len(data)
      bit(p) == ((7 - (p % 8)) \in Bits(data[1 + p \div 8]))
  IN  Remainder({n + 15 - p : p \in {q \in 0 .. n - 1 : bit(q)}}, n + 15)
=============================================================================
