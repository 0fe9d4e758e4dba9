---------------------------- MODULE PacketsProofs ----------------------------
(***************************************************************************)
(* Proofs about Packets, for messages of any size: what arrives of the     *)
(* arguments, and what the checksum says of them.                          *)
(*                                                                         *)
(* What has to be shown by induction is shown of the least number for      *)
(* which it would not hold.                                                *)
(***************************************************************************)
EXTENDS Packets, FiniteSetTheorems, SequenceTheorems, WellFoundedInduction, TLAPS

\* Every set of numbers has a least one.
LEMMA LeastNumber ==
  ASSUME NEW T \in SUBSET Nat, T # {}
  PROVE  \E x \in T : \A y \in T : x <= y
<1>1. PICK x \in T : \A y \in T : ~(<<y, x>> \in OpToRel(<, Nat))
  BY WFMin, NatLessThanWellFounded
<1>2. \A y \in T : x \in Nat /\ y \in Nat /\ ~(y < x)
  BY <1>1 DEF OpToRel
<1>3. \A y \in T : x <= y
  BY <1>2
<1>. QED BY <1>3

\* Induction: a set of numbers up to n that has 0, and with each number the next.
LEMMA AllReached ==
  ASSUME NEW n \in Nat, NEW S, 0 \in S, \A k \in 0 .. n - 1 : k \in S => k + 1 \in S
  PROVE  0 .. n \subseteq S
<1>. SUFFICES ASSUME (0 .. n) \ S # {} PROVE FALSE
  OBVIOUS
<1>1. PICK x \in (0 .. n) \ S : \A y \in (0 .. n) \ S : x <= y
  <2>1. (0 .. n) \ S \in SUBSET Nat
    OBVIOUS
  <2>. QED BY <2>1, LeastNumber
<1>2. x # 0 /\ x - 1 \in 0 .. n - 1 /\ ~(x <= x - 1) /\ (x - 1) + 1 = x
  BY <1>1
<1>. QED BY <1>1, <1>2

-----------------------------------------------------------------------------
(* What arrives.                                                           *)

Inv ==
  /\ message \in Messages
  /\ stage \in {"new", "built", "received"}
  /\ stage = "built" => \E junk \in Junk : \E crc : buffer = buildBuffer(message, junk, crc)
  /\ stage = "received" =>
       \E junk \in Junk : \E crc : received = receiveMessage(Packet(buildBuffer(message, junk, crc)), Pointer)

LEMMA InitInv == Init => Inv
BY DEF Init, Inv

LEMMA StepInv == Inv /\ [Next]_vars => Inv'
<1>. SUFFICES ASSUME Inv, [Next]_vars PROVE Inv'
  OBVIOUS
<1>1. CASE Build
  BY <1>1 DEF Build, Inv
<1>2. CASE Deliver
  BY <1>2 DEF Deliver, Inv
<1>3. CASE UNCHANGED vars
  BY <1>3 DEF vars, Inv
<1>. QED BY <1>1, <1>2, <1>3 DEF Next

\* Of the arguments a byte that was never written arrives, then all but the last.
LEMMA Arrives ==
  ASSUME NEW m \in Messages, NEW junk \in Junk, NEW crc
  PROVE  LET r == receiveMessage(Packet(buildBuffer(m, junk, crc)), Pointer)
             n == Len(m.arguments)
         IN  \A k \in 1 .. n :
               SubSeq(r.arguments, 1, n)[k] = IF k = 1 THEN junk ELSE m.arguments[k - 1]
<1>. DEFINE n == Len(m.arguments)
            built == buildBuffer(m, junk, crc)
            packet == Packet(built)
            unpacked == buildMessage(packet)
            r == receiveMessage(packet, Pointer)
<1>1. /\ m \in Message /\ m.arguments \in Seq(Byte) /\ n \in Nat /\ junk \in Byte
      /\ m.header.argumentsSize = n
      /\ m.header.type = 1 => n = LoginSize
      /\ m.header.type = 2 => n = RegisterSize
      /\ Pointer \in Seq(Byte)
  BY PacketsAssumption DEF PacketsAssumption, Message
<1>2. /\ built.header.argumentsSize = n /\ built.header.type = m.header.type
      /\ built.bytes = <<junk>> \o m.arguments
      /\ built = [header |-> built.header, bytes |-> built.bytes]
  BY <1>1 DEF buildBuffer, Message
<1>. HIDE DEF built
<1>3. /\ packet.header = built.header
      /\ packet.bytes = SubSeq(<<junk>> \o m.arguments, 1, n)
  BY <1>2 DEF Packet
<1>. HIDE DEF packet
<1>4. /\ unpacked.header = built.header
      /\ unpacked.arguments = SubSeq(SubSeq(<<junk>> \o m.arguments, 1, n), 1, n)
  BY <1>2, <1>3 DEF buildMessage
<1>5. /\ <<junk>> \o m.arguments \in Seq(Byte) /\ Len(<<junk>> \o m.arguments) = n + 1
      /\ \A k \in 1 .. n + 1 : (<<junk>> \o m.arguments)[k] = IF k = 1 THEN junk ELSE m.arguments[k - 1]
  <2>1. <<junk>> \in Seq(Byte) /\ Len(<<junk>>) = 1 /\ <<junk>>[1] = junk
    BY <1>1
  <2>2. /\ <<junk>> \o m.arguments \in Seq(Byte)
        /\ Len(<<junk>> \o m.arguments) = Len(<<junk>>) + n
        /\ \A k \in 1 .. Len(<<junk>>) + n :
             (<<junk>> \o m.arguments)[k] = IF k <= Len(<<junk>>) THEN <<junk>>[k] ELSE m.arguments[k - Len(<<junk>>)]
    BY <1>1, <2>1, ConcatProperties
  <2>3. ASSUME NEW k \in 1 .. n + 1
        PROVE  (<<junk>> \o m.arguments)[k] = IF k = 1 THEN junk ELSE m.arguments[k - 1]
    BY <1>1, <2>1, <2>2
  <2>. QED BY <1>1, <2>1, <2>2, <2>3
<1>. DEFINE bytes == <<junk>> \o m.arguments
<1>6. ASSUME NEW s \in Seq(Byte), Len(s) >= n
      PROVE  /\ SubSeq(s, 1, n) \in Seq(Byte) /\ Len(SubSeq(s, 1, n)) = n
             /\ \A k \in 1 .. n : SubSeq(s, 1, n)[k] = s[k]
  <2>1. \A k \in 1 .. n : s[k] \in Byte
    BY <1>1, <1>6
  <2>. QED BY <1>1, <2>1, SubSeqProperties
<1>. HIDE DEF bytes
<1>. DEFINE once == SubSeq(bytes, 1, n)
            twice == SubSeq(once, 1, n)
<1>7. once \in Seq(Byte) /\ Len(once) = n /\ \A k \in 1 .. n : once[k] = bytes[k]
  BY <1>1, <1>5, <1>6 DEF bytes
<1>. HIDE DEF once
<1>8. twice \in Seq(Byte) /\ Len(twice) = n /\ \A k \in 1 .. n : twice[k] = bytes[k]
  BY <1>1, <1>6, <1>7
<1>9. unpacked.arguments = twice
  BY <1>4 DEF twice, once, bytes
<1>. HIDE DEF twice, unpacked
<1>10. r.arguments \in Seq(Byte) /\ Len(r.arguments) >= n /\ \A k \in 1 .. n : r.arguments[k] = bytes[k]
  <2>1. CASE m.header.type \notin {1, 2}
    <3>1. r = unpacked
      BY <1>2, <1>4, <2>1 DEF receiveMessage, unpacked
    <3>. QED BY <1>1, <1>8, <1>9, <3>1
  <2>2. CASE m.header.type \in {1, 2}
    <3>1. r.arguments = SubSeq(twice, 1, n) \o Pointer
      BY <1>1, <1>2, <1>4, <1>9, <2>2 DEF receiveMessage, unpacked
    <3>2. /\ SubSeq(twice, 1, n) \in Seq(Byte) /\ Len(SubSeq(twice, 1, n)) = n
          /\ \A k \in 1 .. n : SubSeq(twice, 1, n)[k] = twice[k]
      BY <1>1, <1>6, <1>8
    <3>. DEFINE front == SubSeq(twice, 1, n)
    <3>. HIDE DEF front
    <3>3. /\ front \o Pointer \in Seq(Byte) /\ Len(front \o Pointer) = Len(front) + Len(Pointer)
          /\ \A k \in 1 .. Len(front) + Len(Pointer) :
               (front \o Pointer)[k] = IF k <= Len(front) THEN front[k] ELSE Pointer[k - Len(front)]
      BY <1>1, <3>2, ConcatProperties DEF front
    <3>4. Len(Pointer) \in Nat /\ Len(front) = n /\ \A k \in 1 .. n : front[k] = twice[k]
      BY <1>1, <3>2 DEF front
    <3>5. \A k \in 1 .. n : (front \o Pointer)[k] = bytes[k]
      BY <1>1, <1>8, <3>3, <3>4
    <3>. QED BY <1>1, <3>1, <3>3, <3>4, <3>5 DEF front
  <2>. QED BY <2>1, <2>2
<1>11. \A k \in 1 .. n : SubSeq(r.arguments, 1, n)[k] = bytes[k]
  BY <1>6, <1>10
<1>12. \A k \in 1 .. n : SubSeq(r.arguments, 1, n)[k] = IF k = 1 THEN junk ELSE m.arguments[k - 1]
  <2>1. \A k \in 1 .. n + 1 : bytes[k] = IF k = 1 THEN junk ELSE m.arguments[k - 1]
    BY <1>5 DEF bytes
  <2>2. \A k \in 1 .. n : k \in 1 .. n + 1
    BY <1>1
  <2>. HIDE DEF r, n
  <2>. QED BY <1>11, <2>1, <2>2
<1>. QED BY <1>12 DEF packet, built

\* Nothing that is sent arrives as it was sent but what consists of one byte, however
\* often repeated: what receiveMessage() finds is one byte further.
THEOREM ShiftedByOne == Spec => []UnchangedOnlyIfUniform
<1>1. Inv => UnchangedOnlyIfUniform
  <2>. SUFFICES ASSUME Inv, stage = "received",
                       SubSeq(received.arguments, 1, Len(message.arguments)) = message.arguments
                PROVE  \A j, k \in DOMAIN message.arguments : message.arguments[j] = message.arguments[k]
    BY DEF UnchangedOnlyIfUniform
  <2>. DEFINE a == message.arguments
              n == Len(a)
  <2>1. a \in Seq(Byte) /\ DOMAIN a = 1 .. n /\ n \in Nat
    BY PacketsAssumption DEF PacketsAssumption, Message, Inv
  <2>2. PICK junk \in Junk : \E crc : received = receiveMessage(Packet(buildBuffer(message, junk, crc)), Pointer)
    BY DEF Inv
  <2>3. \A k \in 1 .. n : a[k] = IF k = 1 THEN junk ELSE a[k - 1]
    BY <2>2, Arrives DEF Inv
  <2>. HIDE DEF a, n
  <2>. DEFINE S == {k \in 0 .. n : k # 0 => a[k] = junk}
  <2>4. 0 \in S
    BY <2>1
  <2>5. ASSUME NEW k \in 0 .. n - 1, k \in S PROVE k + 1 \in S
    <3>1. k + 1 \in 1 .. n /\ (k + 1) - 1 = k /\ (k + 1 = 1 <=> k = 0)
      BY <2>1
    <3>. QED BY <2>1, <2>3, <2>5, <3>1
  <2>. HIDE DEF S
  <2>6. 0 .. n \subseteq S
    BY <2>1, <2>4, <2>5, AllReached
  <2>7. \A k \in 1 .. n : a[k] = junk
    BY <2>1, <2>6 DEF S
  <2>. QED BY <2>1, <2>7 DEF a
<1>. QED BY <1>1, InitInv, StepInv, PTL DEF Spec

-----------------------------------------------------------------------------
(* The register of crc16_using_poly().                                     *)

Registers == SUBSET Word

\* What is computed in n steps, from w, is a sequence of n + 1 values.
LEMMA Iterates ==
  ASSUME NEW W, NEW w \in W, NEW n \in Nat, NEW F \in [1 .. n -> [W -> W]]
  PROVE  \E f \in [0 .. n -> W] : f[0] = w /\ \A k \in 1 .. n : f[k] = F[k][f[k - 1]]
<1>. DEFINE S == {m \in 0 .. n : \E f \in [0 .. m -> W] : f[0] = w /\ \A k \in 1 .. m : f[k] = F[k][f[k - 1]]}
<1>1. 0 \in S
  <2>1. [k \in 0 .. 0 |-> w] \in [0 .. 0 -> W] /\ [k \in 0 .. 0 |-> w][0] = w
    OBVIOUS
  <2>2. \A f : \A k \in 1 .. 0 : f[k] = F[k][f[k - 1]]
    OBVIOUS
  <2>3. \E f \in [0 .. 0 -> W] : f[0] = w /\ \A k \in 1 .. 0 : f[k] = F[k][f[k - 1]]
    BY <2>1, <2>2
  <2>. QED BY <2>3
<1>2. ASSUME NEW m \in 0 .. n - 1, m \in S PROVE m + 1 \in S
  <2>1. PICK f \in [0 .. m -> W] : f[0] = w /\ \A k \in 1 .. m : f[k] = F[k][f[k - 1]]
    BY <1>2
  <2>. DEFINE g == [k \in 0 .. m + 1 |-> IF k = m + 1 THEN F[m + 1][f[m]] ELSE f[k]]
  <2>2. m + 1 \in 1 .. n /\ F[m + 1] \in [W -> W] /\ f[m] \in W
    BY <1>2
  <2>3. g \in [0 .. m + 1 -> W]
    BY <2>2
  <2>4. g[0] = w
    BY <2>1
  <2>5. ASSUME NEW k \in 1 .. m + 1 PROVE g[k] = F[k][g[k - 1]]
    <3>1. k - 1 \in 0 .. m /\ g[k - 1] = f[k - 1]
      OBVIOUS
    <3>2. CASE k = m + 1
      <4>1. k - 1 = m
        BY <3>2
      <4>. QED BY <3>1, <3>2, <4>1
    <3>3. CASE k # m + 1
      <4>1. k \in 1 .. m
        BY <3>3
      <4>. QED BY <2>1, <3>1, <3>3, <4>1
    <3>. QED BY <3>2, <3>3
  <2>. HIDE DEF g
  <2>. QED BY <2>2, <2>3, <2>4, <2>5
<1>. HIDE DEF S
<1>3. n \in S
  <2>1. 0 .. n \subseteq S
    BY <1>1, <1>2, AllReached
  <2>. QED BY <2>1
<1>. QED BY <1>3 DEF S

\* A register stays one.
LEMMA BitType == \A c \in Registers : \A bit : ShiftBit(c, bit) \in Registers
<1>1. \A c \in Registers : ShiftRight(c) \in Registers
  BY DEF ShiftRight, Registers, Word
<1>2. \A a, b \in Registers : Xor(a, b) \in Registers
  BY DEF Xor, SymDiff, Registers
<1>3. CRC16_CCITT_POLY \in Registers
  BY DEF CRC16_CCITT_POLY, Registers, Word
<1>. QED BY <1>1, <1>2, <1>3 DEF ShiftBit

\* The registers between the bits of a byte.
LEMMA ByteSteps ==
  ASSUME NEW c \in Registers, NEW byte
  PROVE  \E f \in [0 .. 8 -> Registers] :
           /\ f[0] = c /\ f[8] = ShiftByte(c, byte)
           /\ \A k \in 0 .. 7 : f[k + 1] = ShiftBit(f[k], k \in byte)
<1>. DEFINE P(g) == g = [k \in 0 .. 8 |-> IF k = 0 THEN c ELSE ShiftBit(g[k - 1], (k - 1) \in byte)]
            F == [k \in 1 .. 8 |-> [x \in Registers |-> ShiftBit(x, (k - 1) \in byte)]]
            h == CHOOSE g : P(g)
<1>1. F \in [1 .. 8 -> [Registers -> Registers]]
  BY BitType
<1>2. PICK f \in [0 .. 8 -> Registers] : f[0] = c /\ \A k \in 1 .. 8 : f[k] = F[k][f[k - 1]]
  <2>1. \A n \in Nat : \A G \in [1 .. n -> [Registers -> Registers]] :
          \E f \in [0 .. n -> Registers] : f[0] = c /\ \A k \in 1 .. n : f[k] = G[k][f[k - 1]]
    BY Iterates
  <2>2. \A G \in [1 .. 8 -> [Registers -> Registers]] :
          \E f \in [0 .. 8 -> Registers] : f[0] = c /\ \A k \in 1 .. 8 : f[k] = G[k][f[k - 1]]
    <3>1. 8 \in Nat
      OBVIOUS
    <3>. QED BY <2>1, <3>1, Zenon
  <2>. QED BY <1>1, <2>2, Zenon
<1>3. \A k \in 1 .. 8 : f[k] = ShiftBit(f[k - 1], (k - 1) \in byte)
  BY <1>2
<1>4. P(f)
  BY <1>2, <1>3
<1>5. P(h)
  BY <1>4
<1>6. ShiftByte(c, byte) = h[8]
  BY DEF ShiftByte
<1>. HIDE DEF h
<1>7. h[0] = c /\ \A k \in 1 .. 8 : h[k] = ShiftBit(h[k - 1], (k - 1) \in byte)
  BY <1>5
<1>. DEFINE S == {k \in 0 .. 8 : h[k] \in Registers}
<1>8. 0 \in S
  BY <1>7
<1>9. ASSUME NEW k \in 0 .. 7, k \in S PROVE k + 1 \in S
  <2>1. h[k + 1] = ShiftBit(h[k], k \in byte)
    BY <1>7
  <2>. QED BY <1>9, <2>1, BitType
<1>10. 0 .. 8 \subseteq S
  <2>1. 8 \in Nat /\ \A k \in 0 .. 8 - 1 : k \in S => k + 1 \in S
    BY <1>9
  <2>. HIDE DEF S
  <2>. QED BY <1>8, <2>1, AllReached
<1>11. h \in [0 .. 8 -> Registers]
  BY <1>5, <1>10
<1>12. \A k \in 0 .. 7 : h[k + 1] = ShiftBit(h[k], k \in byte)
  BY <1>7
<1>. QED BY <1>6, <1>7, <1>11, <1>12

\* One bit: the new register tells whether the generator was added, and with that all
\* but the lowest bit of the old one.
LEMMA BitBack ==
  ASSUME NEW s \in Registers, NEW t \in Registers, NEW p \in BOOLEAN, NEW q \in BOOLEAN,
         15 \in ShiftBit(s, p) <=> 15 \in ShiftBit(t, q)
  PROVE  /\ ((0 \in s) # (0 \in t)) <=> (p # q)
         /\ \A e \in 0 .. 14 :
              ((e \in ShiftBit(s, p)) # (e \in ShiftBit(t, q))) <=> ((e + 1 \in s) # (e + 1 \in t))
<1>1. \A c \in Registers : \A e \in Word : e \in ShiftRight(c) <=> e # 15 /\ e + 1 \in c
  BY DEF Registers, Word, ShiftRight
<1>2. \A c \in Registers : \A bit \in BOOLEAN : \A e \in Word :
        e \in ShiftBit(c, bit) <=> ((e \in ShiftRight(c)) # (((0 \in c) # bit) /\ e \in CRC16_CCITT_POLY))
  BY DEF ShiftBit, Xor, SymDiff
<1>3. 15 \in Word /\ 15 \in CRC16_CCITT_POLY /\ \A e \in 0 .. 14 : e \in Word /\ e # 15
  BY DEF Word, CRC16_CCITT_POLY
<1>4. ((0 \in s) # p) <=> ((0 \in t) # q)
  <2>1. \A c \in Registers : \A bit \in BOOLEAN : 15 \in ShiftBit(c, bit) <=> ((0 \in c) # bit)
    BY <1>1, <1>2, <1>3
  <2>. QED BY <2>1
<1>5. ((0 \in s) # (0 \in t)) <=> (p # q)
  BY <1>4
<1>6. ASSUME NEW e \in 0 .. 14
      PROVE  ((e \in ShiftBit(s, p)) # (e \in ShiftBit(t, q))) <=> ((e + 1 \in s) # (e + 1 \in t))
  <2>1. /\ e \in ShiftBit(s, p) <=> ((e + 1 \in s) # (((0 \in s) # p) /\ e \in CRC16_CCITT_POLY))
        /\ e \in ShiftBit(t, q) <=> ((e + 1 \in t) # (((0 \in t) # q) /\ e \in CRC16_CCITT_POLY))
    BY <1>1, <1>2, <1>3
  <2>. QED BY <1>4, <2>1
<1>. QED BY <1>5, <1>6

\* A byte: registers that are the same after it differed before it as the bytes did.
LEMMA ByteBack ==
  ASSUME NEW s \in Registers, NEW t \in Registers, NEW a \in SUBSET (0 .. 7), NEW b \in SUBSET (0 .. 7),
         ShiftByte(s, a) = ShiftByte(t, b)
  PROVE  (a = b <=> s = t)
<1>1. PICK f \in [0 .. 8 -> Registers] :
        f[0] = s /\ f[8] = ShiftByte(s, a) /\ \A k \in 0 .. 7 : f[k + 1] = ShiftBit(f[k], k \in a)
  BY ByteSteps
<1>2. PICK g \in [0 .. 8 -> Registers] :
        g[0] = t /\ g[8] = ShiftByte(t, b) /\ \A k \in 0 .. 7 : g[k + 1] = ShiftBit(g[k], k \in b)
  BY ByteSteps
<1>. DEFINE Same(i) == \A e \in Word : ((e \in f[8 - i]) # (e \in g[8 - i])) <=> ((e + 8 - i \in a) # (e + 8 - i \in b))
            S == {i \in 0 .. 8 : Same(i)}
<1>3. 0 \in S
  <2>1. f[8 - 0] = g[8 - 0]
    BY <1>1, <1>2
  <2>2. \A e \in Word : e + 8 - 0 \notin a /\ e + 8 - 0 \notin b
    BY DEF Word
  <2>3. Same(0)
    BY <2>1, <2>2
  <2>. QED BY <2>3
<1>4. ASSUME NEW i \in 0 .. 7, i \in S PROVE i + 1 \in S
  <2>. DEFINE k == 7 - i
  <2>1. k \in 0 .. 7 /\ 8 - i = k + 1 /\ 8 - (i + 1) = k
    OBVIOUS
  <2>. HIDE DEF k
  <2>2. \A e \in Word : ((e \in f[k + 1]) # (e \in g[k + 1])) <=> ((e + (k + 1) \in a) # (e + (k + 1) \in b))
    <3>1. \A e \in Word : e + 8 - i = e + (k + 1)
      BY <2>1 DEF Word
    <3>. QED BY <1>4, <2>1, <3>1
  <2>3. f[k] \in Registers /\ g[k] \in Registers /\ (k \in a) \in BOOLEAN /\ (k \in b) \in BOOLEAN
    BY <2>1
  <2>4. f[k + 1] = ShiftBit(f[k], k \in a) /\ g[k + 1] = ShiftBit(g[k], k \in b)
    BY <1>1, <1>2, <2>1
  <2>5. 15 \in f[k + 1] <=> 15 \in g[k + 1]
    <3>1. 15 \in Word /\ 15 + (k + 1) \notin a /\ 15 + (k + 1) \notin b
      BY <2>1 DEF Word
    <3>2. (15 \in f[k + 1]) # (15 \in g[k + 1]) <=> (15 + (k + 1) \in a) # (15 + (k + 1) \in b)
      BY <2>2, <3>1
    <3>. QED BY <3>1, <3>2
  <2>6. /\ ((0 \in f[k]) # (0 \in g[k])) <=> ((k \in a) # (k \in b))
        /\ \A e \in 0 .. 14 : ((e \in f[k + 1]) # (e \in g[k + 1])) <=> ((e + 1 \in f[k]) # (e + 1 \in g[k]))
    <3>. DEFINE u == f[k]
                v == g[k]
                p == k \in a
                q == k \in b
    <3>1. u \in Registers /\ v \in Registers /\ p \in BOOLEAN /\ q \in BOOLEAN
      BY <2>3
    <3>2. f[k + 1] = ShiftBit(u, p) /\ g[k + 1] = ShiftBit(v, q)
      BY <2>4
    <3>3. /\ ((0 \in u) # (0 \in v)) <=> (p # q)
          /\ \A e \in 0 .. 14 :
               ((e \in ShiftBit(u, p)) # (e \in ShiftBit(v, q))) <=> ((e + 1 \in u) # (e + 1 \in v))
      <4>1. 15 \in ShiftBit(u, p) <=> 15 \in ShiftBit(v, q)
        BY <2>5, <3>2
      <4>. HIDE DEF u, v, p, q
      <4>. QED BY <3>1, <4>1, BitBack
    <3>. QED BY <3>2, <3>3
  <2>7. ASSUME NEW e \in Word PROVE ((e \in f[k]) # (e \in g[k])) <=> ((e + k \in a) # (e + k \in b))
    <3>1. CASE e = 0
      <4>1. e + k = k
        BY <2>1, <3>1
      <4>. QED BY <2>6, <3>1, <4>1
    <3>2. CASE e # 0
      <4>1. e - 1 \in 0 .. 14 /\ e - 1 \in Word /\ (e - 1) + 1 = e /\ (e - 1) + (k + 1) = e + k
        BY <2>1, <3>2 DEF Word
      <4>. QED BY <2>2, <2>6, <4>1
    <3>. QED BY <3>1, <3>2
  <2>8. \A e \in Word : e + 8 - (i + 1) = e + k
    BY <2>1 DEF Word
  <2>. QED BY <2>1, <2>7, <2>8
<1>5. 8 \in S
  <2>1. 8 \in Nat /\ \A i \in 0 .. 8 - 1 : i \in S => i + 1 \in S
    BY <1>4
  <2>. HIDE DEF S
  <2>2. 0 .. 8 \subseteq S
    BY <1>3, <2>1, AllReached
  <2>. QED BY <2>2
<1>6. \A e \in Word : ((e \in s) # (e \in t)) <=> ((e \in a) # (e \in b))
  <2>1. \A e \in Word : e + 8 - 8 = e
    BY DEF Word
  <2>2. f[8 - 8] = s /\ g[8 - 8] = t
    BY <1>1, <1>2
  <2>. QED BY <1>5, <2>1, <2>2
<1>7. s \subseteq Word /\ t \subseteq Word /\ a \subseteq Word /\ b \subseteq Word
  BY DEF Word, Registers
<1>. QED BY <1>6, <1>7

\* A register stays one, byte for byte.
LEMMA ByteType == ASSUME NEW c \in Registers, NEW byte PROVE ShiftByte(c, byte) \in Registers
BY ByteSteps

\* The registers between the bytes of a block.
LEMMA DataSteps ==
  ASSUME NEW data \in Seq(Byte)
  PROVE  \E f \in [0 .. Len(data) -> Registers] :
           /\ f[0] = Word /\ f[Len(data)] = ShiftData(data)
           /\ \A k \in 1 .. Len(data) : f[k] = ShiftByte(f[k - 1], Bits(data[k]))
<1>. DEFINE n == Len(data)
            P(g) == g = [k \in 0 .. n |-> IF k = 0 THEN Word ELSE ShiftByte(g[k - 1], Bits(data[k]))]
            F == [k \in 1 .. n |-> [x \in Registers |-> ShiftByte(x, Bits(data[k]))]]
            h == CHOOSE g : P(g)
<1>1. F \in [1 .. n -> [Registers -> Registers]]
  BY ByteType
<1>2. n \in Nat /\ Word \in Registers
  BY DEF Registers
<1>3. PICK f \in [0 .. n -> Registers] : f[0] = Word /\ \A k \in 1 .. n : f[k] = F[k][f[k - 1]]
  <2>. HIDE DEF F, n
  <2>. QED BY <1>1, <1>2, Iterates
<1>4. \A k \in 1 .. n : f[k] = ShiftByte(f[k - 1], Bits(data[k]))
  <2>1. \A k \in 1 .. n : f[k - 1] \in Registers
    BY <1>2
  <2>. QED BY <1>3, <2>1
<1>5. ShiftData(data) = h[n]
  BY DEF ShiftData
<1>. HIDE DEF n, F
<1>6. P(f)
  BY <1>2, <1>3, <1>4
<1>7. P(h)
  BY <1>6
<1>. HIDE DEF h
<1>8. h[0] = Word /\ \A k \in 1 .. n : h[k] = ShiftByte(h[k - 1], Bits(data[k]))
  BY <1>2, <1>7
<1>. DEFINE S == {k \in 0 .. n : h[k] \in Registers}
<1>9. 0 \in S
  BY <1>2, <1>8
<1>10. ASSUME NEW k \in 0 .. n - 1, k \in S PROVE k + 1 \in S
  <2>1. k + 1 \in 1 .. n /\ (k + 1) - 1 = k
    BY <1>2
  <2>2. h[k + 1] = ShiftByte(h[k], Bits(data[k + 1]))
    BY <1>8, <2>1
  <2>. QED BY <1>10, <2>1, <2>2, ByteType
<1>11. 0 .. n \subseteq S
  <2>. HIDE DEF S
  <2>. QED BY <1>2, <1>9, <1>10, AllReached
<1>12. h \in [0 .. n -> Registers]
  BY <1>7, <1>11
<1>. QED BY <1>5, <1>8, <1>12 DEF n

\* A byte is its eight bits.
LEMMA BitsOfByte ==
  /\ \A a \in Byte : Bits(a) \in SUBSET (0 .. 7)
  /\ \A a, b \in Byte : Bits(a) = Bits(b) => a = b
<1>1. /\ 2^0 = 1 /\ 2^1 = 2 /\ 2^2 = 4 /\ 2^3 = 8 /\ 2^4 = 16 /\ 2^5 = 32 /\ 2^6 = 64 /\ 2^7 = 128
  OBVIOUS
<1>2. /\ 2^8 = 256 /\ 2^9 = 512 /\ 2^10 = 1024 /\ 2^11 = 2048 /\ 2^12 = 4096 /\ 2^13 = 8192
      /\ 2^14 = 16384 /\ 2^15 = 32768
  OBVIOUS
<1>3. ASSUME NEW a \in Byte PROVE Bits(a) \in SUBSET (0 .. 7)
  <2>1. /\ a \div 256 = 0 /\ a \div 512 = 0 /\ a \div 1024 = 0 /\ a \div 2048 = 0 /\ a \div 4096 = 0
        /\ a \div 8192 = 0 /\ a \div 16384 = 0 /\ a \div 32768 = 0 /\ 0 % 2 = 0
    BY DEF Byte
  <2>2. /\ 8 \in Bits(a) => (a \div 2^8) % 2 = 1
        /\ 9 \in Bits(a) => (a \div 2^9) % 2 = 1
        /\ 10 \in Bits(a) => (a \div 2^10) % 2 = 1
        /\ 11 \in Bits(a) => (a \div 2^11) % 2 = 1
        /\ 12 \in Bits(a) => (a \div 2^12) % 2 = 1
        /\ 13 \in Bits(a) => (a \div 2^13) % 2 = 1
        /\ 14 \in Bits(a) => (a \div 2^14) % 2 = 1
        /\ 15 \in Bits(a) => (a \div 2^15) % 2 = 1
    BY DEF Bits
  <2>3. /\ 8 \notin Bits(a) /\ 9 \notin Bits(a) /\ 10 \notin Bits(a) /\ 11 \notin Bits(a)
        /\ 12 \notin Bits(a) /\ 13 \notin Bits(a) /\ 14 \notin Bits(a) /\ 15 \notin Bits(a)
    BY <1>2, <2>1, <2>2
  <2>4. Bits(a) \subseteq Word /\ \A k \in Word : k \in 0 .. 7 \/ k \in {8, 9, 10, 11, 12, 13, 14, 15}
    BY DEF Bits, Word
  <2>. QED BY <2>3, <2>4
<1>4. ASSUME NEW a \in Byte, NEW b \in Byte, Bits(a) = Bits(b) PROVE a = b
  <2>1. \A k \in 0 .. 7 : ((a \div 2^k) % 2 = 1) <=> ((b \div 2^k) % 2 = 1)
    <3>1. \A k \in 0 .. 7 : k \in Word
      BY DEF Word
    <3>. QED BY <1>4, <3>1 DEF Bits
  <2>2. /\ (a % 2 = 1) <=> (b % 2 = 1)
        /\ ((a \div 2) % 2 = 1) <=> ((b \div 2) % 2 = 1)
        /\ ((a \div 4) % 2 = 1) <=> ((b \div 4) % 2 = 1)
        /\ ((a \div 8) % 2 = 1) <=> ((b \div 8) % 2 = 1)
        /\ ((a \div 16) % 2 = 1) <=> ((b \div 16) % 2 = 1)
        /\ ((a \div 32) % 2 = 1) <=> ((b \div 32) % 2 = 1)
        /\ ((a \div 64) % 2 = 1) <=> ((b \div 64) % 2 = 1)
        /\ ((a \div 128) % 2 = 1) <=> ((b \div 128) % 2 = 1)
    <3>1. a \div 1 = a /\ b \div 1 = b
      BY DEF Byte
    <3>. QED BY <1>1, <2>1, <3>1
  <2>. DEFINE d(x, m) == (x \div m) % 2
  <2>3. ASSUME NEW x \in Byte
        PROVE  x = (x % 2) + 2 * d(x, 2) + 4 * d(x, 4) + 8 * d(x, 8) + 16 * d(x, 16) + 32 * d(x, 32)
                     + 64 * d(x, 64) + 128 * d(x, 128)
    BY DEF Byte
  <2>4. ASSUME NEW x \in Byte
        PROVE  /\ x % 2 \in {0, 1} /\ d(x, 2) \in {0, 1} /\ d(x, 4) \in {0, 1} /\ d(x, 8) \in {0, 1}
               /\ d(x, 16) \in {0, 1} /\ d(x, 32) \in {0, 1} /\ d(x, 64) \in {0, 1} /\ d(x, 128) \in {0, 1}
    BY DEF Byte
  <2>. HIDE DEF d
  <2>5. /\ a % 2 = b % 2 /\ d(a, 2) = d(b, 2) /\ d(a, 4) = d(b, 4) /\ d(a, 8) = d(b, 8)
        /\ d(a, 16) = d(b, 16) /\ d(a, 32) = d(b, 32) /\ d(a, 64) = d(b, 64) /\ d(a, 128) = d(b, 128)
    BY <2>2, <2>4 DEF d
  <2>. QED BY <2>3, <2>5
<1>. QED BY <1>3, <1>4

\* What is done to the register at the end can be undone.
LEMMA EndBack ==
  ASSUME NEW s \in Registers, NEW t \in Registers, SwapBytes(Word \ s) = SwapBytes(Word \ t)
  PROVE  s = t
<1>1. \A w \in Registers : \A k \in Word : k \in w <=> (k + 8) % 16 \in SwapBytes(w)
  <2>1. \A i, j \in Word : (i + 8) % 16 = (j + 8) % 16 => i = j
    BY DEF Word
  <2>. QED BY <2>1 DEF SwapBytes, Registers
<1>2. Word \ s \in Registers /\ Word \ t \in Registers /\ s \subseteq Word /\ t \subseteq Word
  BY DEF Registers
<1>3. \A k \in Word : k \in Word \ s <=> k \in Word \ t
  BY <1>1, <1>2
<1>. QED BY <1>2, <1>3

\* A block with one byte changed has another checksum.
LEMMA OneByteShows ==
  ASSUME NEW data \in Seq(Byte), NEW k \in 1 .. Len(data), NEW b \in Byte, b # data[k]
  PROVE  crc16_using_poly([data EXCEPT ![k] = b]) # crc16_using_poly(data)
<1>. DEFINE n == Len(data)
            other == [data EXCEPT ![k] = b]
<1>1. /\ n \in Nat /\ other \in Seq(Byte) /\ Len(other) = n
      /\ \A j \in 1 .. n : data[j] \in Byte /\ other[j] \in Byte
      /\ \A j \in 1 .. n : other[j] = IF j = k THEN b ELSE data[j]
  OBVIOUS
<1>. HIDE DEF other, n
<1>2. PICK f \in [0 .. n -> Registers] :
        /\ f[0] = Word /\ f[n] = ShiftData(data)
        /\ \A j \in 1 .. n : f[j] = ShiftByte(f[j - 1], Bits(data[j]))
  BY DataSteps DEF n
<1>3. PICK g \in [0 .. n -> Registers] :
        /\ g[0] = Word /\ g[n] = ShiftData(other)
        /\ \A j \in 1 .. n : g[j] = ShiftByte(g[j - 1], Bits(other[j]))
  BY <1>1, DataSteps
<1>. DEFINE S == {j \in 0 .. n : (f[j] = g[j]) <=> j < k}
<1>4. k \in 1 .. n
  BY DEF n
<1>5. 0 \in S
  BY <1>1, <1>2, <1>3, <1>4
<1>6. ASSUME NEW j \in 0 .. n - 1, j \in S PROVE j + 1 \in S
  <2>1. j + 1 \in 1 .. n /\ (j + 1) - 1 = j /\ j \in 0 .. n
    BY <1>1
  <2>2. f[j] \in Registers /\ g[j] \in Registers
    BY <2>1
  <2>. DEFINE x == data[j + 1]
              y == other[j + 1]
  <2>3. x \in Byte /\ y \in Byte
    BY <1>1, <2>1
  <2>4. Bits(x) \in SUBSET (0 .. 7) /\ Bits(y) \in SUBSET (0 .. 7)
    BY <2>3, BitsOfByte
  <2>5. f[j + 1] = ShiftByte(f[j], Bits(x)) /\ g[j + 1] = ShiftByte(g[j], Bits(y))
    BY <1>2, <1>3, <2>1
  <2>6. j + 1 = k <=> x # y
    BY <1>1, <1>4, <2>1
  <2>7. Bits(x) = Bits(y) <=> x = y
    BY <2>3, BitsOfByte
  <2>8. f[j + 1] = g[j + 1] => (Bits(x) = Bits(y) <=> f[j] = g[j])
    <3>. DEFINE u == Bits(x)
                v == Bits(y)
    <3>1. u \in SUBSET (0 .. 7) /\ v \in SUBSET (0 .. 7)
      BY <2>4
    <3>. HIDE DEF u, v
    <3>2. ShiftByte(f[j], u) = ShiftByte(g[j], v) => (u = v <=> f[j] = g[j])
      BY <2>2, <3>1, ByteBack
    <3>. QED BY <2>5, <3>2 DEF u, v
  <2>9. Bits(x) = Bits(y) /\ f[j] = g[j] => f[j + 1] = g[j + 1]
    BY <2>5
  <2>10. (f[j] = g[j]) <=> j < k
    BY <1>6
  <2>. HIDE DEF x, y
  <2>11. (f[j + 1] = g[j + 1]) <=> j + 1 < k
    BY <1>1, <1>4, <2>1, <2>6, <2>7, <2>8, <2>9, <2>10
  <2>. QED BY <2>1, <2>11
<1>7. f[n] # g[n]
  <2>. HIDE DEF S
  <2>1. 0 .. n \subseteq S
    BY <1>1, <1>5, <1>6, AllReached
  <2>. QED BY <1>1, <1>4, <2>1 DEF S
<1>8. f[n] \in Registers /\ g[n] \in Registers /\ data # <<>> /\ other # <<>>
  <2>1. \A s \in Seq(Byte) : Len(s) # 0 => s # <<>>
    OBVIOUS
  <2>. QED BY <1>1, <1>4, <2>1 DEF n
<1>. QED BY <1>2, <1>3, <1>7, <1>8, EndBack DEF crc16_using_poly, other

\* Any one wrong byte of a block shows in its checksum, unless the block is longer than
\* an unsigned short can say and the byte is beyond what get_crc16() looks at.
THEOREM OneByteDetected == Spec => []DetectsOneByte
<1>1. Inv => DetectsOneByte
  <2>. SUFFICES ASSUME Inv, NEW k \in DOMAIN Data, NEW b \in Junk, b # Data[k]
                PROVE  (get_crc16([Data EXCEPT ![k] = b]) # get_crc16(Data)) <=> k <= Len(Data) % UshortRange
    BY DEF DetectsOneByte
  <2>. DEFINE data == Data
              n == Len(data)
              m == n % UshortRange
              other == [data EXCEPT ![k] = b]
  <2>1. data \in Seq(Byte) /\ b \in Byte
    <3>1. Data \in Seq(Byte)
      BY PacketsAssumption DEF PacketsAssumption, Message, Inv, Data
    <3>. QED BY <3>1, PacketsAssumption DEF PacketsAssumption
  <2>. HIDE DEF data
  <2>2. /\ n \in Nat /\ k \in 1 .. n /\ b # data[k] /\ m \in 0 .. n
    <3>1. k \in DOMAIN data /\ b # data[k]
      BY DEF data
    <3>2. n \in Nat /\ DOMAIN data = 1 .. n
      BY <2>1
    <3>3. \A l \in Nat : \A u \in Nat \ {0} : l % u \in 0 .. l
      OBVIOUS
    <3>. QED BY <3>1, <3>2, <3>3, Crc16Assumption DEF Crc16Assumption
  <2>3. /\ other \in Seq(Byte) /\ Len(other) = n
        /\ \A j \in 1 .. n : data[j] \in Byte /\ other[j] \in Byte
        /\ \A j \in 1 .. n : other[j] = IF j = k THEN b ELSE data[j]
    BY <2>1, <2>2
  <2>. HIDE DEF other, n, m
  <2>. DEFINE first == SubSeq(data, 1, m)
              second == SubSeq(other, 1, m)
  <2>4. /\ first \in Seq(Byte) /\ Len(first) = m /\ \A j \in 1 .. m : first[j] = data[j]
        /\ second \in Seq(Byte) /\ Len(second) = m /\ \A j \in 1 .. m : second[j] = other[j]
    <3>1. \A j \in 1 .. m : j \in 1 .. n
      BY <2>2
    <3>2. first \in Seq(Byte) /\ Len(first) = m /\ \A j \in 1 .. m : first[j] = data[j]
      BY <2>1, <2>2, <2>3, <3>1, SubSeqProperties
    <3>3. second \in Seq(Byte) /\ Len(second) = m /\ \A j \in 1 .. m : second[j] = other[j]
      BY <2>1, <2>2, <2>3, <3>1, SubSeqProperties
    <3>. QED BY <3>2, <3>3
  <2>. HIDE DEF first, second
  <2>5. CASE k <= m
    <3>1. k \in 1 .. m /\ b # first[k]
      BY <2>2, <2>4, <2>5
    <3>2. second = [first EXCEPT ![k] = b]
      <4>1. /\ [first EXCEPT ![k] = b] \in Seq(Byte) /\ Len([first EXCEPT ![k] = b]) = m
            /\ \A j \in 1 .. m : [first EXCEPT ![k] = b][j] = IF j = k THEN b ELSE first[j]
        BY <2>1, <2>2, <2>4, <3>1
      <4>2. \A j \in 1 .. m : second[j] = [first EXCEPT ![k] = b][j]
        BY <2>2, <2>3, <2>4, <4>1
      <4>. QED BY <2>4, <4>1, <4>2, SeqEqual
    <3>3. crc16_using_poly(second) # crc16_using_poly(first)
      BY <2>1, <2>4, <3>1, <3>2, OneByteShows
    <3>. QED BY <2>5, <3>3 DEF get_crc16, first, second, other, data, m, n
  <2>6. CASE ~(k <= m)
    <3>1. second = first
      <4>1. \A j \in 1 .. m : second[j] = first[j]
        BY <2>2, <2>3, <2>4, <2>6
      <4>. QED BY <2>4, <4>1, SeqEqual
    <3>2. get_crc16([Data EXCEPT ![k] = b]) = crc16_using_poly(second) /\ get_crc16(Data) = crc16_using_poly(first)
      BY <2>3 DEF get_crc16, first, second, other, data, m, n
    <3>3. ~(k <= Len(Data) % UshortRange)
      BY <2>6 DEF m, n, data
    <3>. QED BY <3>1, <3>2, <3>3
  <2>. QED BY <2>5, <2>6, Zenon
<1>. QED BY <1>1, InitInv, StepInv, PTL DEF Spec

-----------------------------------------------------------------------------
(* Polynomials over the field of two elements.                             *)

Odd(S) == Cardinality(S) % 2 = 1

\* A sum over two sets of terms: those in both cancel.
LEMMA OddXor ==
  ASSUME NEW S, NEW T, IsFiniteSet(S), IsFiniteSet(T)
  PROVE  IsFiniteSet(Xor(S, T)) /\ (Odd(Xor(S, T)) <=> (Odd(S) # Odd(T)))
<1>. DEFINE X == S \ T
            Y == T \ S
            Z == S \cap T
<1>1. IsFiniteSet(X) /\ IsFiniteSet(Y) /\ IsFiniteSet(Z)
  <2>1. X \in SUBSET S /\ Y \in SUBSET T /\ Z \in SUBSET S
    OBVIOUS
  <2>. HIDE DEF X, Y, Z
  <2>. QED BY <2>1, FS_Subset
<1>2. X \cap Z = {} /\ Y \cap Z = {} /\ X \cap Y = {}
  OBVIOUS
<1>3. S = X \cup Z /\ T = Y \cup Z /\ Xor(S, T) = X \cup Y
  BY DEF Xor, SymDiff
<1>. HIDE DEF X, Y, Z
<1>4. ASSUME NEW U, NEW V, IsFiniteSet(U), IsFiniteSet(V), U \cap V = {}
      PROVE  IsFiniteSet(U \cup V) /\ Cardinality(U \cup V) = Cardinality(U) + Cardinality(V)
  <2>1. /\ IsFiniteSet(U \cup V)
        /\ Cardinality(U \cup V) = Cardinality(U) + Cardinality(V) - Cardinality(U \cap V)
    BY <1>4, FS_Union
  <2>2. Cardinality(U \cap V) = 0 /\ Cardinality(U) \in Nat /\ Cardinality(V) \in Nat
    BY <1>4, FS_EmptySet, FS_CardinalityType
  <2>. QED BY <2>1, <2>2
<1>5. /\ Cardinality(S) = Cardinality(X) + Cardinality(Z)
      /\ Cardinality(T) = Cardinality(Y) + Cardinality(Z)
      /\ Cardinality(Xor(S, T)) = Cardinality(X) + Cardinality(Y)
      /\ IsFiniteSet(Xor(S, T))
  BY <1>1, <1>2, <1>3, <1>4
<1>6. Cardinality(X) \in Nat /\ Cardinality(Y) \in Nat /\ Cardinality(Z) \in Nat
  BY <1>1, FS_CardinalityType
<1>7. \A x, y, z \in Nat : ((x + y) % 2 = 1) <=> (((x + z) % 2 = 1) # ((y + z) % 2 = 1))
  OBVIOUS
<1>. QED BY <1>5, <1>6, <1>7 DEF Odd

\* A polynomial times x, reduced.
Times(w) ==
  LET q == {e + 1 : e \in w}
  IN  IF 16 \in q THEN Xor(q \ {16}, {12, 5, 0}) ELSE q

LEMMA TimesBits ==
  ASSUME NEW w \in Registers
  PROVE  /\ Times(w) \in Registers
         /\ \A e \in Word : e \in Times(w) <=> ((e # 0 /\ e - 1 \in w) # (15 \in w /\ e \in {12, 5, 0}))
<1>. DEFINE q == {e + 1 : e \in w}
<1>1. 16 \in q <=> 15 \in w
  BY DEF Registers, Word
<1>2. \A e \in Word : e \in q <=> e # 0 /\ e - 1 \in w
  BY DEF Registers, Word
<1>3. \A e \in q : e # 16 => e \in Word
  BY DEF Registers, Word
<1>4. 12 \in Word /\ 5 \in Word /\ 0 \in Word /\ 16 \notin Word
  BY DEF Word
<1>5. Times(w) = IF 16 \in q THEN Xor(q \ {16}, {12, 5, 0}) ELSE q
  BY DEF Times
<1>. HIDE DEF q
<1>6. CASE 16 \in q
  BY <1>1, <1>2, <1>3, <1>4, <1>5, <1>6 DEF Xor, SymDiff, Registers
<1>7. CASE 16 \notin q
  BY <1>1, <1>2, <1>3, <1>4, <1>5, <1>7 DEF Registers
<1>. QED BY <1>6, <1>7

\* The powers of x: each is the last times x.
LEMMA Powers ==
  /\ PowerMod \in [Nat -> Registers]
  /\ \A k \in Word : PowerMod[k] = {k}
  /\ \A k \in Nat : PowerMod[k + 1] = Times(PowerMod[k])
<1>. DEFINE Starts(f, n) == f[0] = {0} /\ \A k \in 1 .. n : f[k] = Times(f[k - 1])
            start(n) == CHOOSE f \in [0 .. n -> Registers] : Starts(f, n)
            g == [n \in Nat |-> start(n)[n]]
<1>1. ASSUME NEW n \in Nat PROVE start(n) \in [0 .. n -> Registers] /\ Starts(start(n), n)
  <2>. DEFINE F == [k \in 1 .. n |-> [w \in Registers |-> Times(w)]]
  <2>1. F \in [1 .. n -> [Registers -> Registers]]
    BY TimesBits
  <2>2. {0} \in Registers
    BY DEF Registers, Word
  <2>3. PICK f \in [0 .. n -> Registers] : f[0] = {0} /\ \A k \in 1 .. n : f[k] = F[k][f[k - 1]]
    <3>1. \A G \in [1 .. n -> [Registers -> Registers]] :
            \E f \in [0 .. n -> Registers] : f[0] = {0} /\ \A k \in 1 .. n : f[k] = G[k][f[k - 1]]
      BY <2>2, Iterates
    <3>. HIDE DEF F
    <3>. QED BY <2>1, <3>1, Zenon
  <2>4. Starts(f, n)
    <3>1. \A k \in 1 .. n : f[k - 1] \in Registers
      OBVIOUS
    <3>. QED BY <2>3, <3>1
  <2>. HIDE DEF Starts
  <2>. QED BY <2>4
<1>2. ASSUME NEW n \in Nat, NEW m \in Nat, n <= m PROVE start(m)[n] = start(n)[n]
  <2>. DEFINE f == start(n)
              h == start(m)
              S == {k \in 0 .. n : f[k] = h[k]}
  <2>1. Starts(f, n) /\ Starts(h, m)
    <3>. HIDE DEF Starts, start
    <3>. QED BY <1>1
  <2>. HIDE DEF f, h
  <2>2. 0 \in S
    BY <2>1
  <2>3. ASSUME NEW k \in 0 .. n - 1, k \in S PROVE k + 1 \in S
    <3>1. k + 1 \in 1 .. n /\ k + 1 \in 1 .. m /\ (k + 1) - 1 = k
      BY <1>2
    <3>. QED BY <2>1, <2>3, <3>1
  <2>4. 0 .. n \subseteq S
    <3>. HIDE DEF S
    <3>. QED BY <2>2, <2>3, AllReached
  <2>5. f[n] = h[n]
    BY <2>4
  <2>. QED BY <2>5 DEF f, h
<1>3. g[0] = {0} /\ \A k \in Nat : g[k + 1] = Times(g[k])
  <2>. HIDE DEF start
  <2>1. g[0] = {0}
    BY <1>1
  <2>2. ASSUME NEW k \in Nat PROVE g[k + 1] = Times(g[k])
    <3>1. k + 1 \in Nat /\ k + 1 \in 1 .. k + 1 /\ (k + 1) - 1 = k /\ k <= k + 1
      OBVIOUS
    <3>2. g[k + 1] = Times(start(k + 1)[k])
      BY <1>1, <3>1
    <3>. QED BY <1>2, <3>1, <3>2
  <2>. QED BY <2>1, <2>2
<1>. HIDE DEF g
<1>4. \A k \in 0 .. 15 : g[k] = {k}
  <2>. DEFINE S == {k \in 0 .. 15 : g[k] = {k}}
  <2>1. 0 \in S
    BY <1>3
  <2>2. ASSUME NEW k \in 0 .. 14, k \in S PROVE k + 1 \in S
    <3>1. Times({k}) = {k + 1}
      BY DEF Times
    <3>2. g[k + 1] = Times(g[k])
      BY <1>3
    <3>. QED BY <2>2, <3>1, <3>2
  <2>3. 15 \in Nat /\ \A k \in 0 .. 15 - 1 : k \in S => k + 1 \in S
    BY <2>2
  <2>4. 0 .. 15 \subseteq S
    <3>. HIDE DEF S
    <3>. QED BY <2>1, <2>3, AllReached
  <2>. QED BY <2>4
<1>. DEFINE P(h) == h = [k \in Nat |->
              IF k < 16 THEN {k}
              ELSE LET q == {e + 1 : e \in h[k - 1]}
                   IN  IF 16 \in q THEN Xor(q \ {16}, {12, 5, 0}) ELSE q]
<1>5. \A h : P(h) <=> h = [k \in Nat |-> IF k < 16 THEN {k} ELSE Times(h[k - 1])]
  BY DEF Times
<1>6. P(g)
  <2>1. \A k \in Nat : g[k] = IF k < 16 THEN {k} ELSE Times(g[k - 1])
    <3>. TAKE k \in Nat
    <3>1. CASE k < 16
      <4>1. k \in 0 .. 15
        BY <3>1
      <4>. QED BY <1>4, <3>1, <4>1
    <3>2. CASE ~(k < 16)
      <4>1. k - 1 \in Nat /\ (k - 1) + 1 = k
        BY <3>2
      <4>2. g[(k - 1) + 1] = Times(g[k - 1])
        BY <1>3, <4>1
      <4>. QED BY <3>2, <4>1, <4>2
    <3>. QED BY <3>1, <3>2
  <2>2. g = [k \in Nat |-> g[k]]
    BY DEF g
  <2>3. g = [k \in Nat |-> IF k < 16 THEN {k} ELSE Times(g[k - 1])]
    BY <2>1, <2>2
  <2>. HIDE DEF P
  <2>. QED BY <1>5, <2>3
<1>7. PowerMod = CHOOSE h : P(h)
  BY DEF PowerMod
<1>8. PowerMod = [k \in Nat |-> IF k < 16 THEN {k} ELSE Times(PowerMod[k - 1])]
  <2>. HIDE DEF P
  <2>1. P(PowerMod)
    BY <1>6, <1>7
  <2>. QED BY <1>5, <2>1
<1>9. \A k \in Word : PowerMod[k] = {k}
  <2>1. \A k \in Word : k \in Nat /\ k < 16
    BY DEF Word
  <2>. QED BY <1>8, <2>1
<1>10. ASSUME NEW k \in Nat PROVE PowerMod[k + 1] = Times(PowerMod[k])
  <2>1. CASE k < 15
    <3>1. k \in Word /\ k + 1 \in Word
      BY <2>1 DEF Word
    <3>2. Times({k}) = {k + 1}
      BY <2>1 DEF Times
    <3>. QED BY <1>9, <3>1, <3>2
  <2>2. CASE ~(k < 15)
    <3>1. k + 1 \in Nat /\ ~(k + 1 < 16) /\ (k + 1) - 1 = k
      BY <2>2
    <3>. QED BY <1>8, <3>1
  <2>. QED BY <2>1, <2>2
<1>11. ASSUME NEW n \in Nat PROVE PowerMod[n] \in Registers
  <2>. DEFINE S == {k \in 0 .. n : PowerMod[k] \in Registers}
  <2>1. 0 \in S
    <3>1. 0 \in Word /\ {0} \in Registers
      BY DEF Word, Registers
    <3>. QED BY <1>9, <3>1
  <2>2. ASSUME NEW k \in 0 .. n - 1, k \in S PROVE k + 1 \in S
    <3>1. PowerMod[k + 1] = Times(PowerMod[k]) /\ PowerMod[k] \in Registers /\ k + 1 \in 0 .. n
      BY <1>10, <2>2
    <3>. QED BY <3>1, TimesBits
  <2>3. 0 .. n \subseteq S
    <3>. HIDE DEF S
    <3>. QED BY <2>1, <2>2, AllReached
  <2>. QED BY <2>3
<1>12. PowerMod \in [Nat -> Registers]
  <2>1. PowerMod = [k \in Nat |-> PowerMod[k]]
    BY <1>8
  <2>. QED BY <1>11, <2>1
<1>. QED BY <1>9, <1>10, <1>12

\* The remainder of a polynomial: of its powers of x.
Terms(A, e) == {k \in A : e \in PowerMod[k]}
Rest(A)     == {e \in Word : Odd(Terms(A, e))}

Polynomials == {A \in SUBSET Nat : IsFiniteSet(A)}

LEMMA RestIsRemainder ==
  ASSUME NEW d \in Nat, NEW A \in SUBSET (0 .. d)
  PROVE  A \in Polynomials /\ Remainder(A, d) = Rest(A)
<1>1. A \in Polynomials
  <2>1. IsFiniteSet(0 .. d)
    BY FS_Interval
  <2>2. IsFiniteSet(A)
    BY <2>1, FS_Subset
  <2>3. A \in SUBSET Nat
    OBVIOUS
  <2>. QED BY <2>2, <2>3 DEF Polynomials
<1>. DEFINE power == [k \in 0 .. d |-> PowerMod[k]]
<1>2. \A e \in Word : {k \in A : e \in power[k]} = Terms(A, e)
  BY DEF Terms
<1>3. Remainder(A, d) = {e \in Word : Cardinality({k \in A : e \in power[k]}) % 2 = 1}
  BY DEF Remainder, Quantify
<1>. HIDE DEF power
<1>. QED BY <1>1, <1>2, <1>3 DEF Rest, Odd

LEMMA RestXor ==
  ASSUME NEW A \in Polynomials, NEW B \in Polynomials
  PROVE  Xor(A, B) \in Polynomials /\ Rest(Xor(A, B)) = Xor(Rest(A), Rest(B))
<1>1. Xor(A, B) \in Polynomials
  <2>1. IsFiniteSet(Xor(A, B))
    BY OddXor DEF Polynomials
  <2>2. Xor(A, B) \in SUBSET Nat
    BY DEF Polynomials, Xor, SymDiff
  <2>. QED BY <2>1, <2>2 DEF Polynomials
<1>2. ASSUME NEW e \in Word
      PROVE  Odd(Terms(Xor(A, B), e)) <=> (Odd(Terms(A, e)) # Odd(Terms(B, e)))
  <2>1. Terms(Xor(A, B), e) = Xor(Terms(A, e), Terms(B, e))
    BY DEF Terms, Xor, SymDiff
  <2>2. IsFiniteSet(Terms(A, e)) /\ IsFiniteSet(Terms(B, e))
    <3>1. Terms(A, e) \in SUBSET A /\ Terms(B, e) \in SUBSET B
      BY DEF Terms
    <3>. QED BY <3>1, FS_Subset DEF Polynomials
  <2>. QED BY <2>1, <2>2, OddXor
<1>3. \A e \in Word : e \in Rest(Xor(A, B)) <=> e \in Xor(Rest(A), Rest(B))
  BY <1>2 DEF Rest, Xor, SymDiff, Odd
<1>4. Rest(Xor(A, B)) \subseteq Word /\ Xor(Rest(A), Rest(B)) \subseteq Word
  BY DEF Rest, Xor, SymDiff
<1>. QED BY <1>1, <1>3, <1>4

\* Multiplying by x and taking the remainder is taking the remainder and multiplying.
LEMMA RestTimes ==
  ASSUME NEW A \in Polynomials
  PROVE  LET B == {k + 1 : k \in A} IN B \in Polynomials /\ Rest(B) = Times(Rest(A))
<1>. DEFINE B == {k + 1 : k \in A}
            next == [k \in A |-> k + 1]
<1>1. A \in SUBSET Nat /\ IsFiniteSet(A)
  BY DEF Polynomials
<1>2. ASSUME NEW T \in SUBSET A
      PROVE  /\ IsFiniteSet(T) /\ IsFiniteSet({k + 1 : k \in T})
             /\ Cardinality({k + 1 : k \in T}) = Cardinality(T)
  <2>. DEFINE f == [k \in T |-> k + 1]
              U == {k + 1 : k \in T}
  <2>1. IsFiniteSet(T)
    BY <1>1, FS_Subset
  <2>2. f \in Bijection(T, U)
    <3>1. f \in [T -> U] /\ (\A u \in U : \E k \in T : f[k] = u)
      OBVIOUS
    <3>2. \A j, k \in T : f[j] = f[k] => j = k
      BY <1>1
    <3>. QED BY <3>1, <3>2 DEF Bijection, Injection, Surjection, IsInjective
  <2>. HIDE DEF f, U
  <2>3. ExistsBijection(T, U)
    BY <2>2 DEF ExistsBijection
  <2>4. IsFiniteSet(U) /\ Cardinality(U) = Cardinality(T)
    BY <2>1, <2>3, FS_Bijection
  <2>. QED BY <2>1, <2>4 DEF U
<1>3. B \in Polynomials
  <2>1. IsFiniteSet(B)
    BY <1>2
  <2>. QED BY <1>1, <2>1 DEF Polynomials
<1>4. Rest(A) \in Registers
  BY DEF Rest, Registers
<1>5. ASSUME NEW e \in Word
      PROVE  Odd(Terms(B, e)) <=> ((e # 0 /\ Odd(Terms(A, e - 1))) # (Odd(Terms(A, 15)) /\ e \in {12, 5, 0}))
  <2>. DEFINE X == IF e # 0 THEN Terms(A, e - 1) ELSE {}
              Y == IF e \in {12, 5, 0} THEN Terms(A, 15) ELSE {}
              T == {k \in A : e \in PowerMod[k + 1]}
  <2>1. \A k \in A : e \in PowerMod[k + 1] <=>
          ((e # 0 /\ e - 1 \in PowerMod[k]) # (15 \in PowerMod[k] /\ e \in {12, 5, 0}))
    <3>. TAKE k \in A
    <3>1. k \in Nat /\ PowerMod[k] \in Registers /\ PowerMod[k + 1] = Times(PowerMod[k])
      BY <1>1, Powers
    <3>. DEFINE w == PowerMod[k]
    <3>2. w \in Registers /\ PowerMod[k + 1] = Times(w)
      BY <3>1
    <3>. HIDE DEF w
    <3>3. e \in Times(w) <=> ((e # 0 /\ e - 1 \in w) # (15 \in w /\ e \in {12, 5, 0}))
      BY <3>2, TimesBits
    <3>. QED BY <3>2, <3>3 DEF w
  <2>2. T = Xor(X, Y)
    <3>1. X = {k \in A : e # 0 /\ e - 1 \in PowerMod[k]}
      BY DEF Terms
    <3>2. Y = {k \in A : 15 \in PowerMod[k] /\ e \in {12, 5, 0}}
      BY DEF Terms
    <3>. HIDE DEF X, Y
    <3>. QED BY <2>1, <3>1, <3>2 DEF Xor, SymDiff
  <2>3. X \in SUBSET A /\ Y \in SUBSET A /\ T \in SUBSET A
    BY DEF Terms
  <2>4. Terms(B, e) = {k + 1 : k \in T}
    BY DEF Terms
  <2>5. ~Odd({})
    <3>1. 0 % 2 = 0
      OBVIOUS
    <3>. QED BY <3>1, FS_EmptySet DEF Odd
  <2>6. /\ Odd(X) <=> (e # 0 /\ Odd(Terms(A, e - 1)))
        /\ Odd(Y) <=> (Odd(Terms(A, 15)) /\ e \in {12, 5, 0})
    BY <2>5 DEF Odd
  <2>. HIDE DEF X, Y, T
  <2>7. IsFiniteSet(X) /\ IsFiniteSet(Y)
    BY <1>2, <2>3
  <2>8. Odd(Terms(B, e)) <=> Odd(T)
    BY <1>2, <2>3, <2>4 DEF Odd
  <2>9. Odd(Xor(X, Y)) <=> (Odd(X) # Odd(Y))
    BY <2>7, OddXor
  <2>. HIDE DEF B
  <2>. QED BY <2>2, <2>6, <2>8, <2>9 DEF Odd
<1>6. \A e \in Word : e \in Rest(B) <=> e \in Times(Rest(A))
  <2>1. \A e \in Word : e # 0 => e - 1 \in Word
    BY DEF Word
  <2>2. 15 \in Word
    BY DEF Word
  <2>3. \A e \in Word : e \in Times(Rest(A)) <=>
          ((e # 0 /\ e - 1 \in Rest(A)) # (15 \in Rest(A) /\ e \in {12, 5, 0}))
    BY <1>4, TimesBits
  <2>. HIDE DEF B
  <2>4. \A e \in Word : e \in Rest(B) <=> Odd(Terms(B, e))
    BY DEF Rest
  <2>5. \A e \in Word : e \in Rest(A) <=> Odd(Terms(A, e))
    BY DEF Rest
  <2>6. ASSUME NEW e \in Word PROVE (e # 0 /\ e - 1 \in Rest(A)) <=> (e # 0 /\ Odd(Terms(A, e - 1)))
    BY <2>1, <2>5
  <2>. QED BY <1>5, <2>2, <2>3, <2>4, <2>5, <2>6
<1>7. Rest(B) \subseteq Word /\ Times(Rest(A)) \subseteq Word
  BY <1>4, TimesBits DEF Rest, Registers
<1>8. Rest(B) = Times(Rest(A))
  <2>. HIDE DEF B
  <2>. QED BY <1>6, <1>7
<1>. QED BY <1>3, <1>8

\* The polynomials that crc16_using_poly() starts with and adds to.
LEMMA RestOfPowers == /\ 0 .. 15 \in Polynomials /\ Rest(0 .. 15) = Word
                      /\ {16} \in Polynomials /\ Rest({16}) = {12, 5, 0}
                      /\ {} \in Polynomials /\ Rest({}) = {}
<1>1. \A e : IsFiniteSet({e}) /\ Odd({e})
  <2>1. 1 % 2 = 1
    OBVIOUS
  <2>. QED BY <2>1, FS_Singleton DEF Odd
<1>2. IsFiniteSet({}) /\ ~Odd({})
  <2>1. 0 % 2 = 0
    OBVIOUS
  <2>. QED BY <2>1, FS_EmptySet DEF Odd
<1>3. 0 .. 15 \in Polynomials /\ Rest(0 .. 15) = Word
  <2>1. 0 .. 15 \in Polynomials
    <3>1. 0 \in Int /\ 15 \in Int /\ 0 .. 15 \in SUBSET Nat
      OBVIOUS
    <3>2. IsFiniteSet(0 .. 15)
      BY <3>1, FS_Interval
    <3>. QED BY <3>1, <3>2 DEF Polynomials
  <2>2. \A e \in Word : Terms(0 .. 15, e) = {e}
    <3>1. \A k \in 0 .. 15 : PowerMod[k] = {k}
      BY Powers DEF Word
    <3>. QED BY <3>1 DEF Terms, Word
  <2>. QED BY <1>1, <2>1, <2>2 DEF Rest
<1>4. {16} \in Polynomials /\ Rest({16}) = {12, 5, 0}
  <2>1. {16} \in Polynomials
    BY <1>1 DEF Polynomials
  <2>2. PowerMod[16] = {12, 5, 0}
    <3>1. PowerMod[15] = {15} /\ PowerMod[15 + 1] = Times(PowerMod[15])
      BY Powers DEF Word
    <3>2. Times({15}) = Xor({}, {12, 5, 0})
      BY DEF Times, Xor, SymDiff
    <3>. QED BY <3>1, <3>2 DEF Xor, SymDiff
  <2>3. \A e \in Word : Terms({16}, e) = IF e \in {12, 5, 0} THEN {16} ELSE {}
    BY <2>2 DEF Terms
  <2>4. 12 \in Word /\ 5 \in Word /\ 0 \in Word
    BY DEF Word
  <2>. QED BY <1>1, <1>2, <2>1, <2>3, <2>4 DEF Rest
<1>5. {} \in Polynomials /\ Rest({}) = {}
  <2>1. \A e : Terms({}, e) = {}
    BY DEF Terms
  <2>. QED BY <1>2, <2>1 DEF Rest, Polynomials
<1>. QED BY <1>3, <1>4, <1>5

-----------------------------------------------------------------------------
(* The register is the remainder, read backwards.                          *)

Mirror(r) == {15 - e : e \in r}

LEMMA MirrorBit ==
  ASSUME NEW r \in Registers, NEW bit \in BOOLEAN
  PROVE  ShiftBit(Mirror(r), bit) = Mirror(Xor(Times(r), IF bit THEN {12, 5, 0} ELSE {}))
<1>. DEFINE c == Mirror(r)
            t == Times(r)
            x == IF bit THEN {12, 5, 0} ELSE {}
            u == Xor(t, x)
<1>1. \A w \in Registers : Mirror(w) \in Registers /\ \A e \in Word : e \in Mirror(w) <=> 15 - e \in w
  BY DEF Mirror, Registers, Word
<1>2. t \in Registers /\ \A e \in Word : e \in t <=> ((e # 0 /\ e - 1 \in r) # (15 \in r /\ e \in {12, 5, 0}))
  BY TimesBits
<1>3. x \in Registers
  BY DEF Registers, Word
<1>4. c \in Registers /\ ShiftBit(c, bit) \in Registers
  BY <1>1, BitType
<1>5. u \in Registers /\ \A e \in Word : e \in u <=> ((e \in t) # (e \in x))
  BY <1>2, <1>3 DEF Xor, SymDiff, Registers
<1>6. ASSUME NEW e \in Word PROVE e \in ShiftBit(c, bit) <=> e \in Mirror(u)
  <2>1. 0 \in c <=> 15 \in r
    <3>1. 0 \in Word /\ 15 - 0 = 15
      BY DEF Word
    <3>. QED BY <1>1, <3>1
  <2>2. e \in ShiftRight(c) <=> e # 15 /\ 14 - e \in r
    <3>1. e \in ShiftRight(c) <=> e # 15 /\ e + 1 \in c
      BY <1>4 DEF Registers, Word, ShiftRight
    <3>2. e # 15 => e + 1 \in Word /\ 15 - (e + 1) = 14 - e
      BY DEF Word
    <3>3. e # 15 => (e + 1 \in c <=> 14 - e \in r)
      BY <1>1, <3>2
    <3>. QED BY <3>1, <3>3
  <2>3. e \in CRC16_CCITT_POLY <=> 15 - e \in {12, 5, 0}
    BY DEF CRC16_CCITT_POLY, Word
  <2>4. e \in ShiftBit(c, bit) <=> ((e \in ShiftRight(c)) # (((0 \in c) # bit) /\ e \in CRC16_CCITT_POLY))
    BY DEF ShiftBit, Xor, SymDiff
  <2>5. 15 - e \in Word /\ (15 - e # 0 <=> e # 15) /\ (15 - e) - 1 = 14 - e
    BY DEF Word
  <2>6. e \in Mirror(u) <=> ((15 - e \in t) # (15 - e \in x))
    BY <1>1, <1>5, <2>5
  <2>7. 15 - e \in t <=> ((e # 15 /\ 14 - e \in r) # (15 \in r /\ 15 - e \in {12, 5, 0}))
    BY <1>2, <2>5
  <2>8. 15 - e \in x <=> (bit /\ 15 - e \in {12, 5, 0})
    OBVIOUS
  <2>. DEFINE low == 15 - e \in {12, 5, 0}
              top == 15 \in r
              was == e # 15 /\ 14 - e \in r
  <2>9. e \in ShiftBit(c, bit) <=> (was # ((top # bit) /\ low))
    BY <2>1, <2>2, <2>3, <2>4
  <2>10. e \in Mirror(u) <=> ((was # (top /\ low)) # (bit /\ low))
    BY <2>6, <2>7, <2>8
  <2>11. low \in BOOLEAN /\ top \in BOOLEAN /\ was \in BOOLEAN
    OBVIOUS
  <2>. HIDE DEF low, top, was
  <2>. QED BY <2>9, <2>10, <2>11
<1>7. \A e \in Word : e \in ShiftBit(c, bit) <=> e \in Mirror(u)
  BY <1>6
<1>8. ShiftBit(c, bit) \subseteq Word /\ Mirror(u) \subseteq Word
  BY <1>1, <1>4, <1>5 DEF Registers
<1>9. ShiftBit(c, bit) = Mirror(u)
  <2>. HIDE DEF c, u
  <2>. QED BY <1>7, <1>8
<1>. QED BY <1>9

\* The polynomial of the first m bits of a block, the first 16 coefficients complemented.
Bit(data, p)   == (p % 8) \in Bits(data[1 + p \div 8])
Block(data, m) == Xor({m + 15 - p : p \in {q \in 0 .. m - 1 : Bit(data, q)}}, m .. m + 15)

LEMMA BlockGrows ==
  ASSUME NEW data, NEW m \in Nat
  PROVE  Block(data, m + 1) = Xor({k + 1 : k \in Block(data, m)}, IF Bit(data, m) THEN {16} ELSE {})
<1>1. ASSUME NEW n \in Nat, NEW k \in Int
      PROVE  k \in Block(data, n) <=> ((k \in 16 .. n + 15 /\ Bit(data, n + 15 - k)) # (k \in n .. n + 15))
  <2>. DEFINE C == {n + 15 - p : p \in {q \in 0 .. n - 1 : Bit(data, q)}}
  <2>1. k \in C <=> k \in 16 .. n + 15 /\ Bit(data, n + 15 - k)
    <3>1. ASSUME k \in C PROVE k \in 16 .. n + 15 /\ Bit(data, n + 15 - k)
      <4>1. PICK p \in 0 .. n - 1 : Bit(data, p) /\ k = n + 15 - p
        BY <3>1
      <4>2. n + 15 - k = p /\ k \in 16 .. n + 15
        BY <4>1
      <4>. QED BY <4>1, <4>2
    <3>2. ASSUME k \in 16 .. n + 15, Bit(data, n + 15 - k) PROVE k \in C
      <4>1. n + 15 - k \in 0 .. n - 1 /\ k = n + 15 - (n + 15 - k)
        BY <3>2
      <4>. QED BY <3>2, <4>1
    <3>. QED BY <3>1, <3>2
  <2>2. Block(data, n) = Xor(C, n .. n + 15)
    BY DEF Block
  <2>. HIDE DEF C
  <2>. QED BY <2>1, <2>2 DEF Xor, SymDiff
<1>2. \A n \in Nat : Block(data, n) \subseteq Int
  BY DEF Block, Xor, SymDiff
<1>. DEFINE A == Block(data, m)
            B == {k + 1 : k \in A}
            x == IF Bit(data, m) THEN {16} ELSE {}
<1>3. ASSUME NEW k \in Int PROVE k \in B <=> k - 1 \in A
  <2>1. ASSUME k \in B PROVE k - 1 \in A
    <3>1. PICK j \in A : k = j + 1
      BY <2>1
    <3>2. j \in Int
      BY <1>2
    <3>. QED BY <3>1, <3>2
  <2>2. ASSUME k - 1 \in A PROVE k \in B
    <3>1. k = (k - 1) + 1
      OBVIOUS
    <3>. HIDE DEF A
    <3>. QED BY <2>2, <3>1
  <2>. QED BY <2>1, <2>2
<1>4. ASSUME NEW k \in Int PROVE k \in Block(data, m + 1) <=> k \in Xor(B, x)
  <2>1. /\ m + 1 \in Nat /\ k - 1 \in Int
        /\ (m + 1) + 15 - k = m + 15 - (k - 1)
        /\ k \in 16 .. (m + 1) + 15 <=> (k = 16 \/ k - 1 \in 16 .. m + 15)
        /\ k \in m + 1 .. (m + 1) + 15 <=> k - 1 \in m .. m + 15
        /\ k = 16 => m + 15 - (k - 1) = m /\ k - 1 \notin 16 .. m + 15
    OBVIOUS
  <2>2. k \in Block(data, m + 1) <=>
          ((k \in 16 .. (m + 1) + 15 /\ Bit(data, (m + 1) + 15 - k)) # (k \in m + 1 .. (m + 1) + 15))
    BY <1>1, <2>1
  <2>3. k - 1 \in A <=> ((k - 1 \in 16 .. m + 15 /\ Bit(data, m + 15 - (k - 1))) # (k - 1 \in m .. m + 15))
    BY <1>1, <2>1
  <2>4. k \in x <=> k = 16 /\ Bit(data, m)
    OBVIOUS
  <2>. HIDE DEF A, B, x
  <2>5. k \in Xor(B, x) <=> ((k - 1 \in A) # (k \in x))
    BY <1>3 DEF Xor, SymDiff
  <2>. DEFINE i == k - 1 \in 16 .. m + 15
              j == k - 1 \in m .. m + 15
              l == (m + 1) + 15 - k
  <2>6. l = m + 15 - (k - 1) /\ (k = 16 => l = m /\ ~i)
    BY <2>1
  <2>7. /\ k \in Block(data, m + 1) <=> (((k = 16 \/ i) /\ Bit(data, l)) # j)
        /\ k - 1 \in A <=> ((i /\ Bit(data, l)) # j)
    BY <2>1, <2>2, <2>3
  <2>8. Bit(data, l) \in BOOLEAN /\ Bit(data, m) \in BOOLEAN /\ i \in BOOLEAN /\ j \in BOOLEAN
    BY DEF Bit
  <2>. HIDE DEF i, j, l
  <2>9. CASE k = 16
    BY <2>4, <2>5, <2>6, <2>7, <2>8, <2>9
  <2>10. CASE k # 16
    BY <2>4, <2>5, <2>6, <2>7, <2>8, <2>10
  <2>. QED BY <2>9, <2>10
<1>5. Block(data, m + 1) \subseteq Int /\ Xor(B, x) \subseteq Int
  <2>1. m + 1 \in Nat
    OBVIOUS
  <2>. QED BY <1>2, <2>1 DEF Xor, SymDiff
<1>6. Block(data, m + 1) = Xor(B, x)
  <2>. HIDE DEF B, x
  <2>. QED BY <1>4, <1>5
<1>. QED BY <1>6

\* What the register is to be after m bits, and one bit more.
RegisterAfter(data, m) == Mirror(Rest(Block(data, m)))

LEMMA OneBitMore ==
  ASSUME NEW data, NEW m \in Nat
  PROVE  /\ Block(data, m) \in SUBSET (0 .. m + 15) /\ RegisterAfter(data, m) \in Registers
         /\ RegisterAfter(data, m + 1) = ShiftBit(RegisterAfter(data, m), Bit(data, m))
<1>1. \A n \in Nat : Block(data, n) \in SUBSET (0 .. n + 15)
  BY DEF Block, Xor, SymDiff
<1>2. Block(data, m) \in Polynomials
  <2>1. m + 15 \in Nat
    OBVIOUS
  <2>. QED BY <1>1, <2>1, RestIsRemainder
<1>. DEFINE A == Block(data, m)
            B == {k + 1 : k \in A}
            bit == Bit(data, m)
            x == IF bit THEN {16} ELSE {}
            y == IF bit THEN {12, 5, 0} ELSE {}
            r == Rest(A)
<1>3. r \in Registers /\ bit \in BOOLEAN
  BY DEF Rest, Registers, Bit
<1>4. B \in Polynomials /\ Rest(B) = Times(r)
  <2>. HIDE DEF A
  <2>. QED BY <1>2, RestTimes DEF A
<1>5. x \in Polynomials /\ Rest(x) = y
  BY RestOfPowers
<1>. HIDE DEF B, x, y, r, bit
<1>6. Rest(Xor(B, x)) = Xor(Times(r), y)
  BY <1>4, <1>5, RestXor
<1>7. Block(data, m + 1) = Xor(B, x)
  BY BlockGrows DEF B, x, bit
<1>8. ShiftBit(Mirror(r), bit) = Mirror(Xor(Times(r), y))
  BY <1>3, MirrorBit DEF y
<1>9. RegisterAfter(data, m) \in Registers
  BY <1>3 DEF RegisterAfter, Mirror, Registers, Word, r
<1>. QED BY <1>1, <1>6, <1>7, <1>8, <1>9 DEF RegisterAfter, r, bit

LEMMA ShiftDataIsRemainder ==
  ASSUME NEW data \in Seq(Byte)
  PROVE  ShiftData(data) = RegisterAfter(data, 8 * Len(data))
<1>. DEFINE n == Len(data)
<1>1. n \in Nat
  OBVIOUS
<1>2. PICK f \in [0 .. n -> Registers] :
        /\ f[0] = Word /\ f[n] = ShiftData(data)
        /\ \A k \in 1 .. n : f[k] = ShiftByte(f[k - 1], Bits(data[k]))
  BY DataSteps
<1>. HIDE DEF n
<1>. DEFINE S == {j \in 0 .. n : f[j] = RegisterAfter(data, 8 * j)}
<1>3. 0 \in S
  <2>1. Block(data, 0) = 0 .. 15
    <3>1. 0 .. 0 - 1 = {} /\ 0 + 15 = 15
      OBVIOUS
    <3>. QED BY <3>1 DEF Block, Xor, SymDiff
  <2>2. Mirror(Word) = Word
    <3>1. \A e \in Word : 15 - e \in Word /\ e = 15 - (15 - e)
      BY DEF Word
    <3>. QED BY <3>1 DEF Mirror
  <2>3. RegisterAfter(data, 0) = Word
    BY <2>1, <2>2, RestOfPowers DEF RegisterAfter
  <2>4. 8 * 0 = 0 /\ 0 \in 0 .. n
    BY <1>1
  <2>. QED BY <1>2, <2>3, <2>4
<1>4. ASSUME NEW j \in 0 .. n - 1, j \in S PROVE j + 1 \in S
  <2>1. j \in Nat /\ j + 1 \in 1 .. n /\ (j + 1) - 1 = j /\ j + 1 \in 0 .. n
    BY <1>1
  <2>2. f[j] \in Registers /\ f[j] = RegisterAfter(data, 8 * j)
    BY <1>4
  <2>. DEFINE byte == Bits(data[j + 1])
  <2>3. f[j + 1] = ShiftByte(f[j], byte)
    BY <1>2, <2>1
  <2>4. PICK g \in [0 .. 8 -> Registers] :
          /\ g[0] = f[j] /\ g[8] = ShiftByte(f[j], byte)
          /\ \A k \in 0 .. 7 : g[k + 1] = ShiftBit(g[k], k \in byte)
    <3>. HIDE DEF byte
    <3>. QED BY <2>2, ByteSteps
  <2>. DEFINE T == {k \in 0 .. 8 : g[k] = RegisterAfter(data, 8 * j + k)}
  <2>5. 0 \in T
    <3>1. 8 * j + 0 = 8 * j
      BY <2>1
    <3>. QED BY <2>2, <2>4, <3>1
  <2>6. ASSUME NEW k \in 0 .. 7, k \in T PROVE k + 1 \in T
    <3>. DEFINE m == 8 * j + k
    <3>1. m \in Nat /\ m + 1 = 8 * j + (k + 1) /\ m % 8 = k /\ 1 + m \div 8 = j + 1
      BY <2>1
    <3>. HIDE DEF m
    <3>2. Bit(data, m) = (k \in byte)
      BY <3>1 DEF Bit
    <3>3. RegisterAfter(data, m + 1) = ShiftBit(RegisterAfter(data, m), Bit(data, m))
      BY <3>1, OneBitMore
    <3>4. g[k] = RegisterAfter(data, m)
      BY <2>6 DEF m
    <3>5. g[k + 1] = ShiftBit(g[k], k \in byte)
      BY <2>4
    <3>6. g[k + 1] = RegisterAfter(data, m + 1)
      BY <3>2, <3>3, <3>4, <3>5
    <3>. QED BY <3>1, <3>6
  <2>7. 8 \in T
    <3>1. 8 \in Nat /\ \A k \in 0 .. 8 - 1 : k \in T => k + 1 \in T
      BY <2>6
    <3>2. 0 .. 8 \subseteq T
      <4>. HIDE DEF T
      <4>. QED BY <2>5, <3>1, AllReached
    <3>. QED BY <3>2
  <2>8. 8 * j + 8 = 8 * (j + 1)
    BY <2>1
  <2>9. g[8] = RegisterAfter(data, 8 * (j + 1))
    BY <2>7, <2>8
  <2>. QED BY <2>1, <2>3, <2>4, <2>9
<1>5. 0 .. n \subseteq S
  <2>. HIDE DEF S
  <2>. QED BY <1>1, <1>3, <1>4, AllReached
<1>6. f[n] = RegisterAfter(data, 8 * n)
  BY <1>1, <1>5
<1>. QED BY <1>2, <1>6 DEF n

\* The checksum of every block is the remainder of its polynomial.
LEMMA ChecksumIsRemainder ==
  ASSUME NEW data \in Seq(Byte)
  PROVE  crc16_using_poly(data) = ReferencePoly(data)
<1>. DEFINE n == 8 * Len(data)
<1>1. n \in Nat /\ n + 15 \in Nat
  OBVIOUS
<1>2. ReferencePoly(data) = SwapBytes(Word \ Mirror(Remainder(Block(data, n), n + 15)))
  BY DEF ReferencePoly, Block, Bit, Mirror
<1>3. ShiftData(data) = RegisterAfter(data, n)
  BY ShiftDataIsRemainder
<1>. HIDE DEF n
<1>4. Remainder(Block(data, n), n + 15) = Rest(Block(data, n))
  <2>1. Block(data, n) \in SUBSET (0 .. n + 15)
    BY <1>1, OneBitMore
  <2>. QED BY <1>1, <2>1, RestIsRemainder
<1>5. ReferencePoly(data) = SwapBytes(Word \ ShiftData(data))
  BY <1>2, <1>3, <1>4 DEF RegisterAfter
<1>6. CASE data # <<>>
  BY <1>5, <1>6 DEF crc16_using_poly
<1>7. CASE data = <<>>
  <2>1. Len(data) = 0
    BY <1>7
  <2>2. PICK f \in [0 .. Len(data) -> Registers] : f[0] = Word /\ f[Len(data)] = ShiftData(data)
    BY DataSteps
  <2>3. ShiftData(data) = Word
    BY <2>1, <2>2
  <2>4. SwapBytes(Word \ Word) = {}
    BY DEF SwapBytes
  <2>. QED BY <1>5, <1>7, <2>3, <2>4 DEF crc16_using_poly
<1>. QED BY <1>6, <1>7

\* crc16_using_poly() computes what its comment says, the remainder by the CCITT
\* polynomial, of every block of every length.
THEOREM RemainderOfEveryBlock == Spec => []PolyIsRemainder
<1>1. Inv => PolyIsRemainder
  <2>1. Inv => Data \in Seq(Byte)
    BY PacketsAssumption DEF PacketsAssumption, Message, Inv, Data
  <2>. QED BY <2>1, ChecksumIsRemainder DEF PolyIsRemainder
<1>. QED BY <1>1, InitInv, StepInv, PTL DEF Spec

-----------------------------------------------------------------------------
(* The table.                                                              *)

\* A register is its own remainder.
LEMMA RestOfRegister ==
  ASSUME NEW w \in Registers
  PROVE  w \in Polynomials /\ Rest(w) = w
<1>1. w \in SUBSET (0 .. 15) /\ 15 \in Nat
  BY DEF Registers, Word
<1>2. w \in Polynomials
  BY <1>1, RestIsRemainder
<1>3. \A e \in Word : Terms(w, e) = IF e \in w THEN {e} ELSE {}
  <2>1. \A k \in w : PowerMod[k] = {k}
    BY Powers DEF Registers
  <2>. QED BY <2>1 DEF Terms
<1>4. \A e : Odd({e})
  <2>1. 1 % 2 = 1
    OBVIOUS
  <2>. QED BY <2>1, FS_Singleton DEF Odd
<1>5. ~Odd({})
  <2>1. 0 % 2 = 0
    OBVIOUS
  <2>. QED BY <2>1, FS_EmptySet DEF Odd
<1>6. \A e \in Word : Odd(Terms(w, e)) <=> e \in w
  BY <1>3, <1>4, <1>5
<1>7. Rest(w) = w
  BY <1>6 DEF Rest, Registers
<1>. QED BY <1>2, <1>7

\* A polynomial times x^8.
Times8(A) == {k + 8 : k \in A}

\* It does not matter whether the remainder is taken before or after.
LEMMA RestTimes8 ==
  ASSUME NEW A \in Polynomials
  PROVE  /\ Times8(A) \in Polynomials /\ Rest(A) \in Polynomials
         /\ Rest(Times8(A)) = Rest(Times8(Rest(A)))
<1>. DEFINE Shift(B, n) == {k + n : k \in B}
<1>1. ASSUME NEW B \in Polynomials
      PROVE  Times8(B) \in Polynomials /\ Rest(Times8(B)) = Times(Times(Times(Times(Times(Times(Times(Times(Rest(B)))))))))
  <2>0. Shift(B, 0) = B
    BY DEF Polynomials
  <2>1. ASSUME NEW n \in Nat, Shift(B, n) \in Polynomials
        PROVE  Shift(B, n + 1) \in Polynomials /\ Rest(Shift(B, n + 1)) = Times(Rest(Shift(B, n)))
    <3>1. Shift(B, n + 1) = {k + 1 : k \in Shift(B, n)}
      <4>1. \A k \in B : k \in Nat /\ (k + n) + 1 = k + (n + 1)
        BY DEF Polynomials
      <4>. QED BY <4>1
    <3>. DEFINE C == Shift(B, n)
    <3>2. C \in Polynomials
      BY <2>1
    <3>. HIDE DEF C
    <3>3. {k + 1 : k \in C} \in Polynomials /\ Rest({k + 1 : k \in C}) = Times(Rest(C))
      BY <3>2, RestTimes
    <3>. QED BY <3>1, <3>3 DEF C
  <2>2. Times8(B) = Shift(B, 8)
    BY DEF Times8
  <2>. HIDE DEF Shift
  <2>3. Shift(B, 1) \in Polynomials /\ Rest(Shift(B, 1)) = Times(Rest(B))
    BY <2>0, <2>1
  <2>4. Shift(B, 2) \in Polynomials /\ Rest(Shift(B, 2)) = Times(Rest(Shift(B, 1)))
    BY <2>1, <2>3
  <2>5. Shift(B, 3) \in Polynomials /\ Rest(Shift(B, 3)) = Times(Rest(Shift(B, 2)))
    BY <2>1, <2>4
  <2>6. Shift(B, 4) \in Polynomials /\ Rest(Shift(B, 4)) = Times(Rest(Shift(B, 3)))
    BY <2>1, <2>5
  <2>7. Shift(B, 5) \in Polynomials /\ Rest(Shift(B, 5)) = Times(Rest(Shift(B, 4)))
    BY <2>1, <2>6
  <2>8. Shift(B, 6) \in Polynomials /\ Rest(Shift(B, 6)) = Times(Rest(Shift(B, 5)))
    BY <2>1, <2>7
  <2>9. Shift(B, 7) \in Polynomials /\ Rest(Shift(B, 7)) = Times(Rest(Shift(B, 6)))
    BY <2>1, <2>8
  <2>10. Shift(B, 8) \in Polynomials /\ Rest(Shift(B, 8)) = Times(Rest(Shift(B, 7)))
    BY <2>1, <2>9
  <2>. QED BY <2>2, <2>3, <2>4, <2>5, <2>6, <2>7, <2>8, <2>9, <2>10
<1>2. Rest(A) \in Registers
  BY DEF Rest, Registers
<1>. QED BY <1>1, <1>2, RestOfRegister

\* One byte: the upper half of the register and the byte choose an entry.
LEMMA TableStep ==
  ASSUME EntriesRight, NEW A \in Polynomials, NEW byte \in SUBSET (0 .. 7)
  PROVE  LET B == Xor(Times8(A), {k + 16 : k \in byte})
         IN  B \in Polynomials /\ Rest(B) = TableByte(Rest(A), byte)
<1>. DEFINE c == Rest(A)
            low == {k + 8 : k \in Low8(c)}
            Up(b) == {k + 16 : k \in b}
            high == High8(c)
<1>1. c \in Registers
  BY DEF Rest, Registers
<1>2. high \in SUBSET (0 .. 7) /\ Xor(high, byte) \in SUBSET (0 .. 7)
  <2>1. high \in SUBSET (0 .. 7)
    BY DEF High8
  <2>. HIDE DEF high
  <2>. QED BY <2>1 DEF Xor, SymDiff
<1>3. ASSUME NEW b \in SUBSET (0 .. 7) PROVE Up(b) \in Polynomials /\ Entry(b) = Rest(Up(b))
  <2>1. 23 \in Nat /\ Up(b) \in SUBSET (0 .. 23)
    OBVIOUS
  <2>2. Entry(b) = Remainder(Up(b), 23)
    BY EntriesRight DEF EntriesRight
  <2>. HIDE DEF Up
  <2>. QED BY <2>1, <2>2, RestIsRemainder
<1>4. low \in Registers
  BY DEF Low8, Registers, Word
<1>5. low \in Polynomials /\ Rest(low) = low
  <2>1. 15 \in Nat /\ low \in SUBSET (0 .. 15)
    BY <1>4 DEF Registers, Word
  <2>. HIDE DEF low
  <2>2. low \in Polynomials
    BY <2>1, RestIsRemainder
  <2>. QED BY <1>4, <2>2, RestOfRegister
<1>6. Times8(c) = Xor(low, Up(high))
  <2>1. \A k \in c : k \in Word
    BY <1>1 DEF Registers
  <2>2. \A j \in low : j <= 15
    BY <1>4 DEF Registers, Word
  <2>3. \A j \in Up(high) : j >= 16
    BY DEF High8
  <2>4. low \cap Up(high) = {}
    <3>1. \A j \in Up(high) : j \in Int
      BY DEF High8
    <3>. HIDE DEF low, Up
    <3>. QED BY <2>2, <2>3, <3>1
  <2>5. Times8(c) \subseteq low \cup Up(high)
    <3>. SUFFICES ASSUME NEW k \in c PROVE k + 8 \in low \cup Up(high)
      BY DEF Times8
    <3>. HIDE DEF c
    <3>1. CASE k \in 0 .. 7
      BY <3>1 DEF Low8
    <3>2. CASE k \in 8 .. 15
      <4>1. k - 8 \in high /\ k + 8 = (k - 8) + 16
        BY <3>2 DEF High8
      <4>. QED BY <4>1
    <3>. QED BY <2>1, <3>1, <3>2 DEF Word
  <2>6. low \subseteq Times8(c)
    BY DEF Low8, Times8
  <2>7. Up(high) \subseteq Times8(c)
    <3>. SUFFICES ASSUME NEW k \in c \cap (8 .. 15) PROVE (k - 8) + 16 \in Times8(c)
      BY DEF High8
    <3>1. (k - 8) + 16 = k + 8
      OBVIOUS
    <3>. HIDE DEF c
    <3>. QED BY <3>1 DEF Times8
  <2>. HIDE DEF low, Up, high, c
  <2>. QED BY <2>4, <2>5, <2>6, <2>7 DEF Xor, SymDiff
<1>7. Times8(A) \in Polynomials /\ Rest(Times8(A)) = Rest(Times8(c))
  BY RestTimes8
<1>8. Up(Xor(high, byte)) = Xor(Up(high), Up(byte))
  <2>1. \A i, j \in 0 .. 7 : i + 16 = j + 16 => i = j
    OBVIOUS
  <2>. HIDE DEF high
  <2>. QED BY <1>2, <2>1 DEF Xor, SymDiff
<1>9. TableByte(c, byte) = Xor(low, Entry(Xor(high, byte)))
  BY DEF TableByte
<1>. HIDE DEF c, low, high, Up
<1>10. Rest(Xor(Times8(A), Up(byte))) = Xor(Rest(Times8(c)), Rest(Up(byte))) /\ Xor(Times8(A), Up(byte)) \in Polynomials
  BY <1>3, <1>7, RestXor
<1>11. Rest(Times8(c)) = Xor(low, Rest(Up(high)))
  BY <1>2, <1>3, <1>5, <1>6, RestXor
<1>12. Entry(Xor(high, byte)) = Xor(Rest(Up(high)), Rest(Up(byte)))
  BY <1>2, <1>3, <1>8, RestXor
<1>13. \A a, b, d : Xor(Xor(a, b), d) = Xor(a, Xor(b, d))
  BY DEF Xor, SymDiff
<1>14. Rest(Xor(Times8(A), Up(byte))) = TableByte(c, byte)
  BY <1>9, <1>10, <1>11, <1>12, <1>13
<1>. QED BY <1>10, <1>14 DEF Up, c

\* The polynomial of the first n bytes of a block, the upper bits first.
Bit7(data, p)       == (7 - (p % 8)) \in Bits(data[1 + p \div 8])
BytesBlock(data, j) == {8 * j + 15 - p : p \in {q \in 0 .. 8 * j - 1 : Bit7(data, q)}}

LEMMA BytesBlockGrows ==
  ASSUME NEW data \in Seq(Byte), NEW j \in Nat, j < Len(data)
  PROVE  /\ BytesBlock(data, j) \in SUBSET (0 .. 8 * j + 15)
         /\ BytesBlock(data, j + 1) = Xor(Times8(BytesBlock(data, j)), {k + 16 : k \in Bits(data[j + 1])})
<1>. DEFINE n == 8 * j
            A == BytesBlock(data, j)
            byte == Bits(data[j + 1])
            Up == {k + 16 : k \in byte}
<1>1. /\ n \in Nat /\ 8 * (j + 1) = n + 8 /\ j + 1 \in 1 .. Len(data)
      /\ \A i \in 0 .. 7 : (n + i) % 8 = i /\ 1 + (n + i) \div 8 = j + 1
  OBVIOUS
<1>2. byte \in SUBSET (0 .. 7)
  BY <1>1, BitsOfByte
<1>3. ASSUME NEW i \in 0 .. 7 PROVE Bit7(data, n + i) <=> 7 - i \in byte
  BY <1>1 DEF Bit7
<1>4. A = {n + 15 - p : p \in {q \in 0 .. n - 1 : Bit7(data, q)}}
  BY DEF BytesBlock
<1>5. BytesBlock(data, j + 1) = {(n + 8) + 15 - p : p \in {q \in 0 .. (n + 8) - 1 : Bit7(data, q)}}
  BY <1>1 DEF BytesBlock
<1>. HIDE DEF n, byte
<1>6. A \in SUBSET (16 .. n + 15) /\ A \in SUBSET (0 .. n + 15)
  BY <1>1, <1>4
<1>. DEFINE New == BytesBlock(data, j + 1)
<1>7. New \subseteq Times8(A) \cup Up
  <2>. SUFFICES ASSUME NEW p \in 0 .. (n + 8) - 1, Bit7(data, p)
                PROVE  (n + 8) + 15 - p \in Times8(A) \cup Up
    BY <1>5
  <2>1. CASE p \in 0 .. n - 1
    <3>1. n + 15 - p \in A /\ (n + 8) + 15 - p = (n + 15 - p) + 8
      BY <1>1, <1>4, <2>1
    <3>. HIDE DEF A
    <3>. QED BY <3>1 DEF Times8
  <2>2. CASE p \notin 0 .. n - 1
    <3>. DEFINE i == p - n
    <3>1. i \in 0 .. 7 /\ p = n + i /\ (n + 8) + 15 - p = (7 - i) + 16
      BY <1>1, <2>2
    <3>. HIDE DEF i
    <3>2. 7 - i \in byte
      BY <1>3, <3>1
    <3>. QED BY <3>1, <3>2
  <2>. QED BY <2>1, <2>2
<1>8. Times8(A) \subseteq New
  <2>. SUFFICES ASSUME NEW p \in 0 .. n - 1, Bit7(data, p) PROVE (n + 15 - p) + 8 \in New
    BY <1>4 DEF Times8
  <2>1. p \in 0 .. (n + 8) - 1 /\ (n + 15 - p) + 8 = (n + 8) + 15 - p
    BY <1>1
  <2>. HIDE DEF New
  <2>. QED BY <1>5, <2>1 DEF New
<1>9. Up \subseteq New
  <2>. SUFFICES ASSUME NEW k \in byte PROVE k + 16 \in New
    OBVIOUS
  <2>. DEFINE i == 7 - k
  <2>1. /\ i \in 0 .. 7 /\ 7 - i = k /\ n + i \in 0 .. (n + 8) - 1
        /\ (n + 8) + 15 - (n + i) = k + 16
    BY <1>1, <1>2
  <2>. HIDE DEF i
  <2>2. Bit7(data, n + i)
    BY <1>3, <2>1
  <2>. HIDE DEF New
  <2>. QED BY <1>5, <2>1, <2>2 DEF New
<1>10. Times8(A) \cap Up = {}
  <2>1. \A k \in Times8(A) : k \in Int /\ k >= 24
    BY <1>1, <1>6 DEF Times8
  <2>2. \A k \in Up : k \in Int /\ k < 24
    BY <1>2
  <2>. HIDE DEF A, Up
  <2>. QED BY <2>1, <2>2
<1>11. New = Xor(Times8(A), Up)
  <2>. HIDE DEF New, A, Up
  <2>. QED BY <1>7, <1>8, <1>9, <1>10 DEF Xor, SymDiff
<1>. QED BY <1>6, <1>11 DEF n, byte

\* With the right entries the table gives the remainder of every block.
LEMMA TableSumIsRemainder ==
  ASSUME EntriesRight, NEW data \in Seq(Byte)
  PROVE  crc16_using_table(data) = ReferenceTable(data)
<1>. DEFINE n == Len(data)
            P(g) == g = [k \in 0 .. n |-> IF k = 0 THEN {} ELSE TableByte(g[k - 1], Low8(Bits(data[k])))]
            h == CHOOSE g : P(g)
            Now(j) == Rest(BytesBlock(data, j))
            f == [j \in 0 .. n |-> Now(j)]
<1>1. n \in Nat /\ \A j \in 1 .. n : data[j] \in Byte
  OBVIOUS
<1>2. ASSUME NEW k \in 1 .. n PROVE Low8(Bits(data[k])) = Bits(data[k]) /\ Bits(data[k]) \in SUBSET (0 .. 7)
  BY <1>1, BitsOfByte DEF Low8
<1>3. BytesBlock(data, 0) = {}
  BY DEF BytesBlock
<1>4. ASSUME NEW j \in 0 .. n - 1
      PROVE  /\ BytesBlock(data, j) \in Polynomials
             /\ Now(j + 1) = TableByte(Now(j), Low8(Bits(data[j + 1])))
  <2>1. j \in Nat /\ j < Len(data) /\ j + 1 \in 1 .. n /\ 8 * j + 15 \in Nat
    OBVIOUS
  <2>. DEFINE A == BytesBlock(data, j)
              byte == Bits(data[j + 1])
  <2>2. byte \in SUBSET (0 .. 7) /\ Low8(byte) = byte
    BY <1>2, <2>1
  <2>3. A \in SUBSET (0 .. 8 * j + 15)
    BY <2>1, BytesBlockGrows
  <2>4. BytesBlock(data, j + 1) = Xor(Times8(A), {k + 16 : k \in byte})
    BY <2>1, BytesBlockGrows
  <2>. HIDE DEF A, byte
  <2>5. A \in Polynomials
    BY <2>1, <2>3, RestIsRemainder
  <2>6. Rest(Xor(Times8(A), {k + 16 : k \in byte})) = TableByte(Rest(A), byte)
    BY <2>2, <2>5, TableStep
  <2>. QED BY <2>2, <2>4, <2>5, <2>6 DEF A, byte
<1>5. Now(0) = {}
  BY <1>3, RestOfPowers
<1>6. crc16_using_table(data) = h[n]
  BY DEF crc16_using_table
<1>. HIDE DEF n, Now
<1>7. P(f)
  <2>1. \A k \in 0 .. n : f[k] = IF k = 0 THEN {} ELSE TableByte(f[k - 1], Low8(Bits(data[k])))
    <3>. TAKE k \in 0 .. n
    <3>1. CASE k = 0
      BY <1>5, <3>1
    <3>2. CASE k # 0
      <4>. DEFINE j == k - 1
      <4>1. j \in 0 .. n - 1 /\ j \in 0 .. n /\ j + 1 = k
        BY <1>1, <3>2
      <4>. HIDE DEF j
      <4>2. Now(k) = TableByte(Now(j), Low8(Bits(data[k])))
        BY <1>4, <4>1
      <4>3. f[k] = Now(k) /\ f[k - 1] = Now(j)
        BY <4>1 DEF j
      <4>. QED BY <3>2, <4>2, <4>3
    <3>. QED BY <3>1, <3>2
  <2>. QED BY <2>1
<1>8. P(h)
  <2>. HIDE DEF P, f
  <2>. QED BY <1>7
<1>. HIDE DEF h
<1>. DEFINE S == {j \in 0 .. n : h[j] = Now(j)}
<1>9. 0 \in S
  BY <1>1, <1>5, <1>8
<1>10. ASSUME NEW j \in 0 .. n - 1, j \in S PROVE j + 1 \in S
  <2>1. j + 1 \in 0 .. n /\ j + 1 # 0 /\ (j + 1) - 1 = j
    BY <1>1
  <2>2. h[j + 1] = TableByte(h[j], Low8(Bits(data[j + 1])))
    BY <1>8, <2>1
  <2>3. h[j] = Now(j)
    BY <1>10
  <2>. QED BY <1>4, <2>1, <2>2, <2>3
<1>11. h[n] = Now(n)
  <2>1. 0 .. n \subseteq S
    <3>. HIDE DEF S
    <3>. QED BY <1>1, <1>9, <1>10, AllReached
  <2>. QED BY <1>1, <2>1
<1>12. ReferenceTable(data) = Remainder(BytesBlock(data, n), 8 * n + 15)
  BY DEF ReferenceTable, BytesBlock, Bit7, n
<1>13. BytesBlock(data, n) \in SUBSET (0 .. 8 * n + 15) /\ 8 * n + 15 \in Nat
  BY <1>1 DEF BytesBlock
<1>14. Remainder(BytesBlock(data, n), 8 * n + 15) = Now(n)
  BY <1>13, RestIsRemainder DEF Now
<1>. QED BY <1>6, <1>11, <1>12, <1>14

\* crc16_using_table() computes the remainder of every block of every length, as the
\* 256 entries of the table are those of a byte each: TLC decides that they are.
THEOREM TableRemainderOfEveryBlock ==
  ASSUME EntriesRight
  PROVE  Spec => []TableIsRemainder
<1>1. Inv => TableIsRemainder
  <2>1. Inv => Data \in Seq(Byte)
    BY PacketsAssumption DEF PacketsAssumption, Message, Inv, Data
  <2>. QED BY <2>1, TableSumIsRemainder DEF TableIsRemainder
<1>. QED BY <1>1, InitInv, StepInv, PTL DEF Spec
=============================================================================
