--------------------------- MODULE BalanceLemmas ---------------------------
(***************************************************************************)
(* What the arithmetic of balanceThreads() gives, for any machine,         *)
(* thresholds and queue; used by ThreadBalanceProofs and ServerProofs.     *)
(***************************************************************************)
EXTENDS Balance, TLAPS

LEMMA LimitsAreNumbers ==
  \A p \in Pools : MinThreads(p) \in Nat \ {0} /\ MaxThreads(p) \in Nat
BY BalanceAssumption DEF Pools, MinThreads, MaxThreads

\* Division rounds down.
LEMMA DivBounds ==
  ASSUME NEW s \in Nat, NEW d \in Nat \ {0}
  PROVE  /\ s \div d \in Nat
         /\ d * (s \div d) <= s
         /\ s < d * (s \div d) + d
OBVIOUS

\* If every one of c threads has more than d messages, d messages each are enough
\* for c threads at least.
LEMMA EnoughForAll ==
  ASSUME NEW s \in Nat, NEW c \in Nat \ {0}, NEW d \in Nat \ {0}, s \div c > d
  PROVE  s \div d >= c
<1>1. c * (d + 1) <= s
  <2>. DEFINE q == s \div c
  <2>1. q \in Nat /\ q >= d + 1 /\ c * q <= s
    BY DivBounds
  <2>. HIDE DEF q
  <2>2. c * (d + 1) <= c * q
    BY <2>1
  <2>. QED BY <2>1, <2>2
<1>. DEFINE r == s \div d
<1>2. r \in Nat /\ s < d * r + d
  BY DivBounds
<1>. SUFFICES ASSUME r <= c - 1 PROVE FALSE
  BY <1>2
<1>. HIDE DEF r
<1>3. d * r <= d * (c - 1)
  BY <1>2
<1>. QED BY <1>1, <1>2, <1>3

\* One call of set...Threads(): the new size of a pool is within its limits, and
\* at most one thread smaller; not smaller at all if the pool is overloaded.
LEMMA BalancedBounds ==
  ASSUME NEW p \in Pools, NEW s \in Nat,
         NEW c \in MinThreads(p) .. MaxThreads(p)
  PROVE  /\ Balanced(p, s, c) \in MinThreads(p) .. MaxThreads(p)
         /\ Balanced(p, s, c) >= c - 1
         /\ Overloaded(p, s, c) => Balanced(p, s, c) >= c
<1>1. /\ MinThreads(p) \in Nat \ {0}
      /\ MaxThreads(p) \in Nat \ {0}
      /\ MinThreads(p) <= MaxThreads(p)
      /\ c \in Nat \ {0}
  BY BalanceAssumption DEF Pools, MinThreads, MaxThreads
<1>2. DesiredMessages(p) \in Nat \ {0}
  BY BalanceAssumption DEF DesiredMessages
<1>. USE <1>1, <1>2
<1>3. CASE Overloaded(p, s, c)
  <2>1. s \div DesiredMessages(p) >= c /\ s \div DesiredMessages(p) \in Nat
    BY <1>3, EnoughForAll, DivBounds DEF Overloaded
  <2>2. Balanced(p, s, c) \in c .. MaxThreads(p)
    BY <1>3, <2>1 DEF Balanced, Grown
  <2>. QED BY <2>2
<1>4. CASE ~Overloaded(p, s, c) /\ Idle(p, s, c)
  BY <1>4 DEF Balanced, Shrunk
<1>5. CASE ~Overloaded(p, s, c) /\ ~Idle(p, s, c)
  BY <1>5 DEF Balanced
<1>. QED BY <1>3, <1>4, <1>5

-----------------------------------------------------------------------------
(* When a pool never shrinks.                                              *)

\* Pool p has no more than its first n threads, or s messages asked for all of them.
Backed(p, n, s) == n > MinThreads(p) => DesiredMessages(p) * n <= s

LEMMA BackedLonger ==
  ASSUME NEW p \in Pools, NEW n \in Nat, NEW s \in Nat, NEW r \in Nat, s <= r, Backed(p, n, s)
  PROVE  Backed(p, n, r)
<1>1. DesiredMessages(p) * n \in Nat
  BY BalanceAssumption DEF DesiredMessages, BalanceAssumption
<1>. DEFINE m == DesiredMessages(p) * n
<1>. HIDE DEF m
<1>2. m \in Nat /\ (n > MinThreads(p) => m <= s)
  BY <1>1 DEF Backed, m
<1>3. n > MinThreads(p) => m <= r
  BY <1>2
<1>. QED BY <1>3 DEF Backed, m

\* A pool that grew when the queue was at most one message longer than now does not
\* shrink, as long as a thread is idle at fewer messages than it is created for; and
\* what it grows to is asked for by the messages there are.
LEMMA NeverShrinks ==
  ASSUME NEW p \in Pools, NEW s \in Nat, NEW c \in MinThreads(p) .. MaxThreads(p),
         MinMessages(p) < DesiredMessages(p), Backed(p, c, s + 1)
  PROVE  /\ Balanced(p, s, c) >= c
         /\ Balanced(p, s, c) # c => DesiredMessages(p) * Balanced(p, s, c) <= s
<1>. DEFINE d == DesiredMessages(p)
            q == s \div c
<1>1. /\ MinThreads(p) \in Nat \ {0} /\ MaxThreads(p) \in Nat
      /\ c \in Nat \ {0} /\ d \in Nat \ {0} /\ MinMessages(p) \in Nat
  BY LimitsAreNumbers, BalanceAssumption DEF BalanceAssumption, DesiredMessages, MinMessages
<1>2. CASE Overloaded(p, s, c)
  <2>1. Balanced(p, s, c) = Grown(p, s) /\ Balanced(p, s, c) >= c
    BY <1>2, BalancedBounds DEF Balanced
  <2>2. d * Grown(p, s) <= s
    <3>. DEFINE k == s \div d
    <3>1. k \in Nat /\ d * k <= s
      BY <1>1, DivBounds
    <3>. HIDE DEF k, d
    <3>2. Grown(p, s) = k \/ (Grown(p, s) = MaxThreads(p) /\ MaxThreads(p) <= k)
      BY DEF Grown, k, d
    <3>3. MaxThreads(p) <= k => d * MaxThreads(p) <= d * k
      BY <1>1, <3>1
    <3>4. d * MaxThreads(p) \in Nat /\ d * k \in Nat
      BY <1>1, <3>1
    <3>. QED BY <3>1, <3>2, <3>3, <3>4
  <2>. QED BY <2>1, <2>2
<1>3. CASE ~Overloaded(p, s, c) /\ c = MinThreads(p)
  BY <1>1, <1>3 DEF Balanced, Shrunk
<1>4. CASE ~Overloaded(p, s, c) /\ c > MinThreads(p)
  <2>1. q \in Nat /\ s < c * q + c /\ d * c <= s + 1
    BY <1>1, <1>4, DivBounds DEF Backed
  <2>. SUFFICES ~Idle(p, s, c)
    BY <1>1, <1>4 DEF Balanced
  <2>. SUFFICES ASSUME q <= d - 2 PROVE FALSE
    BY <1>1, <2>1 DEF Idle
  <2>. HIDE DEF q, d
  <2>2. c * q <= c * (d - 2)
    BY <1>1, <2>1
  <2>. QED BY <1>1, <1>4, <2>1, <2>2
<1>. QED BY <1>1, <1>2, <1>3, <1>4

\* If a worker is asked for by at most half as many messages as a receiver, the
\* messages that ask for r receivers ask for more workers than that.
LEMMA MoreWorkers ==
  ASSUME 2 * desiredMessagesPerWorkerThread <= desiredMessagesPerReceiverThread,
         NEW s \in Nat, NEW c \in MinThreads("workers") .. MaxThreads("workers"),
         NEW r \in 1 .. MaxThreads("receivers"),
         desiredMessagesPerReceiverThread * r <= s,
         Balanced("workers", s, c) >= c
  PROVE  r < Balanced("workers", s, c)
<1>. DEFINE d == desiredMessagesPerWorkerThread
            e == desiredMessagesPerReceiverThread
            q == s \div c
            k == s \div d
<1>1. /\ CpuCount \in Nat \ {0} /\ d \in Nat \ {0} /\ e \in Nat \ {0} /\ 2 * d <= e
      /\ c \in Nat \ {0} /\ c >= 2 /\ r \in Nat \ {0} /\ r <= CpuCount
      /\ MaxThreads("workers") = 2 * CpuCount
      /\ DesiredMessages("workers") = d
  BY BalanceAssumption DEF BalanceAssumption, MinThreads, MaxThreads, DesiredMessages
<1>. HIDE DEF d, e
<1>2. d * (2 * r) <= s
  <2>1. (2 * d) * r <= e * r
    BY <1>1
  <2>. QED BY <1>1, <2>1 DEF e
<1>3. CASE Overloaded("workers", s, c)
  <2>1. k \in Nat /\ s < d * k + d
    BY <1>1, DivBounds
  <2>. HIDE DEF k
  <2>2. r < k
    <3>. SUFFICES ASSUME k <= r PROVE FALSE
      BY <1>1, <2>1
    <3>1. d * k <= d * r
      BY <1>1, <2>1
    <3>2. d * (2 * r) = d * r + d * r /\ d * r >= d
      BY <1>1
    <3>. QED BY <1>1, <1>2, <2>1, <3>1, <3>2
  <2>3. Balanced("workers", s, c) = IF k >= 2 * CpuCount THEN 2 * CpuCount ELSE k
    BY <1>1, <1>3 DEF Balanced, Grown, k
  <2>. QED BY <1>1, <2>1, <2>2, <2>3
<1>4. CASE ~Overloaded("workers", s, c)
  <2>1. q \in Nat /\ s < c * q + c /\ q <= d
    BY <1>1, <1>4, DivBounds DEF Overloaded
  <2>. HIDE DEF q
  <2>2. r < c
    <3>. SUFFICES ASSUME c <= r PROVE FALSE
      BY <1>1
    <3>1. c * q + c <= c * d + c
      BY <1>1, <2>1
    <3>2. c * d + c <= r * d + r
      BY <1>1
    <3>3. d * (2 * r) = r * d + r * d /\ r <= r * d
      BY <1>1
    <3>. QED BY <1>1, <1>2, <2>1, <3>1, <3>2, <3>3
  <2>3. Balanced("workers", s, c) \in Int
    <3>1. "workers" \in Pools
      BY DEF Pools
    <3>2. Balanced("workers", s, c) \in MinThreads("workers") .. MaxThreads("workers")
      BY <3>1, BalancedBounds
    <3>. QED BY <1>1, <3>2 DEF MinThreads
  <2>. QED BY <1>1, <2>2, <2>3
<1>. QED BY <1>3, <1>4
=============================================================================
