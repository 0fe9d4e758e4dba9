------------------------ MODULE ThreadBalanceProofs ------------------------
(***************************************************************************)
(* Proofs about ThreadBalance: the pools stay within their limits, and     *)
(* shrink slowly, for every number of CPUs and every threshold.            *)
(***************************************************************************)
EXTENDS ThreadBalance, BalanceLemmas

Inv == TypeOK /\ WithinLimits

LEMMA InitInv == Init => Inv
<1>. SUFFICES ASSUME Init PROVE Inv
  OBVIOUS
<1>1. TypeOK
  BY SizesAssumption, LimitsAreNumbers DEF Init, TypeOK
<1>2. WithinLimits
  BY BalanceAssumption DEF Init, WithinLimits, Pools, MinThreads, MaxThreads
<1>. QED BY <1>1, <1>2 DEF Inv

LEMMA NextInv == Inv /\ [Next]_vars => Inv'
<1>. SUFFICES ASSUME Inv, [Next]_vars PROVE Inv'
  OBVIOUS
<1>. USE DEF Inv, TypeOK, WithinLimits
<1>1. CASE balanceThreads
  <2>1. fifoSize \in Nat
    BY SizesAssumption
  <2>2. \A p \in Pools : current[p] \in MinThreads(p) .. MaxThreads(p)
    BY LimitsAreNumbers
  <2>3. \A p \in Pools :
          Balanced(p, fifoSize, current[p]) \in MinThreads(p) .. MaxThreads(p)
    BY <2>1, <2>2, BalancedBounds
  <2>4. \A p \in Pools : current'[p] \in MinThreads(p) .. MaxThreads(p)
    BY <1>1, <2>3 DEF balanceThreads
  <2>5. WithinLimits'
    BY <2>4, LimitsAreNumbers
  <2>6. current' \in [Pools -> Nat]
    BY <1>1, <2>3, LimitsAreNumbers DEF balanceThreads
  <2>. QED BY <1>1, <2>5, <2>6 DEF balanceThreads
<1>2. CASE Change
  BY <1>2 DEF Change
<1>3. CASE Freeze
  BY <1>3 DEF Freeze
<1>4. CASE UNCHANGED vars
  BY <1>4 DEF vars
<1>. QED BY <1>1, <1>2, <1>3, <1>4 DEF Next

\* "Always keeps threads count between respectives min and max limits"
\* (server.c:310), for every machine, every threshold and every queue.
THEOREM LimitsKept == Spec => []WithinLimits
BY InitInv, NextInv, PTL DEF Spec, Inv

\* "Increasing rate is always faster, decreasing not" (server.c:311).
THEOREM SlowShrinking == Spec => ShrinksSlowly
<1>1. Inv /\ [Next]_vars =>
        [\A p \in Pools :
           /\ current'[p] >= current[p] - 1
           /\ Overloaded(p, fifoSize, current[p]) => current'[p] >= current[p]]_vars
  <2>. SUFFICES ASSUME Inv, Next, NEW p \in Pools
                PROVE  /\ current'[p] >= current[p] - 1
                       /\ Overloaded(p, fifoSize, current[p]) => current'[p] >= current[p]
    OBVIOUS
  <2>1. current[p] \in MinThreads(p) .. MaxThreads(p) /\ current[p] \in Nat
    BY LimitsAreNumbers DEF Inv, TypeOK, WithinLimits
  <2>2. fifoSize \in Nat
    BY SizesAssumption DEF Inv, TypeOK
  <2>3. CASE balanceThreads
    <3>1. current'[p] = Balanced(p, fifoSize, current[p])
      BY <2>3 DEF balanceThreads
    <3>. QED BY <2>1, <2>2, <3>1, BalancedBounds
  <2>4. CASE UNCHANGED current
    BY <2>1, <2>4
  <2>. QED BY <2>3, <2>4 DEF Next, Change, Freeze
<1>2. Spec => []Inv
  BY InitInv, NextInv, PTL DEF Spec
<1>. QED BY <1>1, <1>2, PTL DEF Spec, ShrinksSlowly

=============================================================================
