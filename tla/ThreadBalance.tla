--------------------------- MODULE ThreadBalance ---------------------------
(***************************************************************************)
(* The two thread pools of server.c as balanceThreads() sees them: every   *)
(* period it reads the length of the queue once and gives each pool a new  *)
(* size.  Any queue is considered, not only the one of fifo.c; the threads *)
(* themselves are in Server.                                               *)
(***************************************************************************)
EXTENDS Balance

CONSTANT Sizes      \* the lengths of the queue that are considered

ASSUME SizesAssumption == Sizes \subseteq Nat /\ 0 \in Sizes

VARIABLES
  current,      \* currentReceiverThreads and currentWorkerThreads
  fifoSize,     \* what fifo_size() returns
  frozen        \* the queue does not change any more

vars == <<current, fifoSize, frozen>>

Init ==
  /\ current = [p \in Pools |-> MinThreads(p)]
  /\ fifoSize = 0
  /\ frozen = FALSE

balanceThreads ==
  /\ current' = [p \in Pools |-> Balanced(p, fifoSize, current[p])]
  /\ UNCHANGED <<fifoSize, frozen>>

\* Any queue: its length may become anything between two periods.
Change ==
  /\ ~frozen
  /\ fifoSize' \in Sizes
  /\ UNCHANGED <<current, frozen>>

\* From now on the queue stays as it is.
Freeze ==
  /\ frozen' = TRUE
  /\ UNCHANGED <<current, fifoSize>>

Next == balanceThreads \/ Change \/ Freeze

Spec == Init /\ [][Next]_vars

\* main() calls balanceThreads() every timeBetweenBalancing seconds.
FairSpec == Spec /\ WF_vars(balanceThreads)

-----------------------------------------------------------------------------
TypeOK ==
  /\ current \in [Pools -> Nat]
  /\ fifoSize \in Sizes
  /\ frozen \in BOOLEAN

\* The comment of balanceThreads(): "Always keeps threads count between
\* respectives min and max limits" (server.c:310), whatever the queue does.  In
\* particular no pool is ever empty, so the divisions are defined.
WithinLimits ==
  \A p \in Pools : MinThreads(p) <= current[p] /\ current[p] <= MaxThreads(p)

\* "Increasing rate is always faster, decreasing not" (server.c:311): a pool
\* loses at most one thread a period, and none while it has too many messages.
ShrinksSlowly ==
  [][\A p \in Pools :
       /\ current'[p] >= current[p] - 1
       /\ Overloaded(p, fifoSize, current[p]) => current'[p] >= current[p]]_vars

\* No flapping: when the queue stays as it is, the pools stop changing.
Settles ==
  frozen ~> []( \A p \in Pools : Balanced(p, fifoSize, current[p]) = current[p])
=============================================================================
