------------------------------ MODULE Balance ------------------------------
(***************************************************************************)
(* The arithmetic of balanceThreads() in server.c: how many receiver and   *)
(* worker threads there should be, given the length of the queue.          *)
(***************************************************************************)
EXTENDS Integers

CONSTANTS
  CpuCount,                          \* sysconf( _SC_NPROCESSORS_ONLN )
  minMessagesPerReceiverThread,      \* 10, 100, 10 and 50 in server.h
  desiredMessagesPerReceiverThread,
  minMessagesPerWorkerThread,
  desiredMessagesPerWorkerThread

ASSUME BalanceAssumption ==
  /\ CpuCount \in Nat \ {0}
  /\ minMessagesPerReceiverThread \in Nat
  /\ minMessagesPerWorkerThread \in Nat
  /\ desiredMessagesPerReceiverThread \in Nat \ {0}
  /\ desiredMessagesPerWorkerThread \in Nat \ {0}
  /\ minMessagesPerReceiverThread <= desiredMessagesPerReceiverThread
  /\ minMessagesPerWorkerThread <= desiredMessagesPerWorkerThread

Pools == {"receivers", "workers"}

MinThreads(p) == IF p = "receivers" THEN 1 ELSE 2
MaxThreads(p) == MinThreads(p) * CpuCount

MinMessages(p) ==
  IF p = "receivers" THEN minMessagesPerReceiverThread ELSE minMessagesPerWorkerThread

\* Fault: the two pools' thresholds are swapped.
DesiredMessages_Swapped(p) ==
  IF p = "receivers" THEN desiredMessagesPerWorkerThread
                     ELSE desiredMessagesPerReceiverThread

DesiredMessages(p) ==
  IF p = "receivers" THEN desiredMessagesPerReceiverThread
                     ELSE desiredMessagesPerWorkerThread

\* As many threads as the queue asks for, but no more than the limit.
Grown(p, size) ==
  LET threadsCount == size \div DesiredMessages(p)
  IN  IF threadsCount >= MaxThreads(p) THEN MaxThreads(p) ELSE threadsCount

\* Fault: down to the limit at once.
Shrunk_AtOnce(p, current) == MinThreads(p)

\* Fault: the lower limit is not enforced.
Shrunk_NoLimit(p, current) == current - 1

\* One thread less, but no fewer than the limit.
Shrunk(p, current) ==
  IF current - 1 <= MinThreads(p) THEN MinThreads(p) ELSE current - 1

Overloaded(p, size, current) == size \div current > DesiredMessages(p)
Idle(p, size, current)       == size \div current < MinMessages(p)

\* Fault: the upper limit is not enforced.
Balanced_NoCap(p, size, current) ==
  IF Overloaded(p, size, current) THEN size \div DesiredMessages(p)
  ELSE IF Idle(p, size, current) THEN Shrunk(p, current)
  ELSE current

\* Fault: a thread too many whenever the pool is not overloaded.
Balanced_NoIdleTest(p, size, current) ==
  IF Overloaded(p, size, current) THEN Grown(p, size) ELSE Shrunk(p, current)

\* The size of pool p after balanceThreads() found `size' messages queued.
Balanced(p, size, current) ==
  IF Overloaded(p, size, current) THEN Grown(p, size)
  ELSE IF Idle(p, size, current) THEN Shrunk(p, current)
  ELSE current
=============================================================================
