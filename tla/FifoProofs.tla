---------------------------- MODULE FifoProofs ----------------------------
(***************************************************************************)
(* Proofs about FifoClients: whatever the threads, the messages and the    *)
(* interleaving, the mutex protects the queue, a block has one owner, and  *)
(* nobody sleeps through the shutdown.                                     *)
(***************************************************************************)
EXTENDS FifoClients, FifoLemmas, Sequences

-----------------------------------------------------------------------------
(* The inductive invariant.                                                *)

LEMMA ClientStepInv ==
  ASSUME QueueInv, NEW t \in Threads, ClientStep(t)
  PROVE  QueueInv'
<1>. USE FifoAssumption
     DEF QueueInv, TypeOK, Exclusive, StageInv, ListInv, OwnerInv, Functions,
         Stages, Pointers, InBody, Outside, Running, Unlock, Leaving, queueVars
<1>1. CASE Allocate(t)
  BY <1>1 DEF Allocate
<1>2. CASE Release(t)
  BY <1>2 DEF Release
<1>3. CASE CallPut(t)
  BY <1>3 DEF CallPut, Calls
<1>4. CASE CallGet(t)
  BY <1>4 DEF CallGet, Calls
<1>5. CASE CallClose(t)
  BY <1>5 DEF CallClose, Calls
<1>6. CASE CallDrain(t)
  BY <1>6 DEF CallDrain, Calls
<1>7. CASE CallSize(t)
  BY <1>7 DEF CallSize, Calls
<1>8. CASE CallDestroy(t)
  BY <1>8 DEF CallDestroy, Calls
<1>. QED BY <1>1, <1>2, <1>3, <1>4, <1>5, <1>6, <1>7, <1>8 DEF ClientStep

Inv == QueueInv /\ MutualExclusion

LEMMA InitInv == FifoInit => Inv
<1>1. FifoInit => MutualExclusion
  BY DEF FifoInit, MutualExclusion, InBody
<1>. QED BY <1>1, FifoInitInv DEF Inv

LEMMA NextInv == Inv /\ [Next]_fifoVars => Inv'
<1>. SUFFICES ASSUME Inv, [Next]_fifoVars PROVE Inv'
  OBVIOUS
<1>1. CASE UNCHANGED fifoVars
  BY <1>1, QueueStutters DEF Inv, MutualExclusion, InBody, fifoVars, queueVars, threadVars
<1>2. ASSUME NEW t \in Threads, FifoStep(t) PROVE MutualExclusion'
  BY <1>2, FifoStepMutex DEF Inv
<1>3. ASSUME NEW t \in Threads, SpuriousWakeup(t) \/ ClientStep(t) PROVE MutualExclusion'
  BY <1>3 DEF Inv, QueueInv, TypeOK, Stages, MutualExclusion, InBody, Outside, queueVars,
     SpuriousWakeup, ClientStep, Allocate, Release, CallPut, CallGet, CallClose, CallDrain,
     CallSize, CallDestroy, Calls
<1>. QED BY <1>1, <1>2, <1>3, FifoStepInv, SpuriousInv, ClientStepInv DEF Next, Inv

THEOREM InvHolds == Spec => []Inv
BY InitInv, NextInv, PTL DEF Spec

-----------------------------------------------------------------------------
(* What follows from it.                                                   *)

\* Every field holds a value of its type in every run of every client; fifo_get()
\* never returns the garbage of an uninitialised next field.
THEOREM TypeCorrect == Spec => []TypeOK
BY InvHolds, PTL DEF Inv, QueueInv

\* The critical sections of fifo.c exclude each other, and while the destruction
\* has not been prepared no thread walks away with the mutex.
THEOREM MutexProtects == Spec => []MutualExclusion
BY InvHolds, PTL DEF Inv

\* No block is used by two: not by two threads, not by a thread and the queue.
THEOREM OneOwner == Spec => []SingleOwner
<1>1. Inv => SingleOwner
  BY OwnedOnce DEF Inv
<1>. QED BY <1>1, InvHolds, PTL

-----------------------------------------------------------------------------
(* Nobody sleeps through the shutdown.                                     *)

\* The steps that neither put a thread to sleep nor finish a broadcast.
LEMMA WakesAllStep ==
  ASSUME Inv, ClosedWakesAll, NEW t \in Threads,
         FifoStep(t) \/ SpuriousWakeup(t) \/ ClientStep(t)
  PROVE  ClosedWakesAll'
<1>. USE DEF Inv, QueueInv, TypeOK, StageInv, ClosedWakesAll, Sleeping, Outside, InBody, Running,
             Unlock, Leaving, Stages, queueVars
<1>1. CASE Lock(t) \/ SpuriousWakeup(t)
  BY <1>1 DEF Lock, SpuriousWakeup
<1>2. CASE PutRefused(t) \/ PutFirst(t) \/ PutBehind(t) \/ PutSignal(t)
  BY <1>2 DEF PutRefused, PutFirst, PutBehind, PutSignal, Accept
<1>3. CASE GetWait(t) \/ GetTake(t) \/ GetNothing(t)
  BY <1>3 DEF GetWait, GetTake, GetNothing
<1>4. CASE CloseBody(t) \/ CloseBroadcast(t)
  BY <1>4 DEF CloseBody, CloseBroadcast
<1>5. CASE DrainWait(t) \/ DrainDone(t) \/ SizeBody(t) \/ DestroyBody(t)
  BY <1>5 DEF DrainWait, DrainDone, SizeBody, DestroyBody
<1>6. CASE ClientStep(t)
  BY <1>6 DEF ClientStep, Allocate, Release, CallPut, CallGet, CallClose, CallDrain,
              CallSize, CallDestroy, Calls
<1>. QED BY <1>1, <1>2, <1>3, <1>4, <1>5, <1>6 DEF FifoStep

\* After the broadcast of fifo_prepare_destroy() no thread sleeps on `empty'.
THEOREM WakesAll == Spec => []ClosedWakesAll
<1>1. FifoInit => ClosedWakesAll
  BY DEF FifoInit, ClosedWakesAll
<1>2. Inv /\ ClosedWakesAll /\ [Next]_fifoVars => ClosedWakesAll'
  <2>1. CASE UNCHANGED fifoVars
    BY <2>1 DEF ClosedWakesAll, Sleeping, fifoVars, queueVars, threadVars
  <2>. QED BY <2>1, WakesAllStep DEF Next
<1>. QED BY <1>1, <1>2, InvHolds, PTL DEF Spec

-----------------------------------------------------------------------------
(* No wake-up is lost.                                                     *)

\* With no early call of fifo_wait_empty_on_destruction() only getters sleep.
GettersSleep ==
  /\ \A t \in Threads : call[t] = "drain" /\ ~Outside(t) => preparedForDestruction
  /\ \A t \in Sleeping : call[t] = "get"

LEMMA NoLostWakeupStep ==
  ASSUME ~EarlyDrain, Inv, GettersSleep, NoLostWakeup, NEW t \in Threads,
         FifoStep(t) \/ SpuriousWakeup(t) \/ ClientStep(t)
  PROVE  GettersSleep' /\ NoLostWakeup'
<1>. USE DEF Inv, QueueInv, TypeOK, StageInv, ListInv, GettersSleep, NoLostWakeup, Sleeping, Outside,
             InBody, Running, Unlock, Leaving, Stages, queueVars
<1>1. CASE Lock(t) \/ SpuriousWakeup(t)
  BY <1>1 DEF Lock, SpuriousWakeup
<1>2. CASE PutRefused(t) \/ PutFirst(t) \/ PutBehind(t)
  BY <1>2 DEF PutRefused, PutFirst, PutBehind, Accept
<1>3. CASE PutSignal(t)
  BY <1>3 DEF PutSignal
<1>4. CASE GetWait(t) \/ GetTake(t) \/ GetNothing(t)
  BY <1>4 DEF GetWait, GetTake, GetNothing
<1>5. CASE CloseBody(t) \/ CloseBroadcast(t)
  BY <1>5 DEF CloseBody, CloseBroadcast
<1>6. CASE DrainWait(t) \/ DrainDone(t) \/ SizeBody(t) \/ DestroyBody(t)
  BY <1>6 DEF DrainWait, DrainDone, SizeBody, DestroyBody
<1>7. CASE ClientStep(t)
  BY <1>7 DEF ClientStep, Allocate, Release, CallPut, CallGet, CallClose, CallDrain,
              CallSize, CallDestroy, Calls
<1>. QED BY <1>1, <1>2, <1>3, <1>4, <1>5, <1>6, <1>7 DEF FifoStep

\* While a message waits and a getter sleeps, the getter is about to be woken or
\* another getter is about to take the message.
THEOREM WakeupsKept == ASSUME ~EarlyDrain PROVE Spec => []NoLostWakeup
<1>1. FifoInit => GettersSleep /\ NoLostWakeup
  BY DEF FifoInit, GettersSleep, NoLostWakeup, Sleeping, Outside
<1>2. Inv /\ GettersSleep /\ NoLostWakeup /\ [Next]_fifoVars => GettersSleep' /\ NoLostWakeup'
  <2>1. CASE UNCHANGED fifoVars
    BY <2>1 DEF GettersSleep, NoLostWakeup, Sleeping, Outside, fifoVars, queueVars, threadVars
  <2>. QED BY <2>1, NoLostWakeupStep DEF Next
<1>. QED BY <1>1, <1>2, InvHolds, PTL DEF Spec

-----------------------------------------------------------------------------
(* The size counts the messages accepted and not delivered.                *)

LEMMA AcceptCounted ==
  ASSUME Cardinality(Messages) < UintRange, Inv, SizeCountsAccepted,
         NEW t \in Threads, Accept(t)
  PROVE  SizeCountsAccepted'
<1>. USE DEF Inv
<1>1. CASE ~preparedForDestruction /\ ~destroyed
  <2>1. size = Cardinality(Accepted)
    BY <1>1 DEF SizeCountsAccepted, Accepted
  <2>2. size + 1 \in 0 .. UintRange - 1 /\ UintRange \in Nat \ {0}
    BY <2>1, AcceptAdds, AcceptedFinite, FifoAssumption DEF FifoAssumption
  <2>3. (size + 1) % UintRange = size + 1
    BY <2>2
  <2>. QED BY <2>1, <2>3, AcceptAdds DEF Accept, SizeCountsAccepted, Accepted
<1>. QED BY <1>1 DEF Accept, SizeCountsAccepted

LEMMA TakeCounted ==
  ASSUME Cardinality(Messages) < UintRange, Inv, SizeCountsAccepted,
         NEW t \in Threads, GetTake(t)
  PROVE  SizeCountsAccepted'
<1>. USE DEF Inv
<1>1. CASE ~preparedForDestruction /\ ~destroyed
  <2>1. size = Cardinality(Accepted)
    BY <1>1 DEF SizeCountsAccepted, Accepted
  <2>2. size \in 0 .. UintRange - 1 /\ size # 0
    BY <2>1, TakeRemoves, AcceptedFinite DEF QueueInv, TypeOK
  <2>3. (size - 1) % UintRange = size - 1
    BY <2>2, FifoAssumption DEF FifoAssumption
  <2>. QED BY <2>1, <2>3, TakeRemoves DEF GetTake, SizeCountsAccepted, Accepted
<1>. QED BY <1>1 DEF GetTake, SizeCountsAccepted

LEMMA CountKept ==
  ASSUME SizeCountsAccepted, Accepted' = Accepted,
         size' = size \/ preparedForDestruction' \/ destroyed',
         preparedForDestruction => preparedForDestruction',
         destroyed => destroyed'
  PROVE  SizeCountsAccepted'
BY DEF SizeCountsAccepted, Accepted

LEMMA SizeStep ==
  ASSUME Cardinality(Messages) < UintRange, Inv, SizeCountsAccepted,
         NEW t \in Threads, FifoStep(t) \/ SpuriousWakeup(t) \/ ClientStep(t)
  PROVE  SizeCountsAccepted'
<1>. USE DEF queueVars
<1>1. CASE Accept(t)
  BY <1>1, AcceptCounted
<1>2. CASE GetTake(t)
  BY <1>2, TakeCounted
<1>3. CASE \/ Lock(t) \/ SpuriousWakeup(t) \/ PutRefused(t) \/ PutSignal(t) \/ GetWait(t)
           \/ CloseBroadcast(t) \/ DrainWait(t) \/ DrainDone(t) \/ SizeBody(t)
  BY <1>3, CountKept
  DEF Lock, SpuriousWakeup, PutRefused, PutSignal, GetWait, CloseBroadcast, DrainWait,
      DrainDone, SizeBody, Accepted, Holders
<1>4. CASE GetNothing(t) \/ CloseBody(t) \/ DestroyBody(t)
  BY <1>4 DEF GetNothing, CloseBody, DestroyBody, SizeCountsAccepted
<1>5. CASE Allocate(t)
  <2>1. PICK m \in Messages \ live : /\ message' = [message EXCEPT ![t] = m]
                                     /\ live' = live \cup {m}
    BY <1>5 DEF Allocate
  <2>2. message[t] = NULL
    BY <1>5 DEF Allocate
  <2>3. Accepted' = Accepted
    BY <2>1, <2>2, FifoAssumption DEF Accepted, Holders, Inv, QueueInv, TypeOK
  <2>. QED BY <1>5, <2>3, CountKept DEF Allocate
<1>6. CASE Release(t)
  <2>1. Accepted' = Accepted
    BY <1>6, FifoAssumption DEF Release, Accepted, Holders, Inv, QueueInv, TypeOK
  <2>. QED BY <1>6, <2>1, CountKept DEF Release
<1>7. CASE \/ CallPut(t) \/ CallGet(t) \/ CallClose(t) \/ CallDrain(t)
           \/ CallSize(t) \/ CallDestroy(t)
  BY <1>7, CountKept
  DEF CallPut, CallGet, CallClose, CallDrain, CallSize, CallDestroy, Calls, Accepted, Holders
<1>. QED
  BY <1>1, <1>2, <1>3, <1>4, <1>5, <1>6, <1>7 DEF FifoStep, ClientStep, PutFirst, PutBehind

\* fifo_size() counts the messages accepted and not delivered, the lost ones
\* included, if an unsigned int can hold their number.
THEOREM SizeIsCount ==
  ASSUME Cardinality(Messages) < UintRange
  PROVE  Spec => []SizeCountsAccepted
<1>1. FifoInit => SizeCountsAccepted
  <2>. SUFFICES ASSUME FifoInit PROVE Accepted = {} /\ size = 0
    BY FS_EmptySet DEF SizeCountsAccepted, Accepted
  <2>. QED BY DEF FifoInit, Accepted
<1>2. Inv /\ SizeCountsAccepted /\ [Next]_fifoVars => SizeCountsAccepted'
  <2>1. CASE UNCHANGED fifoVars
    BY <2>1 DEF SizeCountsAccepted, Holders, fifoVars, queueVars, threadVars
  <2>. QED BY <2>1, SizeStep DEF Next
<1>. QED BY <1>1, <1>2, InvHolds, PTL DEF Spec

-----------------------------------------------------------------------------
(* fifo.c implements MessageQueue.                                         *)

LEMMA ChainIsHead ==
  ASSUME TypeOK, ListInv
  PROVE  Chain = IF head = NULL THEN <<>> ELSE <<head>>
<1>1. CASE head = NULL
  <2>1. Cardinality(Queued) = 0
    BY <1>1, QueuedIsHead, FS_EmptySet
  <2>. QED BY <1>1, <2>1 DEF Chain
<1>2. CASE head # NULL
  <2>1. Queued = {head} /\ Cardinality(Queued) = 1
    BY <1>2, QueuedIsHead, FS_Singleton
  <2>2. \A s \in [1 .. 1 -> {head}] : s = <<head>>
    OBVIOUS
  <2>3. <<head>> \in [1 .. 1 -> {head}] /\ \A k \in DOMAIN <<head>> : k = 1 /\ <<head>>[k] = head
    OBVIOUS
  <2>. QED BY <1>2, <2>1, <2>2, <2>3 DEF Chain
<1>. QED BY <1>1, <1>2

OneLink == Chain = IF head = NULL THEN <<>> ELSE <<head>>

LEMMA ChainIsHeadNow == Inv => OneLink
BY ChainIsHead DEF Inv, QueueInv, Exclusive, OneLink

LEMMA ChainIsHeadNext == Inv' => OneLink'
BY ChainIsHeadNow, PTL

\* Most steps change nothing that a client can see.
LEMMA InvisibleStep ==
  ASSUME Inv, Inv', UNCHANGED <<head, preparedForDestruction, message>>
  PROVE  UNCHANGED Abstract!vars
BY ChainIsHeadNow, ChainIsHeadNext DEF OneLink, Abstract!vars

LEMMA FifoStepImplements ==
  ASSUME Inv, Inv', NEW t \in Threads, FifoStep(t)
  PROVE  Abstract!Next \/ UNCHANGED Abstract!vars
<1>. USE ChainIsHeadNow, ChainIsHeadNext, FifoAssumption DEF Inv, QueueInv, Exclusive, TypeOK, OneLink, queueVars
<1>1. CASE \/ Lock(t) \/ PutRefused(t) \/ PutSignal(t) \/ GetWait(t)
           \/ CloseBroadcast(t) \/ DrainWait(t) \/ DrainDone(t) \/ SizeBody(t)
  BY <1>1, InvisibleStep
  DEF Lock, PutRefused, PutSignal, GetWait, CloseBroadcast, DrainWait, DrainDone, SizeBody
<1>2. CASE GetNothing(t)
  BY <1>2, InvisibleStep DEF GetNothing, StageInv, Running, InBody, Outside
<1>3. CASE PutFirst(t)
  <2>1. Chain = <<>> /\ Chain' = <<message[t]>> /\ message[t] # NULL
    BY <1>3 DEF PutFirst, Accept, ListInv, StageInv, Running, InBody
  <2>2. Chain' = Append(Chain, message[t])
    BY <2>1
  <2>3. Abstract!Put(t)
    BY <1>3, <2>1, <2>2 DEF Abstract!Put, PutFirst, Accept
  <2>. QED BY <2>3 DEF Abstract!Next
<1>4. CASE PutBehind(t)
  <2>1. Abstract!Put(t)
    BY <1>4 DEF Abstract!Put, PutBehind, Accept, ListInv, StageInv, Running, InBody
  <2>. QED BY <2>1 DEF Abstract!Next
<1>5. CASE GetTake(t)
  <2>1. Chain = <<head>> /\ Chain' = <<>> /\ message[t] = NULL
    BY <1>5 DEF GetTake, ListInv, StageInv, Running, InBody, Outside
  <2>2. Chain # <<>> /\ Head(Chain) = head /\ Chain' = Tail(Chain)
    BY <2>1
  <2>3. Abstract!Get(t)
    BY <1>5, <2>1, <2>2 DEF Abstract!Get, GetTake
  <2>. QED BY <2>3 DEF Abstract!Next
<1>6. CASE CloseBody(t)
  BY <1>6 DEF CloseBody, Abstract!Close, Abstract!Next
<1>7. CASE DestroyBody(t)
  BY <1>7 DEF DestroyBody, Abstract!Clear, Abstract!Next
<1>. QED BY <1>1, <1>2, <1>3, <1>4, <1>5, <1>6, <1>7 DEF FifoStep

LEMMA ClientStepImplements ==
  ASSUME Inv, Inv', NEW t \in Threads, ClientStep(t)
  PROVE  Abstract!Next \/ UNCHANGED Abstract!vars
<1>. USE ChainIsHeadNow, ChainIsHeadNext, FifoAssumption DEF Inv, QueueInv, Exclusive, TypeOK, OneLink, queueVars
<1>1. CASE Allocate(t)
  <2>1. PICK m \in Messages \ live : message' = [message EXCEPT ![t] = m]
    BY <1>1 DEF Allocate
  <2>2. m \notin Abstract!Owned
    BY <2>1 DEF Abstract!Owned, OwnerInv
  <2>3. m \notin Abstract!Waiting
    BY <2>1 DEF Abstract!Waiting, ListInv
  <2>4. Abstract!Obtain(t)
    BY <1>1, <2>1, <2>2, <2>3 DEF Abstract!Obtain, Allocate
  <2>. QED BY <2>4 DEF Abstract!Next
<1>2. CASE Release(t)
  <2>1. Abstract!Discard(t)
    BY <1>2 DEF Abstract!Discard, Release
  <2>. QED BY <2>1 DEF Abstract!Next
<1>3. CASE \/ CallPut(t) \/ CallGet(t) \/ CallClose(t) \/ CallDrain(t)
           \/ CallSize(t) \/ CallDestroy(t)
  BY <1>3, InvisibleStep
  DEF CallPut, CallGet, CallClose, CallDrain, CallSize, CallDestroy, Calls
<1>. QED BY <1>1, <1>2, <1>3 DEF ClientStep

\* What TLC checks on three threads and three messages, for any number of them:
\* fifo.c implements the lossy queue.
THEOREM Implements == Spec => ImplementsMessageQueue
<1>1. FifoInit => Abstract!Init
  <2>. SUFFICES ASSUME FifoInit PROVE Abstract!Init
    OBVIOUS
  <2>. QED BY InitInv, ChainIsHeadNow DEF OneLink, FifoInit, Abstract!Init
<1>2. Inv /\ Inv' /\ [Next]_fifoVars => [Abstract!Next]_(Abstract!vars)
  <2>. SUFFICES ASSUME Inv, Inv', [Next]_fifoVars
                PROVE  Abstract!Next \/ UNCHANGED Abstract!vars
    OBVIOUS
  <2>1. ASSUME NEW t \in Threads, SpuriousWakeup(t) PROVE UNCHANGED Abstract!vars
    BY <2>1, InvisibleStep DEF SpuriousWakeup, queueVars
  <2>2. CASE UNCHANGED fifoVars
    BY <2>2, InvisibleStep DEF fifoVars, queueVars, threadVars
  <2>. QED BY <2>1, <2>2, FifoStepImplements, ClientStepImplements DEF Next
<1>. QED
  BY <1>1, <1>2, InvHolds, PTL DEF Spec, ImplementsMessageQueue, Abstract!Spec

=============================================================================
