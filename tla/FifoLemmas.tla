---------------------------- MODULE FifoLemmas ----------------------------
(***************************************************************************)
(* What every step of fifo.c keeps, for any threads and messages and       *)
(* whoever calls it: the part of the proofs about the queue that those     *)
(* about its clients (FifoProofs) and about the server (ServerProofs)      *)
(* share.                                                                  *)
(***************************************************************************)
EXTENDS Fifo, FiniteSetTheorems, TLAPS

-----------------------------------------------------------------------------
(* The invariant.                                                          *)

\* Which function a thread can be in at each stage, and with what in its hands.
StageInv ==
  \A t \in Threads :
    /\ stage[t] \in {"asleep", "woken"} => call[t] \in {"get", "drain"}
    /\ stage[t] = "signal" => call[t] \in {"put", "close"}
    /\ (call[t] = "put" /\ stage[t] \in {"lock", "body"}) => message[t] # NULL
    /\ (call[t] = "get" /\ ~Outside(t)) => message[t] = NULL

\* The list never has more than one block: `foot' stays set after the block it
\* points to has been taken, so `head' is set again only after a reset of both.
ListInv ==
  /\ foot = NULL => head = NULL
  /\ head # NULL => head \in live /\ next[head] = NULL

\* Who owns the blocks.
OwnerInv ==
  /\ \A t \in Threads : message[t] # NULL => message[t] \in live /\ message[t] # head
  /\ \A t, u \in Threads : t # u /\ message[t] # NULL => message[t] # message[u]

\* Only the owner of the mutex is between a lock and an unlock.
Exclusive == \A t \in Threads : InBody(t) => mutex = t

QueueInv == TypeOK /\ Exclusive /\ StageInv /\ ListInv /\ OwnerInv

\* A list of at most one block is its head.
LEMMA QueuedIsHead ==
  ASSUME TypeOK, ListInv
  PROVE  Queued = IF head = NULL THEN {} ELSE {head}
<1>. USE FifoAssumption DEF TypeOK, ListInv, FifoAssumption
<1>1. CASE head = NULL
  <2>1. head \notin Messages
    BY <1>1
  <2>2. Queued \subseteq {}
    <3>1. {} \in SUBSET Messages
      OBVIOUS
    <3>. QED BY <2>1, <3>1 DEF Queued
  <2>. QED BY <1>1, <2>2
<1>2. CASE head # NULL
  <2>1. head \in Messages /\ next[head] \notin Messages
    BY <1>2
  <2>2. Queued \subseteq {head}
    <3>1. {head} \in SUBSET Messages
      BY <2>1
    <3>. QED BY <2>1, <3>1 DEF Queued
  <2>3. head \in Queued
    BY <2>1 DEF Queued
  <2>. QED BY <1>2, <2>2, <2>3
<1>. QED BY <1>1, <1>2

LEMMA WrapType == \A n \in Int : n % UintRange \in 0 .. UintRange - 1
BY FifoAssumption DEF FifoAssumption

LEMMA FifoInitInv == FifoInit => QueueInv
<1>. SUFFICES ASSUME FifoInit PROVE QueueInv
  OBVIOUS
<1>. USE FifoAssumption DEF FifoInit
<1>1. TypeOK
  <2>1. size \in 0 .. UintRange - 1
    BY DEF FifoAssumption
  <2>2. next \in [Messages -> Pointers]
    BY DEF Pointers
  <2>3. call \in [Threads -> Functions \cup {"none"}] /\ stage \in [Threads -> Stages]
    BY DEF Stages
  <2>4. message \in [Threads -> Messages \cup {NULL}]
    OBVIOUS
  <2>. QED BY <2>1, <2>2, <2>3, <2>4 DEF TypeOK
<1>2. Exclusive
  BY DEF Exclusive, InBody
<1>3. StageInv
  BY DEF StageInv
<1>4. ListInv
  BY DEF ListInv
<1>5. OwnerInv
  BY DEF OwnerInv
<1>. QED BY <1>1, <1>2, <1>3, <1>4, <1>5 DEF QueueInv

-----------------------------------------------------------------------------
(* The invariant is inductive.                                             *)

LEMMA FifoStepInv ==
  ASSUME QueueInv, NEW t \in Threads, FifoStep(t)
  PROVE  QueueInv'
<1>. USE FifoAssumption
     DEF QueueInv, TypeOK, Exclusive, StageInv, ListInv, OwnerInv, Functions,
         Stages, Pointers, InBody, Outside, Running, Unlock, Leaving, queueVars
<1>1. CASE Lock(t)
  BY <1>1 DEF Lock
<1>2. CASE PutRefused(t)
  BY <1>2 DEF PutRefused
<1>3. CASE PutFirst(t)
  BY WrapType, <1>3 DEF PutFirst, Accept
<1>4. CASE PutBehind(t)
  BY WrapType, <1>4 DEF PutBehind, Accept
<1>5. CASE PutSignal(t)
  BY <1>5 DEF PutSignal, Sleeping
<1>6. CASE GetWait(t)
  BY <1>6 DEF GetWait
<1>7. CASE GetTake(t)
  BY WrapType, <1>7 DEF GetTake
<1>8. CASE GetNothing(t)
  BY WrapType, <1>8 DEF GetNothing, Sleeping
<1>9. CASE CloseBody(t)
  BY <1>9 DEF CloseBody
<1>10. CASE CloseBroadcast(t)
  BY <1>10 DEF CloseBroadcast, Sleeping
<1>11. CASE DrainWait(t)
  BY <1>11 DEF DrainWait
<1>12. CASE DrainDone(t)
  BY <1>12 DEF DrainDone
<1>13. CASE SizeBody(t)
  BY <1>13 DEF SizeBody
<1>14. CASE DestroyBody(t)
  BY QueuedIsHead, <1>14 DEF DestroyBody
<1>. QED BY <1>1, <1>2, <1>3, <1>4, <1>5, <1>6, <1>7, <1>8, <1>9, <1>10, <1>11, <1>12, <1>13, <1>14 DEF FifoStep

\* Before the destruction is prepared every way out of fifo.c unlocks the mutex.
LEMMA FifoStepMutex ==
  ASSUME QueueInv, MutualExclusion, NEW t \in Threads, FifoStep(t)
  PROVE  MutualExclusion'
<1>. USE FifoAssumption
     DEF QueueInv, TypeOK, MutualExclusion, StageInv, Exclusive, Functions,
         Stages, InBody, Outside, Running, Unlock, Leaving, queueVars, FifoAssumption
<1>1. CASE Lock(t)
  BY <1>1 DEF Lock
<1>2. CASE PutRefused(t)
  BY <1>2 DEF PutRefused
<1>3. CASE PutFirst(t) \/ PutBehind(t)
  BY <1>3 DEF PutFirst, PutBehind, Accept
<1>4. CASE PutSignal(t) \/ CloseBroadcast(t)
  BY <1>4 DEF PutSignal, CloseBroadcast, Sleeping
<1>5. CASE GetWait(t) \/ GetTake(t) \/ GetNothing(t)
  BY <1>5 DEF GetWait, GetTake, GetNothing, Sleeping
<1>6. CASE CloseBody(t) \/ DrainWait(t) \/ DrainDone(t) \/ SizeBody(t) \/ DestroyBody(t)
  BY <1>6 DEF CloseBody, DrainWait, DrainDone, SizeBody, DestroyBody
<1>. QED BY <1>1, <1>2, <1>3, <1>4, <1>5, <1>6 DEF FifoStep

LEMMA SpuriousInv ==
  ASSUME QueueInv, NEW t \in Threads, SpuriousWakeup(t)
  PROVE  QueueInv'
BY FifoAssumption
DEF SpuriousWakeup, QueueInv, TypeOK, Exclusive, StageInv, ListInv, OwnerInv,
    Functions, Stages, Pointers, InBody, Outside, queueVars

LEMMA QueueStutters == QueueInv /\ UNCHANGED fifoVars => QueueInv'
BY DEF QueueInv, TypeOK, Exclusive, StageInv, ListInv, OwnerInv, InBody, Outside,
       fifoVars, queueVars, threadVars

\* A block has one owner.
LEMMA OwnedOnce == QueueInv => SingleOwner
BY QueuedIsHead DEF QueueInv, TypeOK, ListInv, OwnerInv, SingleOwner, Holders

-----------------------------------------------------------------------------
(* What the size counts.                                                   *)

\* The blocks that a client gave to fifo_put() and nobody got back.
Accepted == {m \in live : Holders(m) = {}}

LEMMA AcceptedFinite ==
  ASSUME QueueInv
  PROVE  /\ Accepted \subseteq Messages
         /\ IsFiniteSet(Accepted)
         /\ Cardinality(Accepted) \in Nat
         /\ Cardinality(Accepted) <= Cardinality(Messages)
         /\ Cardinality(Messages) \in Nat
<1>1. Accepted \subseteq Messages /\ IsFiniteSet(Messages)
  BY FifoAssumption DEF Accepted, QueueInv, TypeOK, FifoAssumption
<1>2. IsFiniteSet(Accepted) /\ Cardinality(Accepted) <= Cardinality(Messages)
  BY <1>1, FS_Subset
<1>. QED BY <1>1, <1>2, FS_CardinalityType

\* An accepted block was the caller's before.
LEMMA AcceptAdds ==
  ASSUME QueueInv, NEW t \in Threads, Accept(t)
  PROVE  /\ Cardinality(Accepted') = Cardinality(Accepted) + 1
         /\ Cardinality(Accepted') <= Cardinality(Messages)
<1>1. message[t] \in live /\ message[t] \in Messages
  BY DEF Accept, Running, InBody, QueueInv, TypeOK, StageInv, OwnerInv
<1>2. Accepted' = Accepted \cup {message[t]}
  BY <1>1, FifoAssumption DEF FifoAssumption, Accept, Accepted, Holders, QueueInv, TypeOK, OwnerInv
<1>3. message[t] \notin Accepted
  BY DEF Accepted, Holders
<1>4. Cardinality(Accepted') = Cardinality(Accepted) + 1
  BY <1>2, <1>3, AcceptedFinite, FS_AddElement
<1>5. Accepted' \subseteq Messages
  BY <1>1, <1>2, AcceptedFinite
<1>. QED BY <1>4, <1>5, FifoAssumption, FS_Subset DEF FifoAssumption

LEMMA TakeRemoves ==
  ASSUME QueueInv, NEW t \in Threads, GetTake(t)
  PROVE  /\ Cardinality(Accepted) > 0
         /\ Cardinality(Accepted') = Cardinality(Accepted) - 1
<1>1. message[t] = NULL /\ head \in live /\ head \in Messages
  BY DEF GetTake, Running, InBody, Outside, QueueInv, TypeOK, StageInv, ListInv
<1>2. head \in Accepted
  BY <1>1, FifoAssumption DEF FifoAssumption, Accepted, Holders, QueueInv, OwnerInv
<1>3. Accepted' = Accepted \ {head}
  BY <1>1, FifoAssumption DEF FifoAssumption, GetTake, Accepted, Holders, QueueInv, TypeOK, OwnerInv
<1>4. Cardinality(Accepted) # 0
  BY <1>2, AcceptedFinite, FS_EmptySet
<1>5. Cardinality(Accepted') = Cardinality(Accepted) - 1
  BY <1>2, <1>3, AcceptedFinite, FS_RemoveElement
<1>. QED BY <1>4, <1>5, AcceptedFinite

-----------------------------------------------------------------------------
(* The length of a queue that is not being destroyed.                      *)

\* Only the first block ever comes out: all the others stay in the count.
OpenInv ==
  /\ foot = NULL => size = 0
  /\ head # NULL => size > 0
  /\ size <= Cardinality(Accepted)

\* How many blocks fifo_put() has accepted.
Arrived == IF head = NULL /\ foot # NULL THEN size + 1 ELSE size

\* No step of fifo.c lowers that number, and `size' is never more than one behind.
LEMMA OpenStep ==
  ASSUME Cardinality(Messages) < UintRange, QueueInv, OpenInv, ~preparedForDestruction,
         NEW t \in Threads, FifoStep(t), call[t] # "destroy"
  PROVE  /\ OpenInv'
         /\ Arrived \in Nat /\ Arrived' \in Nat
         /\ Arrived <= Arrived'
         /\ size' <= Arrived' /\ Arrived' <= size' + 1
<1>. USE DEF Arrived
<1>1. /\ size \in 0 .. UintRange - 1 /\ UintRange \in Nat \ {0}
      /\ Cardinality(Accepted) \in Nat
      /\ Cardinality(Messages) \in Nat /\ Cardinality(Messages) < UintRange
  BY AcceptedFinite, FifoAssumption DEF FifoAssumption, QueueInv, TypeOK
<1>2. CASE PutFirst(t) \/ PutBehind(t)
  <2>1. message[t] \in Messages
    BY <1>2 DEF PutFirst, PutBehind, Accept, QueueInv, TypeOK, StageInv, Running, InBody
  <2>2. Accept(t) /\ head' = IF foot = NULL THEN message[t] ELSE head
    BY <1>2 DEF PutFirst, PutBehind
  <2>3. Cardinality(Accepted') = Cardinality(Accepted) + 1 /\ size + 1 < UintRange
    BY <1>1, <2>2, AcceptAdds DEF OpenInv
  <2>4. size' = size + 1 /\ foot' = message[t]
    BY <1>1, <2>2, <2>3 DEF Accept
  <2>. QED
    BY <1>1, <2>1, <2>2, <2>3, <2>4, FifoAssumption DEF FifoAssumption, OpenInv, QueueInv, ListInv
<1>3. CASE GetTake(t)
  <2>1. size - 1 >= 0 /\ head # NULL /\ foot # NULL
    BY <1>1, <1>3 DEF GetTake, OpenInv
  <2>2. size' = size - 1 /\ head' = NULL /\ foot' = foot
    BY <1>1, <1>3, <2>1 DEF GetTake, QueueInv, ListInv
  <2>. QED BY <1>1, <1>3, <2>1, <2>2, TakeRemoves DEF OpenInv
<1>4. CASE ~(PutFirst(t) \/ PutBehind(t) \/ GetTake(t))
  <2>1. UNCHANGED <<head, foot, size>> /\ Accepted' = Accepted
    BY <1>4 DEF FifoStep, Lock, PutRefused, PutSignal, GetWait, GetNothing, CloseBody,
       CloseBroadcast, DrainWait, DrainDone, SizeBody, DestroyBody, Running, Accepted, Holders, queueVars
  <2>. QED BY <1>1, <2>1 DEF OpenInv
<1>. QED BY <1>2, <1>3, <1>4
=============================================================================
