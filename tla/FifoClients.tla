---------------------------- MODULE FifoClients ----------------------------
(***************************************************************************)
(* The queue of fifo.c under its most general clients: any thread may      *)
(* allocate and free messages and call any function of fifo.h, in any      *)
(* order, as long as it passes messages it owns and nobody uses the queue  *)
(* from the moment fifo_destroy() is called.                               *)
(***************************************************************************)
EXTENDS Fifo

CONSTANT EarlyDrain   \* may fifo_wait_empty_on_destruction() be called before
                      \* fifo_prepare_destroy(), against what its name says?

ASSUME EarlyDrainAssumption == EarlyDrain \in BOOLEAN

\* malloc() in buildMessage(): the fields of the block are not initialised.
Allocate(t) ==
  /\ Outside(t)
  /\ message[t] = NULL
  /\ \E m \in Messages \ live :
       /\ message' = [message EXCEPT ![t] = m]
       /\ live' = live \cup {m}
       /\ next' = [next EXCEPT ![m] = Wild]
  /\ call' = [call EXCEPT ![t] = "none"]
  /\ UNCHANGED <<queueVars, mutex, destroyed, stage>>

\* freeMessage().
Release(t) ==
  /\ Outside(t)
  /\ message[t] # NULL
  /\ live' = live \ {message[t]}
  /\ next' = [next EXCEPT ![message[t]] = Wild]
  /\ message' = [message EXCEPT ![t] = NULL]
  /\ call' = [call EXCEPT ![t] = "none"]
  /\ UNCHANGED <<queueVars, mutex, destroyed, stage>>

\* Nobody is in fifo_destroy().
InUse == \A t \in Threads : call[t] # "destroy"

CallPut(t)     == InUse /\ message[t] # NULL /\ Calls(t, "put")
CallGet(t)     == InUse /\ message[t] = NULL /\ Calls(t, "get")
CallClose(t)   == InUse /\ Calls(t, "close")
CallDrain(t)   == InUse /\ (EarlyDrain \/ preparedForDestruction) /\ Calls(t, "drain")
CallSize(t)    == InUse /\ Calls(t, "size")
CallDestroy(t) == InUse /\ (\A u \in Threads : Outside(u)) /\ Calls(t, "destroy")

ClientStep(t) ==
  \/ Allocate(t) \/ Release(t)
  \/ CallPut(t) \/ CallGet(t) \/ CallClose(t) \/ CallDrain(t)
  \/ CallSize(t) \/ CallDestroy(t)

Next == \E t \in Threads : FifoStep(t) \/ SpuriousWakeup(t) \/ ClientStep(t)

Spec == FifoInit /\ [][Next]_fifoVars

-----------------------------------------------------------------------------
(* The queue as its clients see it.                                        *)

\* The blocks of the linked list in its order, from head along the next fields.
Chain ==
  CHOOSE s \in [1 .. Cardinality(Queued) -> Queued] :
    \A k \in DOMAIN s : s[k] = IF k = 1 THEN head ELSE next[s[k - 1]]

Abstract == INSTANCE MessageQueue
              WITH queue <- Chain, closed <- preparedForDestruction, held <- message

\* fifo.c implements the lossy queue: whatever the interleaving, every message
\* a client gets was put by one, is given out once, in the order of the puts,
\* and none is accepted after fifo_prepare_destroy().
ImplementsMessageQueue == Abstract!Spec

-----------------------------------------------------------------------------
(* Liveness.  The scheduler runs every thread that can run, and a thread   *)
(* that keeps finding the mutex free gets it in the end.  Nothing forces a *)
(* client to make a call, or a spurious wake-up to happen.                 *)

Fairness == \A t \in Threads : WF_fifoVars(FifoStep(t)) /\ SF_fifoVars(Lock(t))

FairSpec == Spec /\ Fairness

\* The mutex is owned by a thread that has left fifo.c (PutRefused).
MutexLeaked == mutex # NoThread /\ ~InBody(mutex)

\* Once the destruction is prepared every thread inside fifo.c gets out of it,
\* unless a refused fifo_put() has left with the mutex.
ClosedReleases ==
  \A t \in Threads :
    (preparedForDestruction /\ ~Outside(t)) ~> (Outside(t) \/ MutexLeaked)

\* A message at the head and a thread in fifo_get() come together: a message is
\* never left waiting while a getter sleeps.
Delivery ==
  (head # NULL /\ \E t \in Threads : call[t] = "get" /\ ~Outside(t))
    ~> (head = NULL \/ preparedForDestruction)
=============================================================================
