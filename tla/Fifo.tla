-------------------------------- MODULE Fifo --------------------------------
(***************************************************************************)
(* The message queue shared by every thread of the server: fifo.c, fifo.h. *)
(*                                                                         *)
(* A thread that calls a fifo_*() function goes through stages: it waits   *)
(* for the mutex ("lock"), runs the code between pthread_mutex_lock() and  *)
(* pthread_mutex_unlock() or pthread_cond_wait() ("body"), may sleep on    *)
(* the condition variable `empty' ("asleep", then "woken" until it has the *)
(* mutex again) and may signal after unlocking ("signal").  A body touches *)
(* nothing but what the mutex protects, so it is one step.                 *)
(*                                                                         *)
(* Who calls what is left to the modules that extend this one: FifoClients *)
(* (any thread calls anything) and Server (the threads of server.c).       *)
(***************************************************************************)
EXTENDS Integers, FiniteSets

CONSTANTS
  Threads,      \* the threads of the process
  Messages,     \* the heap blocks a struct message_t can occupy
  NULL,         \* the null pointer
  Wild,         \* a pointer field nobody has written since malloc()
  NoThread,     \* the owner of a free mutex
  UintRange     \* the number of values of an unsigned int (2^32 in the program)

ASSUME FifoAssumption ==
  /\ IsFiniteSet(Messages)
  /\ NULL \notin Messages
  /\ Wild \notin Messages \cup {NULL}
  /\ NoThread \notin Threads
  /\ UintRange \in Nat \ {0}

VARIABLES
  head, foot,               \* struct fifo_t
  size,
  preparedForDestruction,
  mutex,                    \* the thread that owns fifo->mutex, or NoThread
  destroyed,                \* fifo_destroy() has destroyed the mutex
  next,                     \* message->next of every block
  live,                     \* the blocks allocated and not freed
  call,                     \* the last fifo_*() function each thread called
  stage,                    \* how far it got in it
  message                   \* the pointer it passes to, or got from, the fifo

queueVars  == <<head, foot, size, preparedForDestruction>>
threadVars == <<call, stage, message>>
fifoVars   == <<queueVars, mutex, destroyed, next, live, threadVars>>

Functions == {"put", "get", "close", "drain", "size", "destroy"}
Stages    == {"out", "lock", "body", "asleep", "woken", "signal"}
Pointers  == Messages \cup {NULL, Wild}

\* Inside fifo.c, between a lock and the matching unlock.
InBody(t) == stage[t] = "body"
Outside(t) == stage[t] = "out"
Sleeping == {t \in Threads : stage[t] = "asleep"}

FifoInit ==
  /\ head = NULL
  /\ foot = NULL
  /\ size = 0
  /\ preparedForDestruction = FALSE
  /\ mutex = NoThread
  /\ destroyed = FALSE
  /\ next = [m \in Messages |-> Wild]
  /\ live = {}
  /\ call = [t \in Threads |-> "none"]
  /\ stage = [t \in Threads |-> "out"]
  /\ message = [t \in Threads |-> NULL]

-----------------------------------------------------------------------------
(* pthread_mutex_lock(), pthread_cond_signal(), pthread_cond_broadcast().  *)

\* Thread t enters function f, up to pthread_mutex_lock().
Calls(t, f) ==
  /\ Outside(t)
  /\ ~destroyed
  /\ call' = [call EXCEPT ![t] = f]
  /\ stage' = [stage EXCEPT ![t] = "lock"]
  /\ UNCHANGED <<queueVars, mutex, destroyed, next, live, message>>

\* A default mutex: its owner, too, waits for ever when it locks it again.
Lock(t) ==
  /\ stage[t] \in {"lock", "woken"}
  /\ mutex = NoThread
  /\ mutex' = t
  /\ stage' = [stage EXCEPT ![t] = "body"]
  /\ UNCHANGED <<queueVars, destroyed, next, live, call, message>>

\* The stages after thread t leaves for stage s and the threads in W wake up.
Leaving(t, s, W) ==
  [u \in Threads |-> IF u = t THEN s ELSE IF u \in W THEN "woken" ELSE stage[u]]

Running(t, f) == call[t] = f /\ InBody(t)

\* Unlocks and leaves for stage s, waking the threads in W.
Unlock(t, s, W) ==
  /\ mutex' = NoThread
  /\ stage' = Leaving(t, s, W)

\* POSIX lets pthread_cond_wait() return without a signal.
SpuriousWakeup(t) ==
  /\ stage[t] = "asleep"
  /\ stage' = [stage EXCEPT ![t] = "woken"]
  /\ UNCHANGED <<queueVars, mutex, destroyed, next, live, call, message>>

-----------------------------------------------------------------------------
(* fifo_put().                                                             *)

\* Returns -1 on a queue being destroyed, from inside the lock.
PutRefused(t) ==
  /\ Running(t, "put")
  /\ preparedForDestruction
  /\ stage' = [stage EXCEPT ![t] = "out"]
  /\ UNCHANGED <<queueVars, mutex, destroyed, next, live, call, message>>

\* Faults: the block's next is not reset; a closed queue still accepts.
Accept_KeepsNext(t) ==
  /\ Running(t, "put")
  /\ ~preparedForDestruction
  /\ foot' = message[t]
  /\ next' = next
  /\ size' = (size + 1) % UintRange
  /\ message' = [message EXCEPT ![t] = NULL]
  /\ UNCHANGED <<preparedForDestruction, destroyed, live, call>>

Accept_Closed(t) ==
  /\ Running(t, "put")
  /\ foot' = message[t]
  /\ next' = [next EXCEPT ![message[t]] = NULL]
  /\ size' = (size + 1) % UintRange
  /\ message' = [message EXCEPT ![t] = NULL]
  /\ UNCHANGED <<preparedForDestruction, destroyed, live, call>>

\* What both successful branches do: the block now belongs to the queue.
Accept(t) ==
  /\ Running(t, "put")
  /\ ~preparedForDestruction
  /\ foot' = message[t]
  /\ next' = [next EXCEPT ![message[t]] = NULL]
  /\ size' = (size + 1) % UintRange
  /\ message' = [message EXCEPT ![t] = NULL]
  /\ UNCHANGED <<preparedForDestruction, destroyed, live, call>>

\* Faults: nobody is signalled; the second branch forgets to unlock.
PutFirst_NoSignal(t) ==
  /\ foot = NULL
  /\ Accept(t)
  /\ head' = message[t]
  /\ Unlock(t, "out", {})

PutBehind_NoUnlock(t) ==
  /\ foot # NULL
  /\ Accept(t)
  /\ head' = head
  /\ stage' = [stage EXCEPT ![t] = "out"]
  /\ UNCHANGED mutex

PutFirst(t) ==
  /\ foot = NULL
  /\ Accept(t)
  /\ head' = message[t]
  /\ Unlock(t, "signal", {})

PutBehind(t) ==
  /\ foot # NULL
  /\ Accept(t)
  /\ head' = head
  /\ Unlock(t, "out", {})

\* pthread_cond_signal() after the unlock of PutFirst: one sleeper wakes up.
PutSignal(t) ==
  /\ stage[t] = "signal"
  /\ call[t] = "put"
  /\ \/ /\ Sleeping = {}
        /\ stage' = Leaving(t, "out", {})
     \/ \E u \in Sleeping : stage' = Leaving(t, "out", {u})
  /\ UNCHANGED <<queueVars, mutex, destroyed, next, live, call, message>>

-----------------------------------------------------------------------------
(* fifo_get().                                                             *)

\* Faults: the wait ignores preparedForDestruction; head stays on the message
\* taken; size is not decremented.
GetWait_IgnoresClose(t) ==
  /\ Running(t, "get")
  /\ head = NULL
  /\ Unlock(t, "asleep", {})
  /\ UNCHANGED <<queueVars, destroyed, next, live, call, message>>

GetTake_KeepsHead(t) ==
  /\ Running(t, "get")
  /\ head # NULL
  /\ message' = [message EXCEPT ![t] = head]
  /\ size' = (size - 1) % UintRange
  /\ Unlock(t, "out", {})
  /\ UNCHANGED <<head, foot, preparedForDestruction, destroyed, next, live, call>>

GetTake_KeepsSize(t) ==
  /\ Running(t, "get")
  /\ head # NULL
  /\ message' = [message EXCEPT ![t] = head]
  /\ head' = next[head]
  /\ Unlock(t, "out", {})
  /\ UNCHANGED <<foot, size, preparedForDestruction, destroyed, next, live, call>>

GetWait(t) ==
  /\ Running(t, "get")
  /\ head = NULL
  /\ ~preparedForDestruction
  /\ Unlock(t, "asleep", {})
  /\ UNCHANGED <<queueVars, destroyed, next, live, call, message>>

GetTake(t) ==
  /\ Running(t, "get")
  /\ head # NULL
  /\ message' = [message EXCEPT ![t] = head]
  /\ head' = next[head]
  /\ size' = (size - 1) % UintRange
  /\ Unlock(t, "out", {})
  /\ UNCHANGED <<foot, preparedForDestruction, destroyed, next, live, call>>

\* The queue is empty and being destroyed: NULL is returned, size still drops.
GetNothing(t) ==
  /\ Running(t, "get")
  /\ head = NULL
  /\ preparedForDestruction
  /\ message' = [message EXCEPT ![t] = NULL]
  /\ foot' = NULL
  /\ size' = (size - 1) % UintRange
  /\ Unlock(t, "out", Sleeping)
  /\ UNCHANGED <<head, preparedForDestruction, destroyed, next, live, call>>

-----------------------------------------------------------------------------
(* fifo_prepare_destroy(), fifo_wait_empty_on_destruction(), fifo_size()   *)
(* and fifo_destroy().                                                     *)

CloseBody(t) ==
  /\ Running(t, "close")
  /\ preparedForDestruction' = TRUE
  /\ Unlock(t, "signal", {})
  /\ UNCHANGED <<head, foot, size, destroyed, next, live, call, message>>

\* Fault: pthread_cond_signal() instead of pthread_cond_broadcast().
CloseBroadcast_One(t) ==
  /\ stage[t] = "signal"
  /\ call[t] = "close"
  /\ \/ Sleeping = {} /\ stage' = Leaving(t, "out", {})
     \/ \E u \in Sleeping : stage' = Leaving(t, "out", {u})
  /\ UNCHANGED <<queueVars, mutex, destroyed, next, live, call, message>>

CloseBroadcast(t) ==
  /\ stage[t] = "signal"
  /\ call[t] = "close"
  /\ stage' = Leaving(t, "out", Sleeping)
  /\ UNCHANGED <<queueVars, mutex, destroyed, next, live, call, message>>

DrainWait(t) ==
  /\ Running(t, "drain")
  /\ head # NULL
  /\ ~preparedForDestruction
  /\ Unlock(t, "asleep", {})
  /\ UNCHANGED <<queueVars, destroyed, next, live, call, message>>

DrainDone(t) ==
  /\ Running(t, "drain")
  /\ head = NULL \/ preparedForDestruction
  /\ Unlock(t, "out", {})
  /\ UNCHANGED <<queueVars, destroyed, next, live, call, message>>

SizeBody(t) ==
  /\ Running(t, "size")
  /\ Unlock(t, "out", {})
  /\ UNCHANGED <<queueVars, destroyed, next, live, call, message>>

\* The blocks reachable from head: the least set that holds head and, with a
\* block, the block its next field points to.
Queued ==
  {m \in Messages : \A S \in SUBSET Messages :
     (/\ head \in Messages => head \in S
      /\ \A b \in S : next[b] \in Messages => next[b] \in S) => m \in S}

DestroyBody(t) ==
  /\ Running(t, "destroy")
  /\ live' = live \ Queued
  /\ next' = [m \in Messages |-> IF m \in Queued THEN Wild ELSE next[m]]
  /\ head' = NULL
  /\ foot' = NULL
  /\ destroyed' = TRUE
  /\ Unlock(t, "out", {})
  /\ UNCHANGED <<size, preparedForDestruction, call, message>>

\* The steps a thread takes by itself once it is inside fifo.c.
FifoStep(t) ==
  \/ Lock(t)
  \/ PutRefused(t) \/ PutFirst(t) \/ PutBehind(t) \/ PutSignal(t)
  \/ GetWait(t) \/ GetTake(t) \/ GetNothing(t)
  \/ CloseBody(t) \/ CloseBroadcast(t)
  \/ DrainWait(t) \/ DrainDone(t)
  \/ SizeBody(t)
  \/ DestroyBody(t)

-----------------------------------------------------------------------------
(* What the queue guarantees to whoever calls it.                          *)

Holders(m) == {t \in Threads : message[t] = m}

\* Every field holds a value of its type.  `head' is never the garbage a block
\* had in its next field when malloc() returned it (fifo_get() follows next).
TypeOK ==
  /\ head \in Messages \cup {NULL}
  /\ foot \in Messages \cup {NULL}
  /\ size \in 0 .. UintRange - 1
  /\ preparedForDestruction \in BOOLEAN
  /\ mutex \in Threads \cup {NoThread}
  /\ destroyed \in BOOLEAN
  /\ next \in [Messages -> Pointers]
  /\ live \in SUBSET Messages
  /\ call \in [Threads -> Functions \cup {"none"}]
  /\ stage \in [Threads -> Stages]
  /\ message \in [Threads -> Messages \cup {NULL}]

\* Only the mutex's owner runs a critical section, also after being woken by a
\* signal; and as long as nobody prepares the destruction the mutex is never
\* left locked by a thread that has gone back to its own code.
MutualExclusion ==
  /\ \A t \in Threads : InBody(t) => mutex = t
  /\ mutex # NoThread /\ ~InBody(mutex) => preparedForDestruction

\* A block is never used by two: what a thread got from fifo_get() (and will
\* free) is allocated, is in the hands of no other thread and is not reachable
\* from `head' any more.
SingleOwner ==
  /\ Queued \subseteq live
  /\ \A t \in Threads : message[t] # NULL =>
       /\ message[t] \in live \ Queued
       /\ Holders(message[t]) = {t}

\* After the broadcast of fifo_prepare_destroy() nobody sleeps on `empty', and
\* nobody ever falls asleep on it again.
ClosedWakesAll ==
  preparedForDestruction =>
    Sleeping = {} \/ \E t \in Threads : call[t] = "close" /\ stage[t] = "signal"

\* A signal is never lost: while a message waits and a getter sleeps, somebody
\* on its way will wake the getter or take the message.
NoLostWakeup ==
  (head # NULL /\ \E t \in Sleeping : call[t] = "get") =>
    \E t \in Threads :
      \/ stage[t] = "signal"
      \/ call[t] = "get" /\ stage[t] \in {"lock", "body", "woken"}

\* Until the queue is (or is about to be) destroyed, `size' is the number of blocks that were
\* handed to the queue and have not come out of it.
SizeCountsAccepted ==
  ~preparedForDestruction /\ ~destroyed =>
    size = Cardinality({m \in live : Holders(m) = {}})

\* What the comment of fifo_put() promises (fifo.c:85, "Adds a message to the
\* fifo"): a block that no thread holds is in the queue.
NoOrphan == \A m \in live : Holders(m) = {} => m \in Queued
=============================================================================
