------------------------------- MODULE Server -------------------------------
(***************************************************************************)
(* The server process: server.c over fifo.c.                               *)
(*                                                                         *)
(* main() resizes the two pools of threads every period until a signal     *)
(* clears `ok', and then finishes: it prepares the destruction of the      *)
(* queue, cancels and joins the receivers, waits for the queue, cancels    *)
(* and joins the workers and the checker, and destroys the queue.          *)
(*                                                                         *)
(* Cancellation is deferred: a cancelled thread goes on until it reaches a *)
(* cancellation point.  recvfrom(), sendto(), printf() and sleep() are     *)
(* outside fifo.c; pthread_cond_wait() is inside, and a thread cancelled   *)
(* there locks the mutex again and dies with it, as no cleanup handler     *)
(* unlocks it.                                                             *)
(*                                                                         *)
(* sysconf() may fail at start, and pthread_create() at any time:          *)
(* initializeServer() goes on without threads, and a thread that was not   *)
(* created counts as one that was, as the error is a positive number and   *)
(* is compared with -1.  Memory never runs short.                          *)
(*                                                                         *)
(* The handlers are reduced to their effect on the queue: `users' is NULL  *)
(* for ever (user_register() never links the user it allocates), so no     *)
(* acknowledge is awaited and no handler, nor the checker, calls           *)
(* fifo_put(); what is left of a handler is the time it takes.             *)
(***************************************************************************)
EXTENDS Fifo, Balance, Sequences

CONSTANTS
  Main, Checker,          \* the initial thread and checkerThread
  Receivers, Workers,     \* receiverThreads[] and workerThreads[], at their largest
  Fallible,               \* the threads that pthread_create() may fail to create
  SysconfMayFail          \* the number of CPUs may be unknown

PoolThreads(p) == IF p = "receivers" THEN Receivers ELSE Workers
ThreadsOf(p)   == {PoolThreads(p)[k] : k \in DOMAIN PoolThreads(p)}

ASSUME ServerAssumption ==
  /\ \A p \in Pools :
       /\ PoolThreads(p) \in Seq(Threads \ {Main, Checker})
       /\ Len(PoolThreads(p)) = MaxThreads(p)
       /\ \A j, k \in 1 .. MaxThreads(p) : j # k => PoolThreads(p)[j] # PoolThreads(p)[k]
  /\ ThreadsOf("receivers") \cap ThreadsOf("workers") = {}
  /\ Main # Checker
  /\ Threads = {Main, Checker} \cup ThreadsOf("receivers") \cup ThreadsOf("workers")
  /\ Fallible \subseteq Threads \ {Main}
  /\ SysconfMayFail \in BOOLEAN

VARIABLES
  ok,           \* cleared by the signal handler
  pc,           \* where main() is
  fifoSize,     \* balanceThreads()'s copy of the queue's length
  pool,         \* whose set...Threads() main() is in
  threadsCount, \* its argument
  i,            \* its loop index
  current,      \* currentReceiverThreads and currentWorkerThreads
  missing,      \* the threads whose creation failed, with no valid pthread_t
  crashed,      \* the process is down
  alive,        \* the threads created that have not terminated
  cancelled     \* the threads with a pending cancellation request

mainVars   == <<ok, pc, fifoSize, pool, threadsCount, i, current, missing, crashed>>
threadSets == <<missing, crashed, alive, cancelled>>
serverVars == <<mainVars, alive, cancelled>>
vars       == <<fifoVars, serverVars>>

\* The threads of pool p that main() believes to be running.
InPool(p) == {PoolThreads(p)[k] : k \in 1 .. current[p]}
Counted   == {Main, Checker} \cup InPool("receivers") \cup InPool("workers")

Init ==
  /\ FifoInit
  /\ ok = TRUE
  /\ pc = "test"
  /\ fifoSize = 0
  /\ pool = "receivers"
  /\ threadsCount = 0
  /\ i = 0
  /\ \/ /\ current = [p \in Pools |-> MinThreads(p)]
        /\ missing \in SUBSET (Counted \cap Fallible)
     \/ /\ SysconfMayFail
        /\ current = [p \in Pools |-> 0]
        /\ missing = {Checker}
  /\ crashed = FALSE
  /\ alive = Counted \ missing
  /\ cancelled = {}

Goto(label) == pc' = label

\* pthread_cancel() and pthread_join() with what is not a thread: undefined.
UsesHandle(t) == crashed' \in IF t \in missing THEN BOOLEAN ELSE {FALSE}

-----------------------------------------------------------------------------
(* main(): the loop.                                                       *)

\* SIGINT, SIGHUP, SIGQUIT or SIGTERM; every other thread blocks them.
signalHandler ==
  /\ ok
  /\ ok' = FALSE
  /\ UNCHANGED <<fifoVars, pc, fifoSize, pool, threadsCount, i, current, threadSets>>

\* while ( ok ): balanceThreads() starts by asking for the queue's length.
LoopAgain ==
  /\ pc = "test"
  /\ ok
  /\ Calls(Main, "size")
  /\ Goto("size")
  /\ UNCHANGED <<ok, fifoSize, pool, threadsCount, i, current, threadSets>>

\* finalizeServer() starts with fifo_prepare_destroy().
LoopExit ==
  /\ pc = "test"
  /\ ~ok
  /\ Calls(Main, "close")
  /\ Goto("close")
  /\ UNCHANGED <<ok, fifoSize, pool, threadsCount, i, current, threadSets>>

-----------------------------------------------------------------------------
(* setReceiverThreads() and setWorkerThreads(), which are the same code.   *)

\* The call set...Threads( n ) on pool p: nothing to do, shrink or grow.
Resize(p, n) ==
  /\ pool' = p
  /\ threadsCount' = n
  /\ i' = current[p]
  /\ Goto(IF n = current[p] THEN "resized" ELSE IF n < current[p] THEN "cancel" ELSE "create")
  /\ UNCHANGED <<fifoVars, ok, fifoSize, current, threadSets>>

CancelNext ==
  /\ pc = "cancel"
  /\ i > threadsCount
  /\ cancelled' = cancelled \cup ({PoolThreads(pool)[i]} \cap alive)
  /\ UsesHandle(PoolThreads(pool)[i])
  /\ i' = i - 1
  /\ UNCHANGED <<fifoVars, ok, pc, fifoSize, pool, threadsCount, current, missing, alive>>

CancelledAll ==
  /\ pc = "cancel"
  /\ i = threadsCount
  /\ i' = current[pool]
  /\ Goto("join")
  /\ UNCHANGED <<fifoVars, ok, fifoSize, pool, threadsCount, current, threadSets>>

\* Fault: pthread_join() is left out.
JoinNext_NoWait ==
  /\ pc = "join"
  /\ i > threadsCount
  /\ i' = i - 1
  /\ UNCHANGED <<fifoVars, ok, pc, fifoSize, pool, threadsCount, current, threadSets>>

\* pthread_join(), which returns when the thread has terminated.
JoinNext ==
  /\ pc = "join"
  /\ i > threadsCount
  /\ PoolThreads(pool)[i] \notin alive
  /\ UsesHandle(PoolThreads(pool)[i])
  /\ i' = i - 1
  /\ UNCHANGED <<fifoVars, ok, pc, fifoSize, pool, threadsCount, current, missing, alive, cancelled>>

\* Fault: the array index is off by one, the last thread is never created.
CreateNext_OffByOne ==
  /\ pc = "create"
  /\ i < threadsCount
  /\ LET t == PoolThreads(pool)[i]
     IN  /\ alive' = alive \cup {t}
         /\ missing' = missing \ {t}
         /\ cancelled' = cancelled \ {t}
         /\ call' = [call EXCEPT ![t] = "none"]
         /\ message' = [message EXCEPT ![t] = NULL]
  /\ i' = i + 1
  /\ UNCHANGED <<queueVars, mutex, destroyed, next, live, stage>>
  /\ UNCHANGED <<ok, pc, fifoSize, pool, threadsCount, current, crashed>>

CreateNext ==
  /\ pc = "create"
  /\ i < threadsCount
  /\ LET t == PoolThreads(pool)[i + 1]
     IN  /\ alive' = alive \cup {t}
         /\ missing' = missing \ {t}
         /\ cancelled' = cancelled \ {t}
         /\ call' = [call EXCEPT ![t] = "none"]
         /\ message' = [message EXCEPT ![t] = NULL]
  /\ i' = i + 1
  /\ UNCHANGED <<queueVars, mutex, destroyed, next, live, stage>>
  /\ UNCHANGED <<ok, pc, fifoSize, pool, threadsCount, current, crashed>>

\* pthread_create() fails, and the loop goes on.
CreateFails ==
  /\ pc = "create"
  /\ i < threadsCount
  /\ PoolThreads(pool)[i + 1] \in Fallible
  /\ missing' = missing \cup {PoolThreads(pool)[i + 1]}
  /\ i' = i + 1
  /\ UNCHANGED <<fifoVars, ok, pc, fifoSize, pool, threadsCount, current, crashed, alive, cancelled>>

SetDone ==
  /\ pc \in {"join", "create"}
  /\ i = threadsCount
  /\ current' = [current EXCEPT ![pool] = threadsCount]
  /\ Goto("resized")
  /\ UNCHANGED <<fifoVars, ok, fifoSize, pool, threadsCount, i, threadSets>>

-----------------------------------------------------------------------------
(* balanceThreads() and finalizeServer(): what follows each call.  main()  *)
(* is finishing as soon as it has closed the queue.                        *)

Finishing == preparedForDestruction

\* An empty pool: the division by zero ends the process.
DivideByZero ==
  /\ pc = "size"
  /\ Outside(Main)
  /\ \E p \in Pools : current[p] = 0
  /\ crashed' = TRUE
  /\ UNCHANGED <<fifoVars, ok, pc, fifoSize, pool, threadsCount, i, current, missing, alive, cancelled>>

BalanceReceivers ==
  /\ pc = "size"
  /\ Outside(Main)
  /\ \A p \in Pools : current[p] > 0
  /\ Resize("receivers", Balanced("receivers", fifoSize, current["receivers"]))

BalanceWorkers ==
  /\ pc = "resized" /\ pool = "receivers" /\ ~Finishing
  /\ Resize("workers", Balanced("workers", fifoSize, current["workers"]))

\* sleep( timeBetweenBalancing ).
SleepPeriod ==
  /\ pc = "resized" /\ pool = "workers" /\ ~Finishing
  /\ Goto("test")
  /\ UNCHANGED <<fifoVars, ok, fifoSize, pool, threadsCount, i, current, threadSets>>

StopReceivers ==
  /\ pc = "close"
  /\ Outside(Main)
  /\ Resize("receivers", 0)

WaitEmpty ==
  /\ pc = "resized" /\ pool = "receivers" /\ Finishing
  /\ Calls(Main, "drain")
  /\ Goto("drain")
  /\ UNCHANGED <<ok, fifoSize, pool, threadsCount, i, current, threadSets>>

StopWorkers ==
  /\ pc = "drain"
  /\ Outside(Main)
  /\ Resize("workers", 0)

StopChecker ==
  /\ pc = "resized" /\ pool = "workers" /\ Finishing
  /\ cancelled' = cancelled \cup ({Checker} \cap alive)
  /\ UsesHandle(Checker)
  /\ Goto("checker")
  /\ UNCHANGED <<fifoVars, ok, fifoSize, pool, threadsCount, i, current, missing, alive>>

DestroyQueue ==
  /\ pc = "checker"
  /\ Checker \notin alive
  /\ UsesHandle(Checker)
  /\ Calls(Main, "destroy")
  /\ Goto("destroy")
  /\ UNCHANGED <<ok, fifoSize, pool, threadsCount, i, current, missing, alive, cancelled>>

Exit ==
  /\ pc = "destroy"
  /\ Outside(Main)
  /\ Goto("done")
  /\ UNCHANGED <<fifoVars, ok, fifoSize, pool, threadsCount, i, current, threadSets>>

MainStep ==
  \/ LoopAgain \/ LoopExit
  \/ CancelNext \/ CancelledAll \/ JoinNext \/ CreateNext \/ CreateFails \/ SetDone
  \/ DivideByZero \/ BalanceReceivers \/ BalanceWorkers \/ SleepPeriod
  \/ StopReceivers \/ WaitEmpty \/ StopWorkers \/ StopChecker \/ DestroyQueue \/ Exit

-----------------------------------------------------------------------------
(* goReceiverThreads().                                                    *)

IsReceiver(t) == t \in ThreadsOf("receivers") \cap alive
IsWorker(t)   == t \in ThreadsOf("workers") \cap alive

\* A refused fifo_put() leaves the block in the thread's hands.
Refused(t) == call[t] = "put" /\ message[t] # NULL

\* recvfrom() returns a packet: a block is allocated for it.  The pointer to a
\* block that fifo_put() refused is overwritten.
Receive(t) ==
  /\ IsReceiver(t)
  /\ Outside(t)
  /\ t \notin cancelled
  /\ message[t] = NULL \/ Refused(t)
  /\ \E m \in Messages \ live :
       /\ message' = [message EXCEPT ![t] = m]
       /\ live' = live \cup {m}
       /\ next' = [next EXCEPT ![m] = Wild]
  /\ call' = [call EXCEPT ![t] = "none"]
  /\ UNCHANGED <<queueVars, mutex, destroyed, stage, serverVars>>

PutReceived(t) ==
  /\ IsReceiver(t)
  /\ message[t] # NULL
  /\ ~Refused(t)
  /\ Calls(t, "put")
  /\ UNCHANGED serverVars

-----------------------------------------------------------------------------
(* goWorkerThreads().                                                      *)

\* fifo_get() has returned NULL.
GotNothing(t) == call[t] = "get" /\ message[t] = NULL

GetNext(t) ==
  /\ IsWorker(t)
  /\ call[t] = "none"
  /\ Calls(t, "get")
  /\ UNCHANGED serverVars

\* messageType0() ... messageType9(), then freeMessage().
Handle(t) ==
  /\ IsWorker(t)
  /\ Outside(t)
  /\ message[t] # NULL
  /\ live' = live \ {message[t]}
  /\ next' = [next EXCEPT ![message[t]] = Wild]
  /\ message' = [message EXCEPT ![t] = NULL]
  /\ call' = [call EXCEPT ![t] = "none"]
  /\ UNCHANGED <<queueVars, mutex, destroyed, stage, serverVars>>

\* Fault: `continue' instead of pthread_exit().
ExitWorker_Continues(t) ==
  /\ IsWorker(t)
  /\ Outside(t)
  /\ GotNothing(t)
  /\ call' = [call EXCEPT ![t] = "none"]
  /\ UNCHANGED <<queueVars, mutex, destroyed, next, live, stage, message, serverVars>>

\* pthread_exit() on a NULL message.
ExitWorker(t) ==
  /\ IsWorker(t)
  /\ Outside(t)
  /\ GotNothing(t)
  /\ alive' = alive \ {t}
  /\ UNCHANGED <<fifoVars, mainVars, cancelled>>

-----------------------------------------------------------------------------
(* Cancellation.                                                           *)

\* The cancellation points outside fifo.c: recvfrom() and printf() in a
\* receiver, sendto() and printf() in a handler, sleep() in the checker.
AtCancellationPoint(t) ==
  /\ Outside(t)
  /\ t \in ThreadsOf("workers") => message[t] # NULL

DieOutside(t) ==
  /\ t \in cancelled \cap alive
  /\ AtCancellationPoint(t)
  /\ alive' = alive \ {t}
  /\ UNCHANGED <<fifoVars, mainVars, cancelled>>

\* Cancelled in pthread_cond_wait(), also when a broadcast has already woken it
\* but it has not run since: it gets the mutex first, and never unlocks it.
DieInWait(t) ==
  /\ t \in cancelled \cap alive
  /\ stage[t] \in {"asleep", "woken"}
  /\ mutex = NoThread
  /\ mutex' = t
  /\ stage' = [stage EXCEPT ![t] = "out"]
  /\ alive' = alive \ {t}
  /\ UNCHANGED <<queueVars, destroyed, next, live, call, message, mainVars, cancelled>>

-----------------------------------------------------------------------------
\* A step inside fifo.c.  fifo_size() returns what it read under the mutex.
InFifo(t) ==
  /\ FifoStep(t)
  /\ fifoSize' = IF t = Main /\ SizeBody(t) THEN size ELSE fifoSize
  /\ UNCHANGED <<ok, pc, pool, threadsCount, i, current, threadSets>>

Spurious(t) ==
  /\ SpuriousWakeup(t)
  /\ UNCHANGED serverVars

\* What a thread does by itself, without a packet to receive.
Proceeds(t) ==
  \/ InFifo(t)
  \/ PutReceived(t) \/ GetNext(t) \/ Handle(t) \/ ExitWorker(t)
  \/ DieOutside(t)

Next ==
  /\ ~crashed
  /\ \/ signalHandler
     \/ MainStep
     \/ \E t \in Threads : Proceeds(t) \/ DieInWait(t) \/ Receive(t) \/ Spurious(t)

Spec == Init /\ [][Next]_vars

\* The scheduler runs every thread that can run; a thread that finds the mutex
\* free again and again gets it in the end.  No signal and no packet has to come.
Fairness ==
  /\ WF_vars(~crashed /\ MainStep)
  /\ \A t \in Threads : WF_vars(~crashed /\ Proceeds(t))
  /\ \A t \in Threads :
       SF_vars(~crashed /\ ((InFifo(t) /\ mutex' = t) \/ DieInWait(t)))

FairSpec == Spec /\ Fairness

-----------------------------------------------------------------------------
(* Properties.                                                             *)

ServerTypeOK ==
  /\ TypeOK
  /\ ok \in BOOLEAN
  /\ pc \in {"test", "size", "cancel", "join", "create", "resized", "close",
             "drain", "checker", "destroy", "done"}
  /\ fifoSize \in 0 .. UintRange - 1
  /\ pool \in Pools
  /\ threadsCount \in 0 .. MaxThreads(pool)
  /\ i \in 0 .. MaxThreads(pool)
  /\ \A p \in Pools : current[p] \in 0 .. MaxThreads(p)
  /\ missing \subseteq Threads \ {Main}
  /\ crashed \in BOOLEAN
  /\ alive \subseteq Threads
  /\ cancelled \subseteq Threads

\* While the server serves, and main() is not resizing, the threads alive are
\* exactly those its counts say, but for those whose creation failed, and none of
\* them has been cancelled: no worker leaves by itself and none is forgotten.
PoolsAreAlive ==
  (pc \in {"test", "size"}) =>
    /\ alive = Counted \ missing
    /\ cancelled \cap alive = {}

\* Nothing but a failure at the creation of the threads, which initializeServer()
\* and set...Threads() ignore (server.c:187, 263, 420), takes the process down: no
\* resizing empties a pool, and no thread is cancelled or joined that never was.
CrashNeedsFailure == crashed => missing # {}

\* Until the shutdown the mutex is never held by a thread that is not on its
\* way to unlock it, so the server never blocks itself while it serves.
ServingNeverLeaks ==
  (~Finishing /\ mutex # NoThread) => InBody(mutex) /\ mutex \in alive

\* fifo_destroy() is called when no other thread is left that could use the
\* queue: everything created was cancelled or has exited, and was joined.
JoinedBeforeDestroy == pc \in {"destroy", "done"} => alive = {Main}

\* "Decrease if too few" (server.c:310-312, docs/UDF.txt:83-84) never happens: no
\* pool shrinks before the shutdown, however empty the list is, as `size' goes on
\* counting the messages that fifo_put() lost and never falls far enough.  It is
\* why no thread is cancelled in pthread_cond_wait() (and leaks the mutex) while
\* the server serves.
ServingPoolsGrow ==
  [][\A p \in Pools : pc # "join" \/ Finishing \/ current'[p] >= current[p]]_vars

\* docs/UDF.txt:79-80: there are always fewer receiver threads than worker
\* threads.  It holds because the length of the queue hardly ever falls and half
\* as many messages ask for a worker as for a receiver.
FewerReceivers ==
  pc \in {"test", "size"} => current["receivers"] < current["workers"]

\* The mutex is owned by a thread that is not going to unlock it.
MutexLeaked == mutex # NoThread /\ ~InBody(mutex)

\* A signal ends the process, unless the mutex has been leaked, also when threads
\* could not be created and main() joins what is not a thread.
ExitsUnlessLeaked == ~ok ~> (pc = "done" \/ MutexLeaked \/ crashed)

\* "Added signal handling (the server now exits gracefully)" (Changelog:15).
ExitsGracefully == ~ok ~> pc = "done"
=============================================================================
