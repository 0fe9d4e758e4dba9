---------------------------- MODULE ServerProofs ----------------------------
(***************************************************************************)
(* Proofs about Server, for any number of CPUs, thresholds, messages and   *)
(* threads, and whichever threads cannot be created.                       *)
(***************************************************************************)
EXTENDS Server, FifoLemmas, BalanceLemmas

\* The first n threads of a pool.
Slots(p, n) == {PoolThreads(p)[k] : k \in 1 .. n}

\* How far the pool's threads can be alive, and how far nobody stops them.
Extent(p) == IF p = pool /\ pc \in {"join", "create"} THEN i ELSE current[p]
Staying(p) == IF p = pool /\ pc \in {"cancel", "join"} THEN threadsCount ELSE Extent(p)

Reach == {Main, Checker} \cup Slots("receivers", Extent("receivers")) \cup Slots("workers", Extent("workers"))
Kept  == {Main, Checker} \cup Slots("receivers", Staying("receivers")) \cup Slots("workers", Staying("workers"))

Resizing == {"cancel", "join", "create", "resized"}

-----------------------------------------------------------------------------
(* The invariant.                                                          *)

MainTypeOK ==
  /\ ok \in BOOLEAN
  /\ pc \in Resizing \cup {"test", "size", "close", "drain", "checker", "destroy", "done"}
  /\ fifoSize \in 0 .. UintRange - 1
  /\ pool \in Pools
  /\ threadsCount \in 0 .. MaxThreads(pool)
  /\ i \in 0 .. MaxThreads(pool)
  /\ current \in [Pools -> Nat]
  /\ \A p \in Pools : current[p] <= MaxThreads(p)
  /\ missing \subseteq Threads \ {Main}
  /\ crashed \in BOOLEAN

\* The loops of set...Threads() run between the old and the new size.
LoopInv ==
  /\ pc = "cancel" => threadsCount <= i /\ i <= current[pool] /\ threadsCount < current[pool]
  /\ pc = "join" => threadsCount <= i /\ i <= current[pool]
  /\ pc = "create" => current[pool] <= i /\ i <= threadsCount /\ current[pool] < threadsCount
  /\ pc = "resized" => current[pool] = threadsCount

\* Before and after the destruction of the queue is prepared; which pools have
\* been stopped.
PhaseInv ==
  /\ pc \in {"test", "size"} => ~Finishing
  /\ pc \in {"drain", "checker", "destroy", "done"} => Finishing
  /\ Finishing /\ pc \in Resizing => threadsCount = 0
  /\ Finishing /\ ((pc \in Resizing /\ pool = "workers") \/ pc = "drain") => current["receivers"] = 0
  /\ pc \in {"checker", "destroy", "done"} => \A p \in Pools : current[p] = 0
  /\ pc \in {"destroy", "done"} => Checker \notin alive

\* While the server serves no pool is empty, unless the CPUs could not be counted.
ServingInv ==
  ~Finishing =>
    /\ pc \in Resizing => threadsCount >= MinThreads(pool)
    /\ \/ \A p \in Pools : current[p] >= MinThreads(p)
       \/ (\A p \in Pools : current[p] = 0) /\ Checker \in missing /\ pc \in {"test", "size", "close"}

\* Who is in which function of fifo.c.
CallInv ==
  /\ stage[Main] # "out" =>
       pc \in {"size", "close", "drain", "destroy"} /\ call[Main] = pc
  /\ pc = "close" => call[Main] = "close" /\ (stage[Main] \in {"lock", "body"} \/ Finishing)
  /\ \A t \in Threads \ {Main} : call[t] \in {"none", "put", "get"}
  /\ \A t \in ThreadsOf("workers") :
       /\ call[t] = "none" => message[t] = NULL
       /\ t \in alive /\ ~Finishing => ~(Outside(t) /\ GotNothing(t))
  /\ \A t \in Threads \ alive : Outside(t)

AliveInv ==
  /\ Main \in alive /\ Main \notin cancelled
  /\ alive \subseteq Reach
  /\ cancelled \subseteq Threads
  /\ alive \cap missing = {}
  /\ ~Finishing => Kept \ missing \subseteq alive /\ Kept \cap cancelled \cap alive = {}

ServerInv == QueueInv /\ MainTypeOK /\ LoopInv /\ PhaseInv /\ ServingInv /\ CallInv /\ AliveInv
               /\ CrashNeedsFailure

-----------------------------------------------------------------------------
(* The slots of the pools.                                                 *)

LEMMA PoolSizes ==
  \A p \in Pools : MinThreads(p) \in Nat \ {0} /\ MaxThreads(p) \in Nat /\ MinThreads(p) <= MaxThreads(p)
BY BalanceAssumption DEF Pools, MinThreads, MaxThreads

\* No thread has two slots, or a slot in two pools.
LEMMA SlotsKnown ==
  /\ \A p \in Pools : \A k \in 1 .. MaxThreads(p) :
       /\ PoolThreads(p)[k] \in Threads \ {Main, Checker}
       /\ PoolThreads(p)[k] \in ThreadsOf(p)
       /\ \A q \in Pools : \A j \in 1 .. MaxThreads(q) :
            PoolThreads(p)[k] = PoolThreads(q)[j] => p = q /\ k = j
  /\ Main \in Threads /\ Checker \in Threads /\ Main # Checker
  /\ \A p \in Pools : ThreadsOf(p) \subseteq Threads \ {Main, Checker}
  /\ ThreadsOf("receivers") \cap ThreadsOf("workers") = {}
<1>. USE ServerAssumption, PoolSizes DEF ServerAssumption
<1>1. ASSUME NEW p \in Pools
      PROVE  /\ DOMAIN PoolThreads(p) = 1 .. MaxThreads(p)
             /\ \A k \in 1 .. MaxThreads(p) : PoolThreads(p)[k] \in Threads \ {Main, Checker}
  <2>1. PoolThreads(p) \in Seq(Threads \ {Main, Checker}) /\ Len(PoolThreads(p)) = MaxThreads(p)
    OBVIOUS
  <2>. QED BY <2>1
<1>2. \A p \in Pools : ThreadsOf(p) = {PoolThreads(p)[k] : k \in 1 .. MaxThreads(p)}
  BY <1>1 DEF ThreadsOf
<1>3. ASSUME NEW p \in Pools, NEW q \in Pools, NEW k \in 1 .. MaxThreads(p), NEW j \in 1 .. MaxThreads(q),
             PoolThreads(p)[k] = PoolThreads(q)[j]
      PROVE  p = q /\ k = j
  <2>1. PoolThreads(p)[k] \in ThreadsOf(p) /\ PoolThreads(q)[j] \in ThreadsOf(q)
    BY <1>2
  <2>2. p = q
    BY <1>3, <2>1 DEF Pools
  <2>. QED BY <1>3, <2>2
<1>. QED BY <1>1, <1>2, <1>3

LEMMA SlotsGrow ==
  ASSUME NEW p \in Pools
  PROVE  /\ Slots(p, 0) = {}
         /\ \A n \in 0 .. MaxThreads(p) : Slots(p, n) \subseteq ThreadsOf(p)
         /\ \A n \in 0 .. MaxThreads(p) : \A k \in n + 1 .. MaxThreads(p) :
              PoolThreads(p)[k] \notin Slots(p, n)
         /\ \A n \in Nat : n + 1 <= MaxThreads(p) =>
              Slots(p, n + 1) = Slots(p, n) \cup {PoolThreads(p)[n + 1]}
         /\ \A m, n \in Nat : m <= n => Slots(p, m) \subseteq Slots(p, n)
BY PoolSizes, SlotsKnown DEF Slots

-----------------------------------------------------------------------------
LEMMA ServerInitInv == Init => ServerInv
<1>. SUFFICES ASSUME Init PROVE ServerInv
  OBVIOUS
<1>. USE PoolSizes, SlotsKnown
<1>1. QueueInv
  BY FifoInitInv DEF Init
<1>2. pc = "test" /\ pool = "receivers" /\ threadsCount = 0 /\ i = 0 /\ ~crashed /\ cancelled = {}
  BY DEF Init
<1>3. /\ current \in [Pools -> Nat] /\ \A p \in Pools : current[p] <= MaxThreads(p)
      /\ \/ \A p \in Pools : current[p] >= MinThreads(p)
         \/ (\A p \in Pools : current[p] = 0) /\ Checker \in missing
  BY DEF Init
<1>4. \A p \in Pools : InPool(p) = Slots(p, current[p]) /\ InPool(p) \subseteq Threads \ {Main, Checker}
  BY <1>3, SlotsGrow DEF InPool, Slots
<1>5. Main \notin missing /\ missing \subseteq Counted
  <2>1. CASE missing \in SUBSET (Counted \cap Fallible)
    BY <2>1, ServerAssumption DEF ServerAssumption
  <2>2. CASE missing = {Checker}
    BY <2>2 DEF Counted
  <2>. QED BY <2>1, <2>2 DEF Init
<1>6. Counted \subseteq Threads /\ Counted = Reach /\ Counted = Kept
  BY <1>2, <1>4 DEF Counted, Pools, Reach, Kept, Extent, Staying
<1>7. alive = Counted \ missing
  BY DEF Init
<1>8. MainTypeOK
  <2>1. fifoSize \in 0 .. UintRange - 1
    BY FifoAssumption DEF Init, FifoAssumption
  <2>2. pool \in Pools /\ threadsCount \in 0 .. MaxThreads(pool) /\ i \in 0 .. MaxThreads(pool)
    BY <1>2 DEF Pools
  <2>3. missing \subseteq Threads \ {Main}
    BY <1>5, <1>6
  <2>. QED BY <1>2, <1>3, <2>1, <2>2, <2>3 DEF Init, MainTypeOK
<1>9. ~Finishing /\ \A t \in Threads : call[t] = "none" /\ stage[t] = "out" /\ message[t] = NULL
  BY DEF Init, FifoInit, Finishing
<1>10. CallInv
  BY <1>2, <1>9 DEF CallInv, Outside, GotNothing, Pools
<1>11. AliveInv
  BY <1>2, <1>5, <1>6, <1>7 DEF AliveInv, Counted
<1>12. LoopInv /\ PhaseInv /\ ServingInv /\ CrashNeedsFailure
  BY <1>2, <1>3, <1>9 DEF LoopInv, PhaseInv, ServingInv, CrashNeedsFailure, Resizing
<1>. QED BY <1>1, <1>8, <1>10, <1>11, <1>12 DEF ServerInv

-----------------------------------------------------------------------------
(* What the steps do to the queue.                                         *)

\* A step inside fifo.c: who moves, and what it can return.
LEMMA FifoStepMoves ==
  ASSUME QueueInv, NEW t \in Threads, FifoStep(t)
  PROVE  /\ call' = call
         /\ stage[t] \notin {"out", "asleep"}
         /\ \A u \in Threads \ {t} :
              /\ message'[u] = message[u]
              /\ stage'[u] = stage[u] \/ (stage[u] = "asleep" /\ stage'[u] = "woken")
         /\ preparedForDestruction => preparedForDestruction'
         /\ preparedForDestruction' => preparedForDestruction \/ call[t] = "close"
         /\ call[t] = "close" => stage'[t] \in {"lock", "body"} \/ preparedForDestruction' \/ stage[t] = "signal"
         /\ call[t] = "get" /\ stage'[t] = "out" => message'[t] # NULL \/ preparedForDestruction
         /\ call[t] = "none" => message'[t] = message[t]
<1>. USE DEF QueueInv, TypeOK, StageInv, Functions, Stages, Outside, InBody, Running, Unlock, Leaving, queueVars
<1>1. CASE Lock(t)
  BY <1>1 DEF Lock
<1>2. CASE PutRefused(t)
  BY <1>2 DEF PutRefused
<1>3. CASE PutFirst(t) \/ PutBehind(t)
  BY <1>3 DEF PutFirst, PutBehind, Accept
<1>4. CASE PutSignal(t) \/ CloseBroadcast(t)
  BY <1>4 DEF PutSignal, CloseBroadcast, Sleeping
<1>5. CASE GetWait(t) \/ GetTake(t) \/ GetNothing(t)
  BY <1>5 DEF GetWait, GetTake, GetNothing, Sleeping
<1>6. CASE CloseBody(t) \/ DrainWait(t) \/ DrainDone(t) \/ SizeBody(t) \/ DestroyBody(t)
  BY <1>6 DEF CloseBody, DrainWait, DrainDone, SizeBody, DestroyBody
<1>. QED BY <1>1, <1>2, <1>3, <1>4, <1>5, <1>6 DEF FifoStep

\* A call of a function by a thread that holds what the function needs.
LEMMA CallsKeep ==
  ASSUME QueueInv, NEW t \in Threads, NEW f \in Functions, Calls(t, f),
         f = "put" => message[t] # NULL, f = "get" => message[t] = NULL
  PROVE  QueueInv'
BY DEF Calls, QueueInv, TypeOK, Exclusive, StageInv, ListInv, OwnerInv, Functions, Stages,
       InBody, Outside, queueVars

-----------------------------------------------------------------------------
(* The steps of main() keep the invariant.                                 *)

\* What is not in main()'s own control: a step in fifo.c or of another thread.
ThreadStep(t) == InFifo(t) \/ PutReceived(t) \/ GetNext(t) \/ Handle(t) \/ ExitWorker(t)
                   \/ DieOutside(t) \/ DieInWait(t) \/ Receive(t) \/ Spurious(t)

\* The calls main() makes into fifo.c.
MainCall == LoopAgain \/ LoopExit \/ WaitEmpty \/ DestroyQueue

\* The thread that set...Threads() creates next is not running.
LEMMA NextIsDead ==
  ASSUME ServerInv, pc = "create", i < threadsCount
  PROVE  /\ PoolThreads(pool)[i + 1] \in Threads \ (alive \cup {Main, Checker})
         /\ Outside(PoolThreads(pool)[i + 1])
<1>. DEFINE t == PoolThreads(pool)[i + 1]
<1>. USE PoolSizes DEF ServerInv
<1>1. pool \in Pools /\ i + 1 \in 1 .. MaxThreads(pool) /\ i \in 0 .. MaxThreads(pool)
  BY DEF MainTypeOK
<1>2. t \in Threads \ {Main, Checker} /\ t \in ThreadsOf(pool)
  BY <1>1, SlotsKnown
<1>3. t \notin Slots(pool, Extent(pool))
  BY <1>1, SlotsGrow DEF Extent
<1>4. \A p \in Pools \ {pool} : t \notin Slots(p, Extent(p))
  <2>. SUFFICES ASSUME NEW p \in Pools \ {pool} PROVE t \notin Slots(p, current[p])
    BY DEF Extent
  <2>1. Slots(p, current[p]) \subseteq ThreadsOf(p)
    BY SlotsGrow DEF MainTypeOK
  <2>. QED BY <1>1, <1>2, <2>1, SlotsKnown DEF Pools
<1>5. t \notin Reach
  BY <1>2, <1>3, <1>4 DEF Reach, Pools
<1>. QED BY <1>2, <1>5 DEF AliveInv, CallInv

LEMMA MainKeepsQueue ==
  ASSUME ServerInv, MainStep
  PROVE  QueueInv'
<1>. USE DEF ServerInv
<1>1. CASE MainCall
  BY <1>1, CallsKeep, SlotsKnown
  DEF MainCall, LoopAgain, LoopExit, WaitEmpty, DestroyQueue, Functions
<1>2. CASE CreateNext
  <2>. DEFINE t == PoolThreads(pool)[i + 1]
  <2>1. t \in Threads /\ Outside(t)
    BY <1>2, NextIsDead DEF CreateNext
  <2>2. /\ UNCHANGED <<queueVars, mutex, destroyed, next, live, stage>>
        /\ call' = [call EXCEPT ![t] = "none"]
        /\ message' = [message EXCEPT ![t] = NULL]
    BY <1>2 DEF CreateNext
  <2>. HIDE DEF t
  <2>. QED BY <2>1, <2>2, FifoAssumption
       DEF QueueInv, TypeOK, Exclusive, StageInv, ListInv, OwnerInv, Functions, InBody, Outside, queueVars
<1>3. CASE MainStep /\ ~MainCall /\ ~CreateNext
  <2>1. UNCHANGED fifoVars
    BY <1>3 DEF MainStep, MainCall, CancelNext, CancelledAll, JoinNext, CreateFails, SetDone,
       DivideByZero, BalanceReceivers, BalanceWorkers, SleepPeriod, StopReceivers, StopWorkers,
       StopChecker, Exit, Resize
  <2>. QED BY <2>1, QueueStutters
<1>. QED BY <1>1, <1>2, <1>3

\* A call of set...Threads(), whoever makes it.
LEMMA ResizeStep ==
  ASSUME ServerInv, NEW p \in Pools, NEW n \in 0 .. MaxThreads(p), Resize(p, n),
         pc \in {"size", "resized", "close", "drain"}
  PROVE  MainTypeOK' /\ LoopInv' /\ Reach' = Reach /\ Kept' \subseteq Kept
<1>. USE PoolSizes DEF ServerInv, MainTypeOK, Resize, Goto, threadSets, Resizing
<1>1. current[p] \in 0 .. MaxThreads(p)
  OBVIOUS
<1>2. MainTypeOK'
  BY <1>1
<1>3. LoopInv'
  BY <1>1 DEF LoopInv
<1>4. \A q \in Pools : /\ Extent(q) = current[q] /\ Extent(q)' = current[q]
                        /\ Staying(q) = current[q]
                        /\ Staying(q)' \in Nat /\ Staying(q)' <= current[q]
  BY <1>1 DEF Extent, Staying
<1>5. \A q \in Pools : Slots(q, Staying(q)') \subseteq Slots(q, Staying(q))
  BY <1>4, SlotsGrow
<1>. QED BY <1>2, <1>3, <1>4, <1>5 DEF Reach, Kept, Pools

\* The calls of set...Threads() in balanceThreads() and finalizeServer().
Resizes == BalanceReceivers \/ BalanceWorkers \/ StopReceivers \/ StopWorkers

LEMMA ResizesArgument ==
  ASSUME ServerInv, Resizes
  PROVE  \E p \in Pools : \E n \in 0 .. MaxThreads(p) :
           /\ Resize(p, n)
           /\ Outside(Main)
           /\ Finishing => n = 0 /\ (p = "workers" => current["receivers"] = 0)
           /\ ~Finishing => /\ n >= MinThreads(p)
                            /\ \A q \in Pools : current[q] >= MinThreads(q)
           /\ pc \in {"size", "resized", "close", "drain"}
<1>. USE PoolSizes, SlotsKnown DEF ServerInv
<1>1. fifoSize \in Nat /\ \A p \in Pools : current[p] \in 0 .. MaxThreads(p)
  BY DEF MainTypeOK
<1>2. CASE StopReceivers
  <2>1. Finishing /\ "receivers" \in Pools /\ 0 \in 0 .. MaxThreads("receivers")
    BY <1>2 DEF StopReceivers, CallInv, Outside, Pools
  <2>. QED BY <1>2, <2>1 DEF StopReceivers
<1>3. CASE StopWorkers
  <2>1. Finishing /\ "workers" \in Pools /\ 0 \in 0 .. MaxThreads("workers") /\ current["receivers"] = 0
    BY <1>3 DEF StopWorkers, PhaseInv, Pools
  <2>. QED BY <1>3, <2>1 DEF StopWorkers
<1>4. CASE BalanceReceivers \/ BalanceWorkers
  <2>1. ~Finishing /\ Outside(Main)
    BY <1>4 DEF BalanceReceivers, BalanceWorkers, PhaseInv, CallInv, Outside
  <2>2. \A q \in Pools : current[q] \in MinThreads(q) .. MaxThreads(q)
    BY <1>1, <1>4, <2>1 DEF ServingInv, BalanceReceivers, BalanceWorkers
  <2>3. \A q \in Pools : /\ Balanced(q, fifoSize, current[q]) \in 0 .. MaxThreads(q)
                          /\ Balanced(q, fifoSize, current[q]) >= MinThreads(q)
    <3>1. \A q \in Pools : Balanced(q, fifoSize, current[q]) \in MinThreads(q) .. MaxThreads(q)
      BY <1>1, <2>2, BalancedBounds
    <3>. QED BY <3>1
  <2>4. CASE BalanceReceivers
    <3>. "receivers" \in Pools
      BY DEF Pools
    <3>. QED BY <2>1, <2>2, <2>3, <2>4 DEF BalanceReceivers
  <2>5. CASE BalanceWorkers
    <3>. "workers" \in Pools
      BY DEF Pools
    <3>. QED BY <2>1, <2>2, <2>3, <2>5 DEF BalanceWorkers
  <2>. QED BY <1>4, <2>4, <2>5
<1>. QED BY <1>2, <1>3, <1>4 DEF Resizes

\* Nothing that CallInv is about changes.
LEMMA CallsQuiet ==
  ASSUME ServerInv, UNCHANGED <<fifoVars, alive>>, Outside(Main), pc' # "close"
  PROVE  CallInv'
BY SlotsKnown DEF ServerInv, CallInv, Outside, Finishing, GotNothing, fifoVars, queueVars, threadVars

LEMMA ResizesKeep ==
  ASSUME ServerInv, Resizes, ~crashed
  PROVE  ServerInv'
<1>1. PICK p \in Pools : \E n \in 0 .. MaxThreads(p) :
           /\ Resize(p, n)
           /\ Outside(Main)
           /\ Finishing => n = 0 /\ (p = "workers" => current["receivers"] = 0)
           /\ ~Finishing => /\ n >= MinThreads(p)
                            /\ \A q \in Pools : current[q] >= MinThreads(q)
           /\ pc \in {"size", "resized", "close", "drain"}
  BY ResizesArgument
<1>2. PICK n \in 0 .. MaxThreads(p) :
           /\ Resize(p, n)
           /\ Outside(Main)
           /\ Finishing => n = 0 /\ (p = "workers" => current["receivers"] = 0)
           /\ ~Finishing => /\ n >= MinThreads(p)
                            /\ \A q \in Pools : current[q] >= MinThreads(q)
           /\ pc \in {"size", "resized", "close", "drain"}
  BY <1>1
<1>3. MainTypeOK' /\ LoopInv' /\ Reach' = Reach /\ Kept' \subseteq Kept
  BY <1>2, ResizeStep
<1>4. /\ UNCHANGED <<fifoVars, current, missing, crashed, alive, cancelled>>
      /\ pc' \in Resizing /\ pool' = p /\ threadsCount' = n /\ Finishing' = Finishing
  BY <1>2 DEF Resize, Goto, threadSets, Resizing, Finishing, fifoVars, queueVars
<1>5. PhaseInv'
  BY <1>2, <1>4 DEF PhaseInv, Resizing
<1>6. ServingInv'
  BY <1>2, <1>4 DEF ServingInv
<1>7. CallInv'
  BY <1>2, <1>4, CallsQuiet DEF Resizing
<1>8. AliveInv'
  BY <1>3, <1>4 DEF ServerInv, AliveInv
<1>9. CrashNeedsFailure'
  BY <1>4 DEF CrashNeedsFailure
<1>10. QueueInv'
  BY <1>4, QueueStutters DEF ServerInv
<1>. QED BY <1>3, <1>5, <1>6, <1>7, <1>8, <1>9, <1>10 DEF ServerInv

\* The steps of main() that change neither the pools nor what runs in them.
Moves == LoopAgain \/ LoopExit \/ SleepPeriod \/ WaitEmpty \/ StopChecker \/ DestroyQueue
           \/ Exit \/ DivideByZero

LEMMA MovesKeep ==
  ASSUME ServerInv, Moves, ~crashed
  PROVE  ServerInv'
<1>. USE DEF ServerInv, Goto, threadSets, Calls
<1>1. /\ UNCHANGED <<preparedForDestruction, ok, fifoSize, pool, threadsCount, i, current, missing, alive, message>>
      /\ \A t \in Threads \ {Main} : call'[t] = call[t] /\ stage'[t] = stage[t]
  BY DEF Moves, LoopAgain, LoopExit, SleepPeriod, WaitEmpty, StopChecker, DestroyQueue, Exit,
         DivideByZero, fifoVars, queueVars, threadVars, QueueInv, TypeOK
<1>2. pc \notin {"cancel", "join", "create"} /\ pc' \notin {"cancel", "join", "create"}
  BY DEF Moves, LoopAgain, LoopExit, SleepPeriod, WaitEmpty, StopChecker, DestroyQueue, Exit,
         DivideByZero
<1>3. QueueInv'
  BY MainKeepsQueue DEF Moves, MainStep
<1>4. MainTypeOK'
  BY <1>1 DEF MainTypeOK, Moves, LoopAgain, LoopExit, SleepPeriod, WaitEmpty, StopChecker,
     DestroyQueue, Exit, DivideByZero, UsesHandle
<1>5. LoopInv' /\ PhaseInv' /\ ServingInv'
  <2>1. LoopInv'
    BY <1>1, <1>2 DEF LoopInv, Moves, LoopAgain, LoopExit, SleepPeriod, WaitEmpty, StopChecker,
       DestroyQueue, Exit, DivideByZero
  <2>2. PhaseInv'
    BY <1>1, <1>2 DEF LoopInv, PhaseInv, MainTypeOK, Pools, Resizing, Finishing, Moves, LoopAgain,
       LoopExit, SleepPeriod, WaitEmpty, StopChecker, DestroyQueue, Exit, DivideByZero
  <2>3. ServingInv'
    BY <1>1, <1>2 DEF ServingInv, PhaseInv, Resizing, Finishing, Moves, LoopAgain,
       LoopExit, SleepPeriod, WaitEmpty, StopChecker, DestroyQueue, Exit, DivideByZero
  <2>. QED BY <2>1, <2>2, <2>3
<1>6. CrashNeedsFailure'
  <2>1. CASE DivideByZero
    <3>1. ~Finishing /\ \E p \in Pools : ~(current[p] >= MinThreads(p))
      BY <2>1, PoolSizes DEF DivideByZero, PhaseInv
    <3>. QED BY <1>1, <3>1 DEF ServingInv, CrashNeedsFailure
  <2>2. CASE StopChecker \/ DestroyQueue
    BY <1>1, <2>2 DEF CrashNeedsFailure, StopChecker, DestroyQueue, UsesHandle
  <2>3. CASE LoopAgain \/ LoopExit \/ SleepPeriod \/ WaitEmpty \/ Exit
    BY <2>3 DEF CrashNeedsFailure, LoopAgain, LoopExit, SleepPeriod, WaitEmpty, Exit
  <2>. QED BY <2>1, <2>2, <2>3 DEF Moves
<1>7. CallInv'
  <2>1. CASE MainCall
    <3>1. /\ call'[Main] = pc' /\ stage'[Main] = "lock" /\ Outside(Main)
          /\ pc' \in {"size", "close", "drain", "destroy"}
      BY <2>1, SlotsKnown DEF MainCall, LoopAgain, LoopExit, WaitEmpty, DestroyQueue, QueueInv, TypeOK
    <3>2. Main \in alive /\ ThreadsOf("workers") \subseteq Threads \ {Main}
      BY SlotsKnown DEF AliveInv, Pools
    <3>. QED BY <1>1, <3>1, <3>2 DEF CallInv, Outside, GotNothing, Finishing
  <2>2. CASE SleepPeriod \/ StopChecker \/ Exit \/ DivideByZero
    <3>1. UNCHANGED <<fifoVars, alive>> /\ Outside(Main) /\ pc' # "close"
      BY <2>2 DEF SleepPeriod, StopChecker, Exit, DivideByZero, CallInv, Outside
    <3>. QED BY <3>1, CallsQuiet
  <2>. QED BY <2>1, <2>2 DEF Moves, MainCall
<1>8. AliveInv'
  <2>1. Reach' = Reach /\ Kept' = Kept
    BY <1>1, <1>2 DEF Reach, Kept, Extent, Staying
  <2>2. cancelled' = cancelled \/ (Finishing /\ cancelled' = cancelled \cup ({Checker} \cap alive))
    BY DEF Moves, LoopAgain, LoopExit, SleepPeriod, WaitEmpty, StopChecker, DestroyQueue, Exit,
           DivideByZero
  <2>. QED BY <1>1, <2>1, <2>2, SlotsKnown DEF AliveInv, Finishing
<1>. QED BY <1>3, <1>4, <1>5, <1>6, <1>7, <1>8

\* The loops of set...Threads().
Loops == CancelNext \/ CancelledAll \/ JoinNext \/ CreateNext \/ CreateFails \/ SetDone

LEMMA LoopsKeepMain ==
  ASSUME ServerInv, Loops, ~crashed
  PROVE  MainTypeOK' /\ LoopInv' /\ PhaseInv' /\ ServingInv' /\ CrashNeedsFailure'
<1>. USE PoolSizes DEF ServerInv, Goto, threadSets, Resizing
<1>1. /\ pool' = pool /\ threadsCount' = threadsCount /\ ok' = ok /\ fifoSize' = fifoSize
      /\ Finishing' = Finishing
      /\ pc \in {"cancel", "join", "create"} /\ pc' \in Resizing
      /\ current' = current \/ (SetDone /\ current' = [current EXCEPT ![pool] = threadsCount])
  BY DEF Loops, CancelNext, CancelledAll, JoinNext, CreateNext, CreateFails, SetDone, Finishing,
         fifoVars, queueVars
<1>2. pool \in Pools /\ current \in [Pools -> Nat] /\ current' \in [Pools -> Nat]
  BY <1>1 DEF MainTypeOK
<1>3. LoopInv'
  BY <1>1, <1>2 DEF LoopInv, MainTypeOK, Loops, CancelNext, CancelledAll, JoinNext, CreateNext,
     CreateFails, SetDone
<1>4. missing' \subseteq Threads \ {Main}
  <2>1. CASE CreateNext \/ CreateFails
    BY <2>1, NextIsDead DEF MainTypeOK, CreateNext, CreateFails
  <2>2. CASE ~(CreateNext \/ CreateFails)
    BY <2>2 DEF Loops, MainTypeOK, CancelNext, CancelledAll, JoinNext, SetDone
  <2>. QED BY <2>1, <2>2
<1>5. crashed' \in BOOLEAN /\ CrashNeedsFailure'
  <2>1. CASE CancelNext \/ JoinNext
    BY <2>1 DEF CrashNeedsFailure, CancelNext, JoinNext, UsesHandle
  <2>2. CASE CancelledAll \/ CreateNext \/ CreateFails \/ SetDone
    <3>1. crashed' = crashed
      BY <2>2 DEF CancelledAll, CreateNext, CreateFails, SetDone
    <3>. QED BY <3>1 DEF CrashNeedsFailure, MainTypeOK
  <2>. QED BY <2>1, <2>2 DEF Loops
<1>6. i' \in 0 .. MaxThreads(pool)
  BY <1>1, <1>2 DEF LoopInv, MainTypeOK, Loops, CancelNext, CancelledAll, JoinNext, CreateNext,
     CreateFails, SetDone
<1>7. MainTypeOK'
  BY <1>1, <1>2, <1>4, <1>5, <1>6 DEF MainTypeOK
<1>8. PhaseInv'
  <2>1. pc' \notin {"test", "size", "drain", "checker", "destroy", "done"}
    BY <1>1
  <2>2. Finishing => threadsCount = 0 /\ (pool = "workers" => current["receivers"] = 0)
    BY <1>1 DEF PhaseInv
  <2>3. "receivers" \in Pools
    BY DEF Pools
  <2>. QED BY <1>1, <1>2, <2>1, <2>2, <2>3 DEF PhaseInv
<1>9. ServingInv'
  BY <1>1, <1>2 DEF ServingInv
<1>. QED BY <1>3, <1>5, <1>7, <1>8, <1>9

\* The thread a loop is at, in no other slot.
LEMMA SlotIsOwn ==
  ASSUME ServerInv, NEW k \in 1 .. MaxThreads(pool),
         NEW n \in Nat, n < k
  PROVE  /\ PoolThreads(pool)[k] \in Threads \ {Main, Checker}
         /\ PoolThreads(pool)[k] \notin Slots(pool, n)
         /\ \A p \in Pools \ {pool} : PoolThreads(pool)[k] \notin Slots(p, current[p])
<1>. USE PoolSizes, SlotsKnown DEF ServerInv, MainTypeOK
<1>1. pool \in Pools /\ n \in 0 .. MaxThreads(pool) /\ k \in n + 1 .. MaxThreads(pool)
  OBVIOUS
<1>2. PoolThreads(pool)[k] \notin Slots(pool, n)
  BY <1>1, SlotsGrow
<1>3. \A p \in Pools \ {pool} : Slots(p, current[p]) \subseteq ThreadsOf(p)
  BY SlotsGrow
<1>4. \A p \in Pools \ {pool} : ThreadsOf(p) \cap ThreadsOf(pool) = {}
  BY <1>1 DEF Pools
<1>. QED BY <1>1, <1>2, <1>3, <1>4

LEMMA LoopsKeepAlive ==
  ASSUME ServerInv, Loops
  PROVE  AliveInv'
<1>. USE PoolSizes, SlotsKnown DEF ServerInv, MainTypeOK, Goto, threadSets
<1>. DEFINE others == {Main, Checker} \cup UNION {Slots(p, current[p]) : p \in Pools \ {pool}}
<1>1. /\ pool \in Pools
      /\ Reach = others \cup Slots(pool, Extent(pool))
      /\ Kept = others \cup Slots(pool, Staying(pool))
  BY DEF Reach, Kept, Extent, Staying, Pools
<1>2. /\ pool' = pool /\ threadsCount' = threadsCount /\ Finishing' = Finishing
      /\ \A p \in Pools \ {pool} : current'[p] = current[p]
  BY DEF Loops, CancelNext, CancelledAll, JoinNext, CreateNext, CreateFails, SetDone, Finishing,
         fifoVars, queueVars
<1>3. /\ Reach' = others \cup Slots(pool, Extent(pool)')
      /\ Kept' = others \cup Slots(pool, Staying(pool)')
  BY <1>1, <1>2 DEF Reach, Kept, Extent, Staying, Pools
<1>. HIDE DEF others
<1>4. CASE CancelNext
  <2>. DEFINE t == PoolThreads(pool)[i]
  <2>1. t \in Threads \ Kept /\ t # Main
    <3>1. i \in 1 .. MaxThreads(pool) /\ threadsCount \in Nat /\ threadsCount < i /\ Staying(pool) = threadsCount
      BY <1>4 DEF CancelNext, Staying
    <3>. QED BY <1>1, <3>1, SlotIsOwn DEF others
  <2>2. Reach' = Reach /\ Kept' = Kept
    BY <1>1, <1>3, <1>4 DEF CancelNext, Extent, Staying
  <2>3. cancelled' = cancelled \cup ({t} \cap alive) /\ UNCHANGED <<missing, alive>>
    BY <1>4 DEF CancelNext
  <2>. QED BY <1>2, <2>1, <2>2, <2>3 DEF AliveInv
<1>5. CASE CancelledAll
  <2>1. Reach' = Reach /\ Kept' = Kept
    BY <1>1, <1>2, <1>3, <1>5 DEF CancelledAll, Extent, Staying
  <2>. QED BY <1>2, <1>5, <2>1 DEF AliveInv, CancelledAll
<1>6. CASE JoinNext
  <2>. DEFINE t == PoolThreads(pool)[i]
  <2>1. Slots(pool, i) = Slots(pool, i - 1) \cup {t} /\ t \notin alive
    <3>1. i - 1 \in Nat /\ (i - 1) + 1 = i /\ i <= MaxThreads(pool)
      BY <1>6 DEF JoinNext
    <3>. QED BY <1>1, <1>6, <3>1, SlotsGrow DEF JoinNext
  <2>2. Extent(pool) = i /\ Extent(pool)' = i - 1 /\ Staying(pool)' = Staying(pool)
    BY <1>2, <1>6 DEF JoinNext, Extent, Staying
  <2>3. Reach \ {t} \subseteq Reach' /\ Kept' = Kept
    BY <1>1, <1>3, <2>1, <2>2
  <2>4. UNCHANGED <<missing, alive, cancelled>>
    BY <1>6 DEF JoinNext
  <2>. QED BY <1>2, <2>1, <2>3, <2>4 DEF AliveInv
<1>7. CASE CreateNext \/ CreateFails
  <2>. DEFINE t == PoolThreads(pool)[i + 1]
  <2>1. t \in Threads \ (alive \cup {Main, Checker})
    BY <1>7, NextIsDead DEF CreateNext, CreateFails
  <2>2. Slots(pool, i + 1) = Slots(pool, i) \cup {t}
    <3>1. i \in Nat /\ i + 1 <= MaxThreads(pool)
      BY <1>7 DEF CreateNext, CreateFails
    <3>. QED BY <1>1, <3>1, SlotsGrow
  <2>3. /\ Extent(pool) = i /\ Extent(pool)' = i + 1
        /\ Staying(pool) = i /\ Staying(pool)' = i + 1
    BY <1>2, <1>7 DEF CreateNext, CreateFails, Extent, Staying
  <2>4. Reach' = Reach \cup {t} /\ Kept' = Kept \cup {t}
    BY <1>1, <1>3, <2>2, <2>3
  <2>5. CASE CreateNext
    <3>1. /\ alive' = alive \cup {t}
          /\ missing' = missing \ {t}
          /\ cancelled' = cancelled \ {t}
      BY <2>5 DEF CreateNext
    <3>. QED BY <1>2, <2>1, <2>4, <3>1 DEF AliveInv
  <2>6. CASE CreateFails
    <3>1. missing' = missing \cup {t} /\ UNCHANGED <<alive, cancelled>>
      BY <2>6 DEF CreateFails
    <3>. QED BY <1>2, <2>1, <2>4, <3>1 DEF AliveInv
  <2>. QED BY <1>7, <2>5, <2>6
<1>8. CASE SetDone
  <2>1. /\ Extent(pool) = threadsCount /\ Extent(pool)' = threadsCount
        /\ Staying(pool) = threadsCount /\ Staying(pool)' = threadsCount
    BY <1>1, <1>2, <1>8 DEF SetDone, Extent, Staying
  <2>2. Reach' = Reach /\ Kept' = Kept
    BY <1>1, <1>3, <2>1
  <2>. QED BY <1>2, <1>8, <2>2 DEF AliveInv, SetDone
<1>. QED BY <1>4, <1>5, <1>6, <1>7, <1>8 DEF Loops

LEMMA LoopsKeep ==
  ASSUME ServerInv, Loops, ~crashed
  PROVE  ServerInv'
<1>1. QueueInv'
  BY MainKeepsQueue DEF Loops, MainStep
<1>2. CallInv'
  <2>1. Outside(Main) /\ pc' # "close"
    BY DEF ServerInv, CallInv, Loops, CancelNext, CancelledAll, JoinNext, CreateNext, CreateFails,
           SetDone, Goto, Outside
  <2>2. CASE CreateNext
    <3>. DEFINE t == PoolThreads(pool)[i + 1]
    <3>1. t \in Threads \ {Main, Checker} /\ Outside(t) /\ t \notin alive
      BY <2>2, NextIsDead DEF CreateNext
    <3>2. /\ stage' = stage /\ Finishing' = Finishing /\ alive' = alive \cup {t}
          /\ call' = [call EXCEPT ![t] = "none"]
          /\ message' = [message EXCEPT ![t] = NULL]
      BY <2>2 DEF CreateNext, Finishing, queueVars
    <3>3. ThreadsOf("workers") \subseteq Threads
      BY SlotsKnown DEF Pools
    <3>. HIDE DEF t
    <3>4. \A u \in Threads : /\ call'[u] = IF u = t THEN "none" ELSE call[u]
                             /\ message'[u] = IF u = t THEN NULL ELSE message[u]
      BY <3>2 DEF ServerInv, QueueInv, TypeOK
    <3>. QED BY <2>1, <3>1, <3>2, <3>3, <3>4 DEF ServerInv, CallInv, Outside, GotNothing
  <2>3. CASE Loops /\ ~CreateNext
    <3>1. UNCHANGED <<fifoVars, alive>>
      BY <2>3 DEF Loops, CancelNext, CancelledAll, JoinNext, CreateFails, SetDone, threadSets
    <3>. QED BY <2>1, <3>1, CallsQuiet
  <2>. QED BY <2>2, <2>3
<1>. QED BY <1>1, <1>2, LoopsKeepMain, LoopsKeepAlive DEF ServerInv

-----------------------------------------------------------------------------
(* The steps of the other threads, and those in fifo.c.                    *)

LEMMA ThreadsKeepQueue ==
  ASSUME ServerInv, NEW t \in Threads, ThreadStep(t)
  PROVE  QueueInv'
<1>. USE SlotsKnown DEF ServerInv
<1>1. CASE InFifo(t)
  BY <1>1, FifoStepInv DEF InFifo
<1>2. CASE PutReceived(t)
  BY <1>2, CallsKeep DEF PutReceived, Functions
<1>3. CASE GetNext(t)
  BY <1>3, CallsKeep DEF GetNext, Functions, CallInv, IsWorker
<1>4. CASE Handle(t)
  BY <1>4, FifoAssumption
  DEF Handle, QueueInv, TypeOK, Exclusive, StageInv, ListInv, OwnerInv, Functions, Pointers,
      InBody, Outside, queueVars
<1>5. CASE ExitWorker(t) \/ DieOutside(t)
  BY <1>5, QueueStutters DEF ExitWorker, DieOutside
<1>6. CASE DieInWait(t)
  BY <1>6, FifoAssumption
  DEF DieInWait, QueueInv, TypeOK, Exclusive, StageInv, ListInv, OwnerInv, Functions, Stages,
      InBody, Outside, queueVars
<1>7. CASE Receive(t)
  BY <1>7, FifoAssumption
  DEF Receive, QueueInv, TypeOK, Exclusive, StageInv, ListInv, OwnerInv, Functions, Pointers,
      InBody, Outside, queueVars
<1>8. CASE Spurious(t)
  BY <1>8, SpuriousInv DEF Spurious
<1>. QED BY <1>1, <1>2, <1>3, <1>4, <1>5, <1>6, <1>7, <1>8 DEF ThreadStep

\* They leave main() where it is; only its own call closes the queue.
LEMMA ThreadsLeaveMain ==
  ASSUME ServerInv, NEW t \in Threads, ThreadStep(t)
  PROVE  /\ UNCHANGED <<ok, pc, pool, threadsCount, i, current, missing, crashed, cancelled>>
         /\ fifoSize' \in {fifoSize, size}
         /\ Finishing => Finishing'
         /\ Finishing' => Finishing \/ pc = "close"
         /\ alive' \in {alive, alive \ {t}}
<1>1. CASE InFifo(t)
  <2>1. FifoStep(t) /\ QueueInv
    BY <1>1 DEF InFifo, ServerInv
  <2>2. /\ Finishing => Finishing'
        /\ Finishing' => Finishing \/ call[t] = "close"
    BY <2>1, FifoStepMoves DEF Finishing
  <2>3. call[t] = "close" => pc = "close"
    <3>1. stage[t] # "out"
      BY <2>1, FifoStepMoves
    <3>2. CASE t = Main
      BY <3>1, <3>2 DEF ServerInv, CallInv
    <3>3. CASE t # Main
      BY <3>3 DEF ServerInv, CallInv
    <3>. QED BY <3>2, <3>3
  <2>. QED BY <1>1, <2>2, <2>3 DEF InFifo, threadSets
<1>2. CASE ThreadStep(t) /\ ~InFifo(t)
  BY <1>2 DEF ThreadStep, PutReceived, GetNext, Handle, ExitWorker, DieOutside, DieInWait, Receive,
     Spurious, SpuriousWakeup, Calls, Finishing, queueVars, fifoVars, serverVars, mainVars
<1>. QED BY <1>1, <1>2

LEMMA ThreadsKeepCalls ==
  ASSUME ServerInv, NEW t \in Threads, ThreadStep(t)
  PROVE  CallInv'
<1>. USE DEF ServerInv, QueueInv, TypeOK
<1>1. /\ pc' = pc
      /\ Finishing => Finishing'
      /\ alive' \subseteq alive
  BY ThreadsLeaveMain
<1>2. /\ Main \in Threads /\ ThreadsOf("workers") \subseteq Threads \ {Main, Checker}
      /\ ThreadsOf("receivers") \subseteq Threads \ {Main, Checker}
      /\ ThreadsOf("receivers") \cap ThreadsOf("workers") = {}
      /\ Main \notin cancelled
  BY SlotsKnown DEF Pools, AliveInv
<1>3. CASE InFifo(t)
  <2>1. FifoStep(t) /\ alive' = alive
    BY <1>3 DEF InFifo, threadSets
  <2>2. /\ call' = call
        /\ stage[t] \notin {"out", "asleep"}
        /\ \A u \in Threads \ {t} :
             /\ message'[u] = message[u]
             /\ stage'[u] = stage[u] \/ (stage[u] = "asleep" /\ stage'[u] = "woken")
        /\ call[t] = "close" => stage'[t] \in {"lock", "body"} \/ Finishing' \/ stage[t] = "signal"
        /\ call[t] = "get" /\ stage'[t] = "out" => message'[t] # NULL \/ Finishing
        /\ call[t] = "none" => message'[t] = message[t]
    BY <2>1, FifoStepMoves DEF Finishing
  <2>3. /\ stage'[Main] # "out" => pc \in {"size", "close", "drain", "destroy"} /\ call[Main] = pc
        /\ pc = "close" => call[Main] = "close" /\ (stage'[Main] \in {"lock", "body"} \/ Finishing')
    BY <1>1, <1>2, <2>2 DEF CallInv
  <2>4. \A u \in ThreadsOf("workers") :
          /\ call[u] = "none" => message'[u] = NULL
          /\ u \in alive /\ ~Finishing' => ~(stage'[u] = "out" /\ call[u] = "get" /\ message'[u] = NULL)
    BY <1>1, <1>2, <2>2 DEF CallInv, Outside, GotNothing
  <2>5. \A u \in Threads \ alive : stage'[u] = "out"
    BY <2>2 DEF CallInv, Outside
  <2>. QED BY <1>1, <2>1, <2>2, <2>3, <2>4, <2>5 DEF CallInv, Outside, GotNothing
<1>4. CASE PutReceived(t)
  <2>1. t \in ThreadsOf("receivers") \cap alive
    BY <1>4 DEF PutReceived, IsReceiver
  <2>2. /\ call' = [call EXCEPT ![t] = "put"] /\ stage' = [stage EXCEPT ![t] = "lock"]
        /\ UNCHANGED <<message, alive>>
    BY <1>4 DEF PutReceived, Calls, serverVars
  <2>. QED BY <1>1, <1>2, <2>1, <2>2 DEF CallInv, Outside, GotNothing
<1>5. CASE GetNext(t)
  <2>1. t \in ThreadsOf("workers") \cap alive
    BY <1>5 DEF GetNext, IsWorker
  <2>2. /\ call' = [call EXCEPT ![t] = "get"] /\ stage' = [stage EXCEPT ![t] = "lock"]
        /\ UNCHANGED <<message, alive>>
    BY <1>5 DEF GetNext, Calls, serverVars
  <2>. QED BY <1>1, <1>2, <2>1, <2>2 DEF CallInv, Outside, GotNothing
<1>6. CASE Handle(t)
  <2>1. t \in ThreadsOf("workers") \cap alive
    BY <1>6 DEF Handle, IsWorker
  <2>2. /\ call' = [call EXCEPT ![t] = "none"] /\ message' = [message EXCEPT ![t] = NULL]
        /\ UNCHANGED <<stage, alive>>
    BY <1>6 DEF Handle, serverVars
  <2>. QED BY <1>1, <1>2, <2>1, <2>2 DEF CallInv, Outside, GotNothing
<1>7. CASE ExitWorker(t) \/ DieOutside(t)
  <2>1. t # Main /\ Outside(t) /\ alive' = alive \ {t}
    BY <1>2, <1>7 DEF ExitWorker, DieOutside, IsWorker, AtCancellationPoint
  <2>2. UNCHANGED <<call, stage, message>>
    BY <1>7 DEF ExitWorker, DieOutside, fifoVars, threadVars
  <2>. QED BY <1>1, <1>2, <2>1, <2>2 DEF CallInv, Outside, GotNothing
<1>8. CASE DieInWait(t)
  <2>1. t # Main /\ alive' = alive \ {t} /\ stage' = [stage EXCEPT ![t] = "out"]
        /\ UNCHANGED <<call, message>>
    BY <1>2, <1>8 DEF DieInWait
  <2>. QED BY <1>1, <1>2, <2>1 DEF CallInv, Outside, GotNothing
<1>9. CASE Receive(t)
  <2>1. t \in ThreadsOf("receivers") \cap alive
    BY <1>9 DEF Receive, IsReceiver
  <2>2. /\ call' = [call EXCEPT ![t] = "none"]
        /\ \A u \in Threads \ {t} : message'[u] = message[u]
        /\ UNCHANGED <<stage, alive>>
    BY <1>9 DEF Receive, serverVars
  <2>. QED BY <1>1, <1>2, <2>1, <2>2 DEF CallInv, Outside, GotNothing
<1>10. CASE Spurious(t)
  <2>1. stage[t] = "asleep" /\ stage' = [stage EXCEPT ![t] = "woken"]
        /\ UNCHANGED <<call, message, alive>>
    BY <1>10 DEF Spurious, SpuriousWakeup, serverVars
  <2>. QED BY <1>1, <1>2, <2>1 DEF CallInv, Outside, GotNothing
<1>. QED BY <1>3, <1>4, <1>5, <1>6, <1>7, <1>8, <1>9, <1>10 DEF ThreadStep

LEMMA ThreadsKeepAlive ==
  ASSUME ServerInv, NEW t \in Threads, ThreadStep(t)
  PROVE  AliveInv'
<1>. USE DEF ServerInv
<1>1. /\ UNCHANGED <<pc, pool, threadsCount, i, current, missing, cancelled>>
      /\ Finishing => Finishing'
      /\ alive' \in {alive, alive \ {t}}
  BY ThreadsLeaveMain
<1>2. Reach' = Reach /\ Kept' = Kept
  BY <1>1 DEF Reach, Kept, Extent, Staying
<1>3. alive' = alive \/ (t # Main /\ (Finishing \/ t \in cancelled \cap alive))
  <2>1. CASE ExitWorker(t)
    <3>1. t \in ThreadsOf("workers") \cap alive /\ Outside(t) /\ GotNothing(t)
      BY <2>1 DEF ExitWorker, IsWorker
    <3>2. t # Main
      BY <3>1, SlotsKnown DEF Pools
    <3>. QED BY <3>1, <3>2 DEF CallInv
  <2>2. CASE DieOutside(t) \/ DieInWait(t)
    BY <2>2 DEF DieOutside, DieInWait, AliveInv
  <2>3. CASE ThreadStep(t) /\ ~ExitWorker(t) /\ ~DieOutside(t) /\ ~DieInWait(t)
    BY <2>3 DEF ThreadStep, InFifo, PutReceived, GetNext, Handle, Receive, Spurious, serverVars, threadSets
  <2>. QED BY <2>1, <2>2, <2>3
<1>. QED BY <1>1, <1>2, <1>3 DEF AliveInv

LEMMA ThreadsKeep ==
  ASSUME ServerInv, NEW t \in Threads, ThreadStep(t)
  PROVE  ServerInv'
<1>. USE ThreadsLeaveMain
<1>1. MainTypeOK'
  <2>1. fifoSize' \in 0 .. UintRange - 1
    BY DEF ServerInv, MainTypeOK, QueueInv, TypeOK
  <2>. QED BY <2>1 DEF ServerInv, MainTypeOK
<1>2. LoopInv' /\ CrashNeedsFailure'
  BY DEF ServerInv, LoopInv, CrashNeedsFailure
<1>3. PhaseInv'
  BY DEF ServerInv, PhaseInv, Resizing
<1>4. ServingInv'
  BY DEF ServerInv, ServingInv
<1>. QED BY <1>1, <1>2, <1>3, <1>4, ThreadsKeepQueue, ThreadsKeepCalls, ThreadsKeepAlive
         DEF ServerInv

LEMMA ServerStutters ==
  ASSUME ServerInv, UNCHANGED <<fifoVars, pc, fifoSize, pool, threadsCount, i, current, threadSets>>,
         ok' \in BOOLEAN
  PROVE  ServerInv'
<1>1. QueueInv'
  BY QueueStutters DEF ServerInv
<1>2. MainTypeOK' /\ LoopInv' /\ PhaseInv' /\ ServingInv' /\ CrashNeedsFailure'
  BY DEF ServerInv, MainTypeOK, LoopInv, PhaseInv, ServingInv, CrashNeedsFailure, Finishing,
         threadSets, fifoVars, queueVars
<1>3. CallInv' /\ AliveInv'
  BY DEF ServerInv, CallInv, AliveInv, Reach, Kept, Extent, Staying, Finishing, Outside,
         GotNothing, threadSets, fifoVars, queueVars, threadVars
<1>. QED BY <1>1, <1>2, <1>3 DEF ServerInv

LEMMA ServerInvariant == Spec => []ServerInv
<1>1. ServerInv /\ [Next]_vars => ServerInv'
  <2>. SUFFICES ASSUME ServerInv, [Next]_vars PROVE ServerInv'
    OBVIOUS
  <2>1. CASE UNCHANGED vars \/ signalHandler
    BY <2>1, ServerStutters DEF ServerInv, MainTypeOK, signalHandler, vars, serverVars, mainVars, threadSets
  <2>2. CASE ~crashed /\ MainStep
    <3>1. Moves \/ Loops \/ Resizes
      BY <2>2 DEF MainStep, Moves, Loops, Resizes
    <3>. QED BY <2>2, <3>1, MovesKeep, LoopsKeep, ResizesKeep
  <2>3. ASSUME NEW t \in Threads, Proceeds(t) \/ DieInWait(t) \/ Receive(t) \/ Spurious(t)
        PROVE  ServerInv'
    BY <2>3, ThreadsKeep DEF Proceeds, ThreadStep
  <2>. QED BY <2>1, <2>2, <2>3 DEF Next
<1>. QED BY <1>1, ServerInitInv, PTL DEF Spec

-----------------------------------------------------------------------------
(* What follows.                                                           *)

LEMMA ReachIsKnown == ServerInv => Reach \subseteq Threads
<1>. SUFFICES ASSUME ServerInv PROVE Reach \subseteq Threads
  OBVIOUS
<1>1. \A p \in Pools : Extent(p) \in 0 .. MaxThreads(p)
  BY PoolSizes DEF ServerInv, MainTypeOK, Extent
<1>. QED BY <1>1, SlotsGrow, SlotsKnown DEF Reach, Pools

\* Every variable of the server keeps its type, whichever threads fail.
THEOREM ServerTypeCorrect == Spec => []ServerTypeOK
<1>1. ServerInv => ServerTypeOK
  BY ReachIsKnown, PoolSizes
  DEF ServerInv, ServerTypeOK, QueueInv, MainTypeOK, AliveInv, Resizing
<1>. QED BY <1>1, ServerInvariant, PTL

\* For any number of CPUs and any thresholds, balanceThreads() finds alive the
\* threads its counts say, but for those that could not be created.
THEOREM PoolsStayAlive == Spec => []PoolsAreAlive
<1>1. ServerInv => PoolsAreAlive
  <2>. SUFFICES ASSUME ServerInv, pc \in {"test", "size"}
                PROVE  alive = Counted \ missing /\ cancelled \cap alive = {}
    BY DEF PoolsAreAlive
  <2>1. ~Finishing
    BY DEF ServerInv, PhaseInv
  <2>2. Reach = Counted /\ Kept = Counted
    BY DEF Reach, Kept, Counted, InPool, Slots, Extent, Staying
  <2>. QED BY <2>1, <2>2 DEF ServerInv, AliveInv
<1>. QED BY <1>1, ServerInvariant, PTL

\* Only a failed creation of threads can take the process down: no resizing
\* empties a pool, and nothing but a thread is cancelled or joined.
THEOREM CrashesNeedFailures == Spec => []CrashNeedsFailure
<1>1. ServerInv => CrashNeedsFailure
  BY DEF ServerInv
<1>. QED BY <1>1, ServerInvariant, PTL

\* fifo_destroy() runs when main() is the last thread, whatever was cancelled
\* where and whatever could not be created.
THEOREM DestroyedAlone == Spec => []JoinedBeforeDestroy
<1>1. ServerInv => JoinedBeforeDestroy
  <2>. SUFFICES ASSUME ServerInv, pc \in {"destroy", "done"} PROVE alive = {Main}
    BY DEF JoinedBeforeDestroy
  <2>1. \A p \in Pools : Extent(p) = 0
    BY DEF ServerInv, PhaseInv, Extent
  <2>2. Reach = {Main, Checker}
    BY <2>1, SlotsGrow DEF Reach, Pools
  <2>. QED BY <2>2 DEF ServerInv, AliveInv, PhaseInv
<1>. QED BY <1>1, ServerInvariant, PTL

\* No message is in the hands of two threads of the server, or of one and in the
\* queue, also when threads die in fifo_get() with the mutex.
THEOREM ServerOwnsOnce == Spec => []SingleOwner
<1>1. ServerInv => SingleOwner
  BY OwnedOnce DEF ServerInv
<1>. QED BY <1>1, ServerInvariant, PTL

-----------------------------------------------------------------------------
(* While the server serves, its pools only grow.                           *)

\* A pool is idle at fewer messages per thread than it grows at: 10 against 100
\* and 10 against 50 (server.h:25-28).
ThresholdsApart == \A p \in Pools : MinMessages(p) < DesiredMessages(p)

\* An unsigned int can count the blocks of the heap.
LengthFits == Cardinality(Messages) < UintRange

\* The queue was at least as long when a pool grew, and is at most one message
\* shorter since: main() finds no pool idle that it ever made larger.
GrowthInv ==
  ~Finishing =>
    /\ OpenInv
    /\ pc \notin {"cancel", "join"}
    /\ fifoSize <= Arrived
    /\ \A p \in Pools : Backed(p, current[p], Arrived)
    /\ (pc = "size" /\ Outside(Main)) \/ pc \in Resizing =>
         \A p \in Pools : Backed(p, current[p], fifoSize + 1)
    /\ pc = "create" => Backed(pool, threadsCount, fifoSize)

ServingInvariant == MutualExclusion /\ GrowthInv

LEMMA ServingInit == Init => ServingInvariant
<1>. SUFFICES ASSUME Init PROVE ServingInvariant
  OBVIOUS
<1>1. MutualExclusion
  BY FifoAssumption DEF Init, FifoInit, MutualExclusion, InBody, FifoAssumption
<1>2. OpenInv
  <2>1. Accepted = {}
    BY DEF Init, FifoInit, Accepted
  <2>. QED BY <2>1, FS_EmptySet DEF Init, FifoInit, OpenInv
<1>3. \A p \in Pools : current[p] <= MinThreads(p) /\ current[p] \in Nat /\ MinThreads(p) \in Nat
  BY PoolSizes DEF Init
<1>4. fifoSize = 0 /\ Arrived = 0 /\ pc = "test"
  BY DEF Init, FifoInit, Arrived
<1>. QED BY <1>1, <1>2, <1>3, <1>4 DEF ServingInvariant, GrowthInv, Backed, Resizing

\* Nobody is cancelled, so nobody dies in pthread_cond_wait().
LEMMA NobodyCancelled ==
  ASSUME ServerInv, GrowthInv, ~Finishing
  PROVE  cancelled \cap alive = {}
<1>1. Kept = Reach
  BY DEF GrowthInv, Kept, Reach, Staying
<1>. QED BY <1>1 DEF ServerInv, AliveInv

\* More blocks accepted, or not counted any more by a client that forgot them, and
\* nothing else that OpenInv is about.
LEMMA OpenStays ==
  ASSUME QueueInv, QueueInv', OpenInv, UNCHANGED <<head, foot, size>>, Accepted \subseteq Accepted'
  PROVE  OpenInv' /\ Arrived' = Arrived
<1>1. IsFiniteSet(Accepted') /\ Cardinality(Accepted) <= Cardinality(Accepted')
  <2>1. Accepted' \subseteq Messages /\ IsFiniteSet(Messages)
    BY FifoAssumption DEF FifoAssumption, Accepted, QueueInv, TypeOK
  <2>2. IsFiniteSet(Accepted')
    BY <2>1, FS_Subset
  <2>. QED BY <2>2, FS_Subset
<1>2. Cardinality(Accepted) \in Nat /\ Cardinality(Accepted') \in Nat /\ size \in Nat
  BY <1>1, AcceptedFinite, FS_CardinalityType DEF QueueInv, TypeOK
<1>. QED BY <1>1, <1>2 DEF OpenInv, Arrived

\* What main() found when it asked, if it has.
Asked == pc = "size" /\ Outside(Main)

\* A step of another thread, or of main() in fifo.c.
LEMMA ThreadsGrow ==
  ASSUME LengthFits, ServerInv, ServingInvariant, NEW t \in Threads, ThreadStep(t), ~Finishing'
  PROVE  /\ OpenInv'
         /\ Arrived \in Nat /\ Arrived' \in Nat /\ Arrived <= Arrived'
         /\ fifoSize' \in Nat /\ fifoSize' <= Arrived'
         /\ \/ fifoSize' = fifoSize /\ (Asked' => Asked)
            \/ pc = "size" /\ Arrived' <= fifoSize' + 1
<1>. USE DEF ServerInv, ServingInvariant, GrowthInv
<1>1. /\ ~Finishing /\ pc' = pc
      /\ QueueInv'
  BY ThreadsLeaveMain, ThreadsKeepQueue
<1>2. size \in Nat /\ fifoSize \in Nat /\ Main \in Threads
  BY SlotsKnown DEF QueueInv, TypeOK, MainTypeOK
<1>3. CASE InFifo(t)
  <2>1. FifoStep(t) /\ fifoSize' = IF t = Main /\ SizeBody(t) THEN size ELSE fifoSize
    BY <1>3 DEF InFifo
  <2>2. stage[t] \notin {"out", "asleep"}
    BY <2>1, FifoStepMoves
  <2>3. call[t] # "destroy"
    BY <1>1, <2>2 DEF CallInv, PhaseInv
  <2>4. /\ OpenInv'
        /\ Arrived \in Nat /\ Arrived' \in Nat
        /\ Arrived <= Arrived'
        /\ size' <= Arrived' /\ Arrived' <= size' + 1
    BY <1>1, <2>1, <2>3, OpenStep DEF LengthFits, Finishing
  <2>5. CASE t = Main /\ SizeBody(t)
    <3>1. size' = size /\ pc = "size"
      BY <2>2, <2>5 DEF SizeBody, Running, CallInv, queueVars
    <3>. QED BY <1>2, <2>1, <2>4, <2>5, <3>1
  <2>6. CASE t = Main /\ ~SizeBody(t)
    <3>1. Asked' => stage'[Main] = "out" /\ call[Main] = "size"
      BY <1>1, <2>2, <2>6 DEF Asked, Outside, CallInv
    <3>2. call[Main] = "size" => stage[Main] \in {"lock", "body"}
      BY <1>2, <2>2, <2>6 DEF QueueInv, StageInv, TypeOK, Stages
    <3>3. call[Main] = "size" => Lock(Main)
      BY <2>1, <2>6, <3>2 DEF FifoStep, PutRefused, PutFirst, PutBehind, PutSignal, GetWait, GetTake,
         GetNothing, CloseBody, CloseBroadcast, DrainWait, DrainDone, DestroyBody, Accept, Running
    <3>4. ~Asked'
      BY <1>2, <3>1, <3>3 DEF Lock, QueueInv, TypeOK
    <3>. QED BY <1>1, <1>2, <2>1, <2>4, <2>6, <3>4
  <2>7. CASE t # Main
    <3>1. stage'[Main] = "out" => stage[Main] = "out"
      BY <1>2, <2>1, <2>7, FifoStepMoves
    <3>. QED BY <1>1, <1>2, <2>1, <2>4, <2>7, <3>1 DEF Asked, Outside
  <2>. QED BY <2>5, <2>6, <2>7
<1>4. CASE ~InFifo(t)
  <2>1. ~DieInWait(t)
    BY <1>1, NobodyCancelled DEF DieInWait
  <2>2. UNCHANGED <<head, foot, size, fifoSize>> /\ Accepted \subseteq Accepted'
    <3>1. CASE PutReceived(t) \/ GetNext(t)
      BY <3>1 DEF PutReceived, GetNext, Calls, Accepted, Holders, queueVars, serverVars, mainVars
    <3>2. CASE Handle(t)
      BY <3>2, FifoAssumption DEF FifoAssumption, Handle, Accepted, Holders, QueueInv, TypeOK, OwnerInv,
         queueVars, serverVars, mainVars
    <3>3. CASE ExitWorker(t) \/ DieOutside(t) \/ Spurious(t)
      BY <3>3 DEF ExitWorker, DieOutside, Spurious, SpuriousWakeup, Accepted, Holders, fifoVars,
         queueVars, threadVars, serverVars, mainVars
    <3>4. CASE Receive(t)
      <4>1. PICK m \in Messages \ live : /\ message' = [message EXCEPT ![t] = m]
                                         /\ live' = live \cup {m}
        BY <3>4 DEF Receive
      <4>2. UNCHANGED <<head, foot, size, fifoSize>>
        BY <3>4 DEF Receive, queueVars, serverVars, mainVars
      <4>. QED BY <4>1, <4>2 DEF Accepted, Holders, QueueInv, TypeOK
    <3>. QED BY <1>4, <2>1, <3>1, <3>2, <3>3, <3>4 DEF ThreadStep
  <2>3. OpenInv' /\ Arrived' = Arrived /\ Arrived \in Nat
    BY <1>1, <1>2, <2>2, OpenStays DEF Arrived
  <2>4. stage'[Main] = "out" => stage[Main] = "out"
    BY <1>2, <1>4, <2>1 DEF ThreadStep, PutReceived, GetNext, Handle, ExitWorker, DieOutside,
       Receive, Spurious, SpuriousWakeup, Calls, fifoVars, threadVars, QueueInv, TypeOK
  <2>. QED BY <1>1, <1>2, <2>2, <2>3, <2>4 DEF Asked, Outside
<1>. QED BY <1>3, <1>4

LEMMA ThreadsKeepServing ==
  ASSUME LengthFits, ServerInv, ServingInvariant, NEW t \in Threads, ThreadStep(t)
  PROVE  ServingInvariant'
<1>. USE ThreadsLeaveMain, PoolSizes DEF ServerInv
<1>1. MutualExclusion'
  <2>1. CASE InFifo(t)
    BY <2>1, FifoStepMutex DEF InFifo, ServingInvariant
  <2>2. CASE DieInWait(t)
    <3>1. Finishing /\ Finishing'
      BY <2>2, NobodyCancelled DEF DieInWait, ServingInvariant
    <3>2. QueueInv'
      BY ThreadsKeepQueue
    <3>. QED BY <3>1, <3>2 DEF MutualExclusion, QueueInv, Exclusive, Finishing
  <2>3. CASE ~InFifo(t) /\ ~DieInWait(t)
    BY <2>3 DEF ThreadStep, PutReceived, GetNext, Handle, ExitWorker, DieOutside, Receive,
       Spurious, SpuriousWakeup, Calls, ServingInvariant, MutualExclusion, Outside, InBody,
       QueueInv, TypeOK, fifoVars, queueVars, threadVars
  <2>. QED BY <2>1, <2>2, <2>3
<1>2. GrowthInv'
  <2>. SUFFICES ASSUME ~Finishing' PROVE GrowthInv'
    BY DEF GrowthInv
  <2>1. /\ OpenInv'
        /\ Arrived \in Nat /\ Arrived' \in Nat /\ Arrived <= Arrived'
        /\ fifoSize' \in Nat /\ fifoSize' <= Arrived'
        /\ \/ fifoSize' = fifoSize /\ (Asked' => Asked)
           \/ pc = "size" /\ Arrived' <= fifoSize' + 1
    BY ThreadsGrow
  <2>2. \A q \in Pools : current[q] \in Nat /\ Backed(q, current[q], Arrived)
    BY DEF ServingInvariant, GrowthInv, MainTypeOK
  <2>3. \A q \in Pools : Backed(q, current[q], Arrived')
    BY <2>1, <2>2, BackedLonger
  <2>4. CASE fifoSize' = fifoSize /\ (Asked' => Asked)
    BY <2>1, <2>3, <2>4 DEF ServingInvariant, GrowthInv, Asked, Backed
  <2>5. CASE pc = "size" /\ Arrived' <= fifoSize' + 1
    <3>1. \A q \in Pools : Backed(q, current[q], fifoSize' + 1)
      <4>1. fifoSize' + 1 \in Nat
        <5>1. \A n \in Nat : n + 1 \in Nat
          OBVIOUS
        <5>. QED BY <2>1, <5>1
      <4>2. Arrived' \in Nat
        BY <2>1
      <4>3. Arrived' <= fifoSize' + 1
        BY <2>5
      <4>. QED BY <2>2, <2>3, <4>1, <4>2, <4>3, BackedLonger
    <3>. QED BY <2>1, <2>3, <2>5, <3>1 DEF ServingInvariant, GrowthInv, Asked, Backed, Resizing
  <2>. QED BY <2>1, <2>4, <2>5
<1>. QED BY <1>1, <1>2 DEF ServingInvariant

\* What set...Threads() is called with while the server serves.
LEMMA NoPoolShrinks ==
  ASSUME ThresholdsApart, ServerInv, GrowthInv, NEW p \in Pools, ~Finishing,
         pc = "resized" \/ Asked, \A q \in Pools : current[q] >= MinThreads(q)
  PROVE  LET n == Balanced(p, fifoSize, current[p])
         IN  /\ n \in MinThreads(p) .. MaxThreads(p)
             /\ n >= current[p]
             /\ n # current[p] => DesiredMessages(p) * n <= fifoSize
<1>1. /\ fifoSize \in Nat
      /\ current[p] \in MinThreads(p) .. MaxThreads(p)
      /\ MinMessages(p) < DesiredMessages(p)
      /\ Backed(p, current[p], fifoSize + 1)
  BY PoolSizes DEF ServerInv, MainTypeOK, ThresholdsApart, GrowthInv, Asked, Resizing
<1>. QED BY <1>1, NeverShrinks, BalancedBounds

\* balanceThreads() calls set...Threads().
LEMMA ResizesGrow ==
  ASSUME ThresholdsApart, ServerInv, GrowthInv, Resizes, ~Finishing
  PROVE  \E p \in Pools :
           LET n == Balanced(p, fifoSize, current[p])
           IN  /\ Resize(p, n)
               /\ n \in Nat /\ n >= current[p]
               /\ n # current[p] => DesiredMessages(p) * n <= fifoSize
               /\ pc = "resized" \/ Asked
               /\ p = "receivers" => pc = "size"
               /\ p = "workers" => pc = "resized" /\ pool = "receivers"
               /\ \A q \in Pools : current[q] >= MinThreads(q)
<1>1. \A q \in Pools : current[q] >= MinThreads(q)
  BY ResizesArgument
<1>2. BalanceReceivers \/ BalanceWorkers
  BY DEF Resizes, StopReceivers, StopWorkers, ServerInv, PhaseInv, CallInv, Outside
<1>3. PICK p \in Pools : /\ Resize(p, Balanced(p, fifoSize, current[p]))
                         /\ pc = "resized" \/ Asked
                         /\ p = "receivers" => pc = "size"
                         /\ p = "workers" => pc = "resized" /\ pool = "receivers"
  BY <1>2 DEF BalanceReceivers, BalanceWorkers, Pools, Asked
<1>. DEFINE n == Balanced(p, fifoSize, current[p])
<1>4. /\ n \in MinThreads(p) .. MaxThreads(p)
      /\ n >= current[p]
      /\ n # current[p] => DesiredMessages(p) * n <= fifoSize
  BY <1>1, <1>3, NoPoolShrinks
<1>5. n \in Nat
  BY <1>4, PoolSizes
<1>. QED BY <1>1, <1>3, <1>4, <1>5

LEMMA MainKeepsServing ==
  ASSUME ThresholdsApart, ServerInv, ServingInvariant, ~crashed, MainStep
  PROVE  ServingInvariant'
<1>. USE PoolSizes DEF ServerInv
<1>1. ServerInv' /\ (Moves \/ Loops \/ Resizes)
  BY MovesKeep, LoopsKeep, ResizesKeep DEF MainStep, Moves, Loops, Resizes
<1>2. UNCHANGED <<queueVars, mutex>>
  BY <1>1 DEF Moves, LoopAgain, LoopExit, SleepPeriod, WaitEmpty, StopChecker, DestroyQueue, Exit,
     DivideByZero, Loops, CancelNext, CancelledAll, JoinNext, CreateNext, CreateFails, SetDone,
     Resizes, BalanceReceivers, BalanceWorkers, StopReceivers, StopWorkers, Resize, Calls, fifoVars
<1>3. \A t \in Threads : InBody(t)' = InBody(t)
  BY <1>1 DEF Moves, LoopAgain, LoopExit, SleepPeriod, WaitEmpty, StopChecker, DestroyQueue, Exit,
     DivideByZero, Loops, CancelNext, CancelledAll, JoinNext, CreateNext, CreateFails, SetDone,
     Resizes, BalanceReceivers, BalanceWorkers, StopReceivers, StopWorkers, Resize, Calls, InBody,
     Outside, fifoVars, threadVars, QueueInv, TypeOK
<1>4. MutualExclusion'
  BY <1>2, <1>3 DEF ServingInvariant, MutualExclusion, QueueInv, TypeOK, queueVars
<1>5. GrowthInv'
  <2>. SUFFICES ASSUME ~Finishing' PROVE GrowthInv'
    BY DEF GrowthInv
  <2>1. ~Finishing /\ UNCHANGED <<head, foot, size, preparedForDestruction>>
    BY <1>2 DEF Finishing, queueVars
  <2>2. Accepted \subseteq Accepted'
    <3>1. CASE CreateNext
      <4>1. live' = live /\ \A u \in Threads : message'[u] \in {message[u], NULL}
        BY <3>1, NextIsDead DEF CreateNext, QueueInv, TypeOK
      <4>. QED BY <4>1, FifoAssumption DEF FifoAssumption, Accepted, Holders, QueueInv, TypeOK
    <3>2. CASE ~CreateNext
      BY <1>1, <3>2 DEF Moves, LoopAgain, LoopExit, SleepPeriod, WaitEmpty, StopChecker, DestroyQueue, Exit,
         DivideByZero, Loops, CancelNext, CancelledAll, JoinNext, CreateFails, SetDone,
         Resizes, BalanceReceivers, BalanceWorkers, StopReceivers, StopWorkers, Resize, Calls,
         Accepted, Holders, fifoVars, threadVars
    <3>. QED BY <3>1, <3>2
  <2>3. OpenInv' /\ Arrived' = Arrived
    BY <1>1, <2>1, <2>2, OpenStays DEF ServingInvariant, GrowthInv
  <2>4. fifoSize \in Nat /\ Arrived \in Nat /\ \A q \in Pools : current[q] \in Nat
    BY DEF MainTypeOK, QueueInv, TypeOK, Arrived
  <2>5. /\ pc \notin {"cancel", "join"} /\ fifoSize <= Arrived
        /\ \A q \in Pools : Backed(q, current[q], Arrived)
        /\ Asked \/ pc \in Resizing => \A q \in Pools : Backed(q, current[q], fifoSize + 1)
        /\ pc = "create" => Backed(pool, threadsCount, fifoSize)
    BY <2>1 DEF ServingInvariant, GrowthInv, Asked
  <2>6. CASE Moves
    <3>1. /\ UNCHANGED <<fifoSize, current>>
          /\ pc' \notin Resizing
          /\ Asked' => Asked
      BY <2>1, <2>6, SlotsKnown DEF Moves, LoopAgain, LoopExit, SleepPeriod, WaitEmpty, StopChecker, DestroyQueue, Exit,
         DivideByZero, Calls, Goto, Resizing, PhaseInv, Asked, Outside, fifoVars, threadVars, QueueInv, TypeOK
    <3>. QED BY <2>3, <2>5, <3>1 DEF GrowthInv, Asked, Resizing
  <2>7. CASE SetDone
    <3>1. /\ pc = "create" /\ i = threadsCount /\ pc' = "resized"
          /\ current' = [current EXCEPT ![pool] = threadsCount] /\ fifoSize' = fifoSize
      BY <2>5, <2>7 DEF SetDone, Goto
    <3>2. pool \in Pools /\ threadsCount \in Nat /\ current \in [Pools -> Nat]
      BY DEF MainTypeOK
    <3>3. Backed(pool, threadsCount, Arrived) /\ Backed(pool, threadsCount, fifoSize + 1)
      BY <2>4, <2>5, <3>1, <3>2, BackedLonger
    <3>4. \A q \in Pools : Backed(q, current'[q], Arrived) /\ Backed(q, current'[q], fifoSize + 1)
      BY <2>5, <3>1, <3>2, <3>3 DEF Resizing
    <3>. QED BY <2>3, <2>5, <3>1, <3>4 DEF GrowthInv
  <2>8. CASE Loops /\ ~SetDone
    <3>1. UNCHANGED <<pc, fifoSize, pool, threadsCount, current>> /\ pc = "create"
      BY <2>5, <2>8 DEF Loops, CancelNext, CancelledAll, JoinNext, CreateNext, CreateFails
    <3>. QED BY <2>3, <2>5, <3>1 DEF GrowthInv, Resizing
  <2>9. CASE Resizes
    <3>1. PICK p \in Pools :
            LET n == Balanced(p, fifoSize, current[p])
            IN  /\ Resize(p, n)
                /\ n \in Nat /\ n >= current[p]
                /\ n # current[p] => DesiredMessages(p) * n <= fifoSize
                /\ pc = "resized" \/ Asked
      BY <2>1, <2>9, ResizesGrow DEF ServingInvariant
    <3>. DEFINE n == Balanced(p, fifoSize, current[p])
    <3>2. /\ UNCHANGED <<fifoSize, current>> /\ pool' = p /\ threadsCount' = n
          /\ pc' = IF n = current[p] THEN "resized" ELSE IF n < current[p] THEN "cancel" ELSE "create"
      BY <3>1 DEF Resize, Goto
    <3>3. n \in Nat /\ n >= current[p] /\ (n # current[p] => Backed(p, n, fifoSize))
          /\ (pc = "resized" \/ Asked)
      BY <3>1 DEF Backed
    <3>. HIDE DEF n
    <3>4. pc' = "resized" \/ (pc' = "create" /\ n # current[p])
      BY <2>4, <3>2, <3>3
    <3>. QED BY <2>3, <2>5, <3>2, <3>3, <3>4 DEF GrowthInv, Resizing
  <2>. QED BY <1>1, <2>6, <2>7, <2>8, <2>9
<1>. QED BY <1>4, <1>5 DEF ServingInvariant

LEMMA Serving ==
  ASSUME ThresholdsApart, LengthFits
  PROVE  Spec => []ServingInvariant
<1>1. ServerInv /\ ServingInvariant /\ [Next]_vars => ServingInvariant'
  <2>. SUFFICES ASSUME ServerInv, ServingInvariant, [Next]_vars PROVE ServingInvariant'
    OBVIOUS
  <2>1. CASE UNCHANGED vars \/ signalHandler
    BY <2>1 DEF ServingInvariant, MutualExclusion, GrowthInv, OpenInv, Arrived, Accepted, Holders,
       Finishing, Outside, InBody, signalHandler, vars, serverVars, mainVars, fifoVars, queueVars,
       threadVars
  <2>2. CASE ~crashed /\ MainStep
    BY <2>2, MainKeepsServing
  <2>3. ASSUME NEW t \in Threads, Proceeds(t) \/ DieInWait(t) \/ Receive(t) \/ Spurious(t)
        PROVE  ServingInvariant'
    BY <2>3, ThreadsKeepServing DEF Proceeds, ThreadStep
  <2>. QED BY <2>1, <2>2, <2>3 DEF Next
<1>. QED BY <1>1, ServingInit, ServerInvariant, PTL DEF Spec

\* For any number of CPUs and any thresholds that are apart, as those of server.h
\* are, main() never joins a thread before the shutdown: no pool shrinks, whatever
\* the comment at server.c:310-312 says of a queue with too few messages.
THEOREM PoolsOnlyGrow ==
  ASSUME ThresholdsApart, LengthFits
  PROVE  Spec => ServingPoolsGrow
<1>1. ServingInvariant =>
        [\A p \in Pools : pc # "join" \/ Finishing \/ current'[p] >= current[p]]_vars
  BY DEF ServingInvariant, GrowthInv
<1>. QED BY <1>1, Serving, PTL DEF ServingPoolsGrow

\* So nobody dies in pthread_cond_wait() while the server serves, and the mutex is
\* always held by a thread that is alive and is going to unlock it.
THEOREM MutexNeverLeaksServing ==
  ASSUME ThresholdsApart, LengthFits
  PROVE  Spec => []ServingNeverLeaks
<1>1. ServerInv /\ ServingInvariant => ServingNeverLeaks
  BY DEF ServerInv, QueueInv, TypeOK, ServingInvariant, MutualExclusion, CallInv, Outside, InBody,
         Finishing, ServingNeverLeaks
<1>. QED BY <1>1, Serving, ServerInvariant, PTL

-----------------------------------------------------------------------------
(* There are always fewer receivers than workers.                          *)

\* A worker is asked for by at most half as many messages: 50 against 100.
WorkersAtHalf == 2 * desiredMessagesPerWorkerThread <= desiredMessagesPerReceiverThread

\* Between the two calls of set...Threads() the receivers may be as many as the
\* workers, if the length that main() found asks for them.
FewerInv ==
  /\ FewerReceivers
  /\ ~Finishing /\ pc \in Resizing =>
       /\ pool = "receivers" => \/ threadsCount < current["workers"]
                                \/ desiredMessagesPerReceiverThread * threadsCount <= fifoSize
       /\ pool = "workers" => current["receivers"] < threadsCount

LEMMA FewerInit == ~SysconfMayFail /\ Init => FewerInv
BY DEF Init, FewerInv, FewerReceivers, Pools, MinThreads, Resizing

LEMMA ThreadsKeepFewer ==
  ASSUME LengthFits, ServerInv, ServingInvariant, FewerInv, NEW t \in Threads, ThreadStep(t)
  PROVE  FewerInv'
<1>1. UNCHANGED <<pc, pool, threadsCount, current>> /\ (Finishing => Finishing')
  BY ThreadsLeaveMain
<1>2. ~Finishing' /\ pc \in Resizing => fifoSize' = fifoSize
  BY ThreadsGrow DEF Resizing
<1>. QED BY <1>1, <1>2 DEF FewerInv, FewerReceivers

\* balanceThreads() with the length it found.
LEMMA BalanceKeepsFewer ==
  ASSUME ThresholdsApart, WorkersAtHalf, ServerInv, GrowthInv, FewerInv, Resizes, ~Finishing
  PROVE  FewerInv'
<1>. USE DEF ServerInv
<1>1. PICK p \in Pools :
        LET n == Balanced(p, fifoSize, current[p])
        IN  /\ Resize(p, n)
            /\ n \in Nat /\ n >= current[p]
            /\ n # current[p] => DesiredMessages(p) * n <= fifoSize
            /\ p = "receivers" => pc = "size"
            /\ p = "workers" => pc = "resized" /\ pool = "receivers"
            /\ \A q \in Pools : current[q] >= MinThreads(q)
  BY ResizesGrow
<1>. DEFINE n == Balanced(p, fifoSize, current[p])
<1>2. /\ UNCHANGED <<fifoSize, current>> /\ pool' = p /\ threadsCount' = n /\ pc' \in Resizing
  BY <1>1 DEF Resize, Goto, Resizing
<1>3. CASE p = "receivers"
  <2>1. n = current["receivers"] \/ desiredMessagesPerReceiverThread * n <= fifoSize
    BY <1>1, <1>3 DEF DesiredMessages
  <2>2. current["receivers"] < current["workers"]
    BY <1>1, <1>3 DEF FewerInv, FewerReceivers
  <2>. HIDE DEF n
  <2>. QED BY <1>2, <1>3, <2>1, <2>2 DEF FewerInv, FewerReceivers, Resizing
<1>4. CASE p = "workers"
  <2>. DEFINE r == current["receivers"]
  <2>1. /\ r < current["workers"] \/ desiredMessagesPerReceiverThread * r <= fifoSize
        /\ "receivers" \in Pools /\ "workers" \in Pools
    BY <1>1, <1>4 DEF FewerInv, Resizing, LoopInv, Pools
  <2>2. /\ r \in 1 .. MaxThreads("receivers") /\ fifoSize \in Nat
        /\ current["workers"] \in MinThreads("workers") .. MaxThreads("workers")
        /\ MinThreads("workers") \in Nat
    BY <1>1, <2>1, PoolSizes DEF MainTypeOK, MinThreads
  <2>3. n \in Nat /\ current["workers"] \in Nat /\ n >= current["workers"]
    BY <1>1, <1>4, <2>2
  <2>4. CASE desiredMessagesPerReceiverThread * r <= fifoSize
    <3>1. r < n
      BY <1>4, <2>2, <2>3, <2>4, MoreWorkers DEF WorkersAtHalf
    <3>. QED BY <1>2, <1>4, <3>1 DEF FewerInv, FewerReceivers, Resizing
  <2>5. CASE r < current["workers"]
    <3>1. r < n
      BY <2>2, <2>3, <2>5
    <3>. QED BY <1>2, <1>4, <3>1 DEF FewerInv, FewerReceivers, Resizing
  <2>. QED BY <2>1, <2>4, <2>5
<1>. QED BY <1>3, <1>4 DEF Pools

LEMMA MainKeepsFewer ==
  ASSUME ThresholdsApart, WorkersAtHalf, ServerInv, ServingInvariant, FewerInv, ~crashed, MainStep
  PROVE  FewerInv'
<1>. USE DEF ServerInv
<1>1. ServerInv' /\ (Moves \/ Loops \/ Resizes)
  BY MovesKeep, LoopsKeep, ResizesKeep DEF MainStep, Moves, Loops, Resizes
<1>2. CASE Moves
  BY <1>2 DEF Moves, LoopAgain, LoopExit, SleepPeriod, WaitEmpty, StopChecker, DestroyQueue, Exit,
     DivideByZero, Goto, Calls, FewerInv, FewerReceivers, LoopInv, PhaseInv, Resizing, Finishing,
     queueVars
<1>3. CASE Loops
  <2>1. UNCHANGED <<fifoSize, pool, threadsCount>> /\ Finishing' = Finishing
        /\ pc \in Resizing /\ pc' \in Resizing
    BY <1>3 DEF Loops, CancelNext, CancelledAll, JoinNext, CreateNext, CreateFails, SetDone, Goto,
       Resizing, Finishing, fifoVars, queueVars
  <2>2. current' = current \/ current' = [current EXCEPT ![pool] = threadsCount]
    BY <1>3 DEF Loops, CancelNext, CancelledAll, JoinNext, CreateNext, CreateFails, SetDone
  <2>3. pool \in Pools /\ current \in [Pools -> Nat]
    BY DEF MainTypeOK
  <2>. QED BY <2>1, <2>2, <2>3 DEF FewerInv, FewerReceivers, Resizing, Pools
<1>4. CASE Resizes
  <2>1. CASE Finishing
    <3>1. Finishing' /\ pc' \in Resizing
      BY <1>4, <2>1 DEF Resizes, BalanceReceivers, BalanceWorkers, StopReceivers, StopWorkers,
         Resize, Goto, Resizing, Finishing, fifoVars, queueVars
    <3>. QED BY <3>1 DEF FewerInv, FewerReceivers, Resizing
  <2>. QED BY <1>4, <2>1, BalanceKeepsFewer DEF ServingInvariant
<1>. QED BY <1>1, <1>2, <1>3, <1>4

\* docs/UDF.txt:79-80 holds for any number of CPUs and any thresholds of which a
\* worker's are at most half a receiver's, if the CPUs can be counted.
THEOREM FewerReceiversAlways ==
  ASSUME ThresholdsApart, WorkersAtHalf, LengthFits, ~SysconfMayFail
  PROVE  Spec => []FewerReceivers
<1>1. Init => FewerInv
  BY FewerInit
<1>2. ServerInv /\ ServingInvariant /\ FewerInv /\ [Next]_vars => FewerInv'
  <2>. SUFFICES ASSUME ServerInv, ServingInvariant, FewerInv, [Next]_vars PROVE FewerInv'
    OBVIOUS
  <2>1. CASE UNCHANGED vars \/ signalHandler
    BY <2>1 DEF FewerInv, FewerReceivers, Finishing, signalHandler, vars, serverVars, mainVars,
       fifoVars, queueVars
  <2>2. CASE ~crashed /\ MainStep
    BY <2>2, MainKeepsFewer
  <2>3. ASSUME NEW t \in Threads, Proceeds(t) \/ DieInWait(t) \/ Receive(t) \/ Spurious(t)
        PROVE  FewerInv'
    BY <2>3, ThreadsKeepFewer DEF Proceeds, ThreadStep
  <2>. QED BY <2>1, <2>2, <2>3 DEF Next
<1>3. FewerInv => FewerReceivers
  BY DEF FewerInv
<1>. QED BY <1>1, <1>2, <1>3, Serving, ServerInvariant, PTL DEF Spec
=============================================================================
