# A TLA+ verification of the ePanimondas message server

The repository is a small instant-messaging system in C: a UDP server that queues the packets it
receives and lets a pool of threads handle them, and an ncurses client. This directory holds TLA+
modules translated from the source, the TLC configurations that check them on small instances, and
proofs for all instances checked by TLAPS.

## The system

| Part | Source | State | Operations |
|---|---|---|---|
| Message queue | `fifo.c`, `fifo.h` | a singly linked list (`head`, `foot`), `size`, `preparedForDestruction`, a mutex and one condition variable | `fifo_put`, `fifo_get`, `fifo_size`, `fifo_prepare_destroy`, `fifo_wait_empty_on_destruction`, `fifo_destroy` |
| Server process | `server.c`, `server.h` | `ok`, the two arrays of threads and their counts, the socket | `main`, the three thread bodies, `set...Threads`, `finalizeThreads`, the signal handler |
| Thread balancing | `server.c:309-350` | the two counts and the four thresholds | `balanceThreads` |
| Message handlers | `message_type.c` | none of their own | `messageType0` to `messageType9` |
| User directory | `data.c`, `data.h` | the list `users`, each user's contact list, `list_message`, files | register, login, logoff, contact list, addresses, load and save |
| Message transport | `message.c`, `message.h` | none; the socket | `buildBuffer`, `buildMessage`, `sendMessage`, `receiveMessage`, `sendAcknowledgeMessage` |
| Client commands | `sendmsg.c` | socket and server address | one function per type of message |
| Client interface | `client.c`, `client.h` | `status`, `myID`, the menu of users, windows | key handling, one command at a time |
| Checksum | `crc16.c`, `crc16.h` | a table | two versions of the CRC |

How they interact. A *receiver* thread takes a packet from the socket (`receiveMessage`), and puts
it in the queue. A *worker* gets it, runs the handler of its type, which reads and changes the
directory and may answer (`sendAcknowledgeMessage`) or forward (`sendMessage`), and frees it. The
*checker* walks the directory once a minute. `main` changes the number of receivers and workers
every ten seconds, from the length of the queue, and finishes when a signal has cleared `ok`. All
threads share the queue (under its mutex), the socket and the directory (under no lock). The client
is one thread that reads keys; a key starts a command, which sends one message (`sendMessage`) and
blocks until it is acknowledged or five seconds have passed.

What is hard:

* queue: interleavings of put, get and close on one mutex and one condition variable; a signal sent
  after the unlock; an early return that skips the unlock; ownership of a block that is allocated by
  one thread and freed by another;
* server: deferred cancellation inside `pthread_cond_wait`; the order of the shutdown; counts that
  must match the threads alive; a pool resized while its threads work;
* balancing: integer divisions and two thresholds that could overshoot or oscillate;
* start-up: threads that could not be created but are counted, cancelled and joined;
* transport: lost, duplicated, late and foreign acknowledges, a timeout, two readers of one socket;
  arguments written at one offset and read at another;
* client: answers read from the wrong bytes, fields that are never set, results nobody looks at;
* directory: concurrent changes without a lock, linked lists whose head is removed or never set.

What makes each part correct: a message is delivered once, to one thread, in order, and none is
forgotten; nobody sleeps for ever; the shutdown ends and frees nothing still in use; the pools stay
within their limits and settle; a sender learns the truth about its message; a registered user can
log in. `PROJECT.json` lists the hazards at the lines where they bite, with the properties for them.

## The modules

| Module | What it is |
|---|---|
| `Fifo` | `fifo.c`: state, one action per critical section (or part of one that ends in a wait or a signal), state properties |
| `FifoClients` | `Fifo` under its most general clients; fairness; the refinement mapping to `MessageQueue` |
| `MessageQueue` | the abstract lossy queue |
| `FifoLemmas` | what `Fifo` preserves in any program that uses it as `Server` and `FifoClients` do |
| `FifoProofs` | the theorems about `FifoClients` |
| `Balance` | the arithmetic of `balanceThreads` |
| `ThreadBalance` | the two counts under any queue |
| `BalanceLemmas` | the limits that `Balanced` keeps |
| `ThreadBalanceProofs` | the theorems about `ThreadBalance` |
| `Server` | `server.c` over `Fifo` and `Balance` |
| `ServerProofs` | its theorems |
| `Exchange` | `sendMessage` and `receiveMessage` of `message.c` over a bad network |
| `Wire` | what `message.c` makes of the bytes of a message |
| `Crc16` | `crc16.c`, and remainders of polynomials as its reference |
| `Packets` | one message through `Wire`, and its checksum |
| `PacketsProofs` | its theorems, and what it takes for induction |
| `Client` | `client.c` and `sendmsg.c` over `Exchange` and `Wire` |
| `ClientProofs` | the theorems about `Exchange` and about `Client` |
| `Directory` | `data.c`: users and contact lists, pointer by pointer |
| `Handlers` | `message_type.c` and the checker thread over `Directory` |
| `HandlersProofs` | the theorems about `Handlers` |
| `MCFifo`, `MCThreadBalance`, `MCServer`, `MCExchange`, `MCClient`, `MCPackets`, `MCHandlers` | instances for TLC |

### Fifo and FifoClients

A thread in a function of `fifo.c` waits for the mutex (`stage` = `lock`), owns it (`body`), sleeps
on `empty` (`asleep`, `woken`) or still has to signal (`signal`). What is between a lock and the
next unlock or wait touches only what the mutex protects, so it is one action; everything else
interleaves. `next[m]` is the `next` field of block `m`; it is `Wild` from `malloc()` until
`fifo_put()` writes it, and `live` are the blocks not yet freed. The pthread functions are external
and modelled from POSIX: a default mutex that its owner cannot lock twice, a wait that may return
spuriously, a signal that wakes one sleeper if there is one.

Three things in the code that the model keeps exactly: the second branch of `fifo_put` links
nothing; `fifo_get` does not reset `foot` when it takes the last block; and the `return -1` of
`fifo_put` keeps the mutex. Together the first two mean that the queue delivers one message in its
life, and that every later one is counted by `size` and lost.

A client may do anything it could do legally: allocate and free blocks, put a block it holds, get
when it holds none, close, ask for the size, wait for emptiness, and destroy the queue when nobody
else is inside; nobody calls after that. `EarlyDrain` says whether a client may wait for emptiness
before the close. The server never does, and if one did it could consume the only signal of a put:
`NoLostWakeup` is therefore stated without such clients (both by the run and by the theorem), and
all other safety properties with them.

`MessageQueue` keeps the sequence of waiting messages, whether it is closed, and what each client
holds. Its `Put` may lose the message, as the code does. `FifoClients!Abstract` maps the linked list
to that sequence.

### ThreadBalance

`Balanced(p, size, current)` is the new size of pool `p`; `balanceThreads` applies it to both pools
from one reading of the queue. The environment sets the length of the queue to anything, until it
freezes. The thresholds are those of `server.h`.

### Server

`Main` goes through `main()`, `balanceThreads()`, `set...Threads()` (one code for both pools) and
`finalizeServer()`; `pc`, `pool`, `threadsCount` and `i` are its program counter and locals.
Receivers and workers run the loops of `goReceiverThreads` and `goWorkerThreads`, with the actions
of `Fifo` for what happens inside the queue. A signal may come at any moment. A cancelled thread
dies at a cancellation point: outside `fifo.c` without consequence, inside `pthread_cond_wait` with
the mutex locked, as there is no cleanup handler.

A handler is one action that takes its time: as `user_register()` never links a user, `users` is
NULL for ever, so that `get_user_address()` and `user_login()` find nobody, acknowledges are not
sent, `sendto()` to a null address fails before anything is awaited, and neither a handler nor the
checker calls `fifo_put()`. `Handlers` is where this is checked, and `OnlySavedAddresses` where it is
proved (`Quiet`): it holds for a server that starts with an empty directory, as the shipped one does.

Failures at the start. `sysconf()` may give no number of CPUs (`SysconfMayFail`): `initializeThreads()`
returns without threads, `initializeServer()` goes on, and `balanceThreads()` divides by zero unless a
signal comes first. `pthread_create()` may fail for the threads in `Fallible`, at the start or when a
pool grows: its error is a positive number and is compared with -1, so the thread is counted though it
is not there. `missing` are these threads; to cancel or join one is undefined (`UsesHandle`), which is
a choice between a crash and nothing, as the `pthread_t` may be a leftover or zero.

Left out: packets whose handler ends the process by an invalid memory access (types 2 and 9), a
`calloc` that fails, the printing in `checkLoad`, and the socket's creation and closing.

### Exchange

One process and its socket: senders in `sendMessage` (`stage` = `out`, `select`, `receive`) and, in
the server, receiver threads that read the same socket. `inbox` is the kernel's buffer, and `Arrive`
is the network and the peer at once: the acknowledge of any request already sent may come, any
number of times, in any order, late or never, as may an ordinary message and the report of an error
that makes one `recvfrom` fail. `re` says which request an acknowledge really answers; the code
cannot see it. `from` of an acknowledge is arbitrary, as no handler sets it. Between `select` and
`recvfrom` another thread can take the datagram, and a client's `select` can be interrupted; both
leave the thread in a `recvfrom` without time-out (`Robbed`).

What is not the acknowledge goes to `fifo_put`, and the loop goes on. The client has no queue and
passes NULL, for which `fifo_put` returns -1 at once (`fifo.c:89-91`): the message is neither shown
nor freed (`discarded`). The test for the acknowledge compares `from` and `messageId` and no type, so
an ordinary message with these two numbers ends a send as well; `answer` is then `Ordinary`. In the
shipped server no send gets that far, as no user has an address; the server with senders is what
`message.c` is written for, and is modelled as such.

### Wire, Crc16 and Packets

A packet is the header, which is copied as it is and therefore a record, and the bytes after it.
`buildBuffer` writes the arguments at `messageHeaderSize() + 1` and past the end of its block,
`buildMessage` reads them at `messageHeaderSize()`: what arrives is a byte that was never written
(`junk`) and the arguments without their last byte. `receiveMessage` then appends to types 1 and 2
what it takes for the sender's address, the bytes of a pointer. `FirstInt` is the `memcpy` of an int
out of arguments that may be shorter.

In `Crc16` a word is the set of the positions of its ones, so that exclusive or is the symmetric
difference and the code's shifts are maps over sets. Its reference shares nothing with the code: the
remainder of a polynomial, a sum of powers of x modulo the generator. `get_crc16` passes its `size` as
an `unsigned short`, whose range is `UshortRange`. The loops of the two versions are recursive functions
(`ShiftByte`, `ShiftData`), so that they can be proved about. The result is compared by nobody, as the test in
`buildMessage` is commented out, and `buildBuffer` sums its block before anything is written to it.

### Client

`pc` is the key loop of `client.c` (`keys`), a loop inside F4, F5 or F7 (`choose`, `view`, `browse`),
or the command that is being sent. A request of `Exchange` is one call of a function of `sendmsg.c`;
`To` and `Id` are what the function sets, or what the stack held where it sets nothing (types 3 to 8
never set `messageId`). A command ends with the message that `Exchange` says, which may be a stale
acknowledge or an ordinary message (`Others`), and what a login or a registration reads from it goes
through `Wire` (`Answers`). `reply` remembers what the message really held.

What the code does and the model keeps: `new_user()` sends a login after a registration, does not look
at what it returns and goes on line without creating the menu of users, so that F4 and F7 later pass
NULL to `atoi()` (`NoItem`); F7 removes a contact for every key but Enter; F6 asks for the list after
a new contact was acknowledged; and F9 sends the log-off whether on line or not. Undefined
behaviour that ends some builds only (freeing an array on the stack once a request is acknowledged,
copying from an uninitialised or integer pointer, `strcat` to an uninitialised block, printing `myID`
as a string) is a choice between a crash and nothing (`Undefined`).

### Directory and Handlers

The heap is `user` (the nodes), `cell` (the contacts) and `allocated`. A thread in a function of
`data.c` has its arguments and local pointers in `at[t]`, and one step is what it does to one node.
Nothing is locked, so all steps interleave. `malloc` returns a freed block or a new one; a freed
block keeps its fields except for the first word (`Garbage`), so that a dangling pointer is read as
the C library leaves it. There are two starts, an empty directory and a loaded one. `load_users()`
reads all records into one block and links it to itself, so that a file of any length leaves a ring
of one user; `load_user_list` does the same from the second contact on. The records are those of
`save_user()`, which writes each structure as it is: the address of the loaded user is the pointer of
the process that saved it (`Wild`), unless it was NULL, and the saved `next` of a record in the middle
is followed, which may crash the process before it serves (`running` at the start). `get_user_address`
returns that pointer, and `user_logoff` and `set_user_address` free it; whether the process survives
that is a choice (`Survives`). A node from `malloc` has only `next` and `list` set, the rest is what the
block held (`EmptyUser`). The shipped server has the first start only, as `loadData()` is empty.

A handler is the sequence of what it does (`messageTypes`), most of it calls of `data.c`, and the
checker is `Wake` and `Visit`. Where a `sendMessage` is acknowledged, it frees arguments that the caller
frees again (type 3) or never set (the checker), which is a choice between a crash and nothing; its wait
is the subject of `Exchange`. The model follows the code where it surprises: a message of type 3 is
sent back to its sender, one of type 4 is looked up by `to` and is never acknowledged,
`messageType2` gives the 1 returned by `user_register()` to `set_user_address()` as an identifier,
a `;` after an `if` makes `get_list_buffer` visit every user, and removing a first contact leaves
the list pointing to the freed cell. What an answer contains is left out, and what the user answers
to the checker's question is any answer.

`loaded`, `contacts` and `spoiled` are history: which start it was, the contacts each user should
have, and that a first contact was removed or two changes overlapped, after which no promise about
lists is made. `Handlers` does not contain the queue: `Server` has it, with handlers in one step.

## What the runs show

| Run | Instance | Shows |
|---|---|---|
| `fifo_safety` | 3 threads, 3 messages, 8 values of `unsigned int`, symmetric | types, mutual exclusion, single ownership, the close wakes everybody, `size` counts what was accepted, and the refinement of `MessageQueue` |
| `fifo_wakeups` | 3 threads, 1 message, 2 values of `unsigned int`, fair | no wake-up is lost, a waiting message meets a waiting getter, everybody leaves a closed queue unless the mutex was leaked |
| `fifo_orphan` | as `fifo_safety` | **violated**: the second message put is in nobody's hands and not in the queue |
| `balance_any_queue` | 3 CPUs, lengths on both sides of every threshold | limits, slow shrinking, no flapping |
| `server_pools` | 2 CPUs, up to 2 receivers and 3 of at most 4 workers, 6 messages, small thresholds, symmetric, until the shutdown begins; one worker may not be created | counts match the threads alive, fewer receivers than workers, pools never shrink and the mutex is not leaked before the shutdown |
| `server_shutdown` | 1 CPU, 1 receiver, 2 workers, 2 messages, fair; the receiver may not be created, and `sysconf` may fail | a signal ends the process unless the mutex was leaked; the queue is destroyed last; nothing but a missing thread takes the process down |
| `server_exit` | same without failures, 1 message | **violated**: the shutdown hangs on the leaked mutex |
| `exchange` | a client, or a server with 2 senders and a receiver; 3 requests, two of the same identifier, 2 ordinary messages, one of them like an acknowledge, 4 datagrams, fair | only a datagram with its addressee and identifier ends a send; no datagram is used twice, the server loses none and the client those it has no queue for; every send returns unless it was robbed of its datagram |
| `client` | two logins and one request of each other type, 2 ordinary messages, one of them like an answer, 2 datagrams, fair | who is on line stays the same user; an answer of 1 never logs in; only stale answers of the same identifier and ordinary messages that look like one are mistaken; the client uses the socket as `Exchange` says; every command returns unless it is stuck in `recvfrom` |
| `client_online` | one login and one registration | **violated**: on line without a confirmation |
| `packets` | all messages of up to 4 bytes out of 5 values | arguments survive only if their bytes are all equal; both checksums are remainders; a changed byte is detected where it is looked at |
| `handlers` | 2 workers, or a worker and the checker; 2 user nodes, 3 contact cells, 3 messages, fair | types, sound contact lists, nothing sent but to the pointer from the file, crashes only where they are known, a loaded directory is kept, the workers come back |

The bounds. Three threads are a putter, a getter and a third that closes or competes; three messages
are one delivered and two that are lost; the wrapped `size` is reached with 8 values, as it falls
with every get on a closed queue. Liveness needs no second message, because only the first one is
ever signalled. In `server_pools` the thresholds are scaled down, and kept apart as the real ones are,
so that six messages make the receivers grow to their limit of two and the workers to three, and both
pools are idle whenever the queue is shorter than they are; a worker is asked for by at most two thirds
of the messages of a receiver. One worker more than the receivers suffices for the shutdown, where a
worker in the wait and a worker outside behave differently. TLC's deadlock check is off where the
system may really stop: the clients need not call anything, and the mutex can be leaked.

In `server_pools` a worker may fail to be created when its pool grows. Its constraint `Serving` ends
each behaviour where the queue is closed, as all its properties are about what comes before; the shutdown is the subject of `server_shutdown`, where the
receiver, or every thread, may be missing from the start (the code that stops the workers is the
same).

In `exchange` four datagrams are enough for a duplicate of an earlier acknowledge, a foreign message,
an error and the right one within one send, and a buffer of two for one to be dropped. Two requests have
the identifier 0, as a login and a registration have, and the third the identifier of one of the ordinary
messages, so that both ways of being mistaken occur. The bound matters for `SendReturns`: the code does not check the clock once its five seconds are over while
`select` finds something to read, so a steady stream of other datagrams would keep a send waiting for
ever; the property is about arrivals that end. In `handlers` three messages let two changes of one
list meet and a third one look at the result; three cells are one loaded and two added or one freed
and used again; one node is the loaded user and the other what `user_register` allocates. `Teams` keeps
it to two threads at a time, as what can go wrong in a list takes two. `Starts` leaves out loaded
directories that differ from another one only in what no thread of the team reads (the status of a user
for two workers, a contact in no list), and has an address in the file only with one contact, as no
function looks at both but `user_logoff`, which reads them one after the other.
Types 0 and 7 are not in the instance: the first is a part of type 3 and the second does nothing.

In `client` two arrivals are the late answer of one command and the next one's own. Three commands
share the identifier 0 with each other and two the identifier 1, so that every confusion of types that
matters is there: a login for a registration, a new contact for a login, the list for a removal. One of
the two ordinary messages has the numbers of a login, the other those of nothing.
Answers are empty, 0 and 1, and a byte that was never written is 0 or 1, enough to make a refused login
a success and a confirmed one a failure. In `packets` the sizes of a login and a registration are
scaled from 10 and 76 to 2 and 3, and the range of an unsigned short from 65536 to 4, so that blocks
of four bytes reach both; the bytes are the ends of the range and some of the test driver's, chosen so
that blocks of four use every entry of the table. Besides, TLC evaluates `EntriesRight`, which compares
all 256 entries with the reference and depends on no constant.

Fairness. `FifoClients` and `Server` assume weak fairness of each thread's own steps (the scheduler
runs what can run) and strong fairness of obtaining the mutex (a thread that finds it free again and
again gets it in the end). Nothing makes a client call, a packet or a signal arrive, or a spurious
wake-up happen. `Exchange` assumes weak fairness of each sender (not of the receivers or the
network), `Client` of the client (of no key and no datagram), and `Handlers` of each worker that runs. `ThreadBalance` assumes that `main()` keeps calling `balanceThreads()`.

## What disagrees with the code

The three violated runs are findings, quoted in `PROJECT.json`: messages are lost by `fifo_put`, the
shutdown may hang, and a client goes on line unconfirmed. Others were met on the way:

* `finalizeThreads` does not "Wait till the message's queue is empty" (`server.c:227`):
  `fifo_wait_empty_on_destruction` returns at once after the close, and the workers are cancelled with
  messages still queued;
* "If the received message was the sent's one acknowledge" (`message.c:121`) is not what line 122 tests:
  an acknowledge that comes after the time-out ends the next command of the same identifier, with the
  answer of the one before, and so does an ordinary message whose `from` and `messageId` happen to match,
  as no type is compared. `EndedByLike`, and `EndedByOwnOrPast` in the client, are all that holds;
* "If not, puts into the queue (if there's one...)" (`message.c:129`): there is none in the client, so a
  message that the server forwards while a command waits is lost (`discarded` in `AllAccounted`);
* "decrease if too few" (`server.c:310-312`), "ambos os tipos de threads têm sua quantidade reduzida" when
  the queue is empty (`docs/UDF.txt:83-84`) and the load test that saw the number of threads fall
  (`docs/UDF.txt:325-327`): while the server serves no pool ever shrinks (`ServingPoolsGrow`). The queue
  that `balanceThreads` measures never gets shorter by more than one message, because those that
  `fifo_put` does not link stay counted in `size`;
* every message is to be confirmed (`docs/UDF.txt:56`): a server that starts with an empty directory
  never sends anything (`Quiet`), as it finds no address;
* "the program doesn't segmentation fault anymore on invalid packages" (`Changelog:26-27`): every message
  of type 2 writes through an uninitialised pointer (`message_type.c:76`), which ends some builds, and
  every one of type 9 that is handled to its end makes `buildBuffer` copy from NULL (`CrashesKnown`);
* `user_register()` links the user it allocates nowhere and returns 1 for everybody, so that a user
  just registered is unknown to every later login (`data.c:161-175`);
* arguments sent arrive shifted by a byte, a password as well as an answer (`message.c:39`), so a
  login that was answered with 1 is never taken for a success (`OneIsRefused`);
* a checksum of the header is computed before there is one (`message.c:37`) and never compared;
* the client sends to port 3456 (`client.h:35`), the server listens on 3457;
* `server.h:62` wants receivers and workers in the ratio 0.5, while 150 waiting messages on three
  CPUs give 1 receiver and 3 workers;
* `docs/UDF.txt:80-84` says that a long queue reduces the receivers, while `balanceThreads` adds some;
* `docs/UDF.txt:56-59` promises three tries of a send, while `sendMessage` makes one;
* in a ring, a worker that looks for another user never comes back, and neither does the checker
  once it has found its only user on line and acknowledging.

## What is proved

`FifoProofs`, for any set of threads and any finite set of messages. `TypeCorrect`,
`MutexProtects` and `OneOwner` follow from the inductive invariant `Inv`, which adds three things
that the properties alone do not say: which function a thread can be in at each stage and with what
in its hands (`StageInv`); that the list never has more than one block, because `foot` stays set
until the queue is closed (`ListInv`), which is also why `head` is never an uninitialised pointer;
and that held blocks are allocated, distinct and not at the head (`OwnerInv`). `WakesAll` and
`WakeupsKept` are inductive next to `Inv`; the second needs that only getters sleep
(`GettersSleep`), hence its assumption `~EarlyDrain`. `SizeIsCount` is an induction on the
cardinality of the accepted blocks, and assumes that an `unsigned int` can count the blocks.
`Implements` maps every step to a step of `MessageQueue` or a stutter: under `Inv` the abstract
sequence is empty or `<<head>>`.

The parts of `Inv` that are about the queue alone are lemmas of `FifoLemmas`, which `ServerProofs` uses
as well. `OpenStep` there says how far the length of an open queue can fall: by one message in all, as
only the first block put is ever taken.

`ThreadBalanceProofs`, for any number of CPUs, any thresholds with min <= desired, and any queue:
the pools stay within their limits (`LimitsKept`) and shrink slowly (`SlowShrinking`). The core is
`EnoughForAll` of `BalanceLemmas`: if each of c threads has more than d messages, d messages each
employ at least c.

`ServerProofs`, for any number of CPUs, any thresholds, any messages and any threads whose creation
may fail. The first five theorems follow from `ServerInv`, which relates the program counter of `main` with
its loop index and the sets of threads. `LoopInv` says where the index is in each loop, `PhaseInv`
which pools have been stopped at each place of the shutdown, `ServingInv` that no pool is empty before
it unless `sysconf` failed, and `CallInv` in which function of `fifo.c` each kind of thread can be.
`AliveInv` encloses the set of living threads: it lies within the slots that `main` still counts
(`Reach`) and, while the server serves, holds all that nobody is stopping (`Kept`) but the missing
ones. Where `main` tests or balances, the two bounds coincide, which is `PoolsStayAlive`; with all
pools empty and the checker gone nothing but `main` is within `Reach`, which is `DestroyedAlone`.
`CrashesNeedFailures` rests on `ServingInv` and the lemmas of `BalanceLemmas`: a balanced pool never
falls below its minimum. `ServerOwnsOnce` is the `QueueInv` of `FifoLemmas` under the server's own
steps, a thread that dies with a block or overwrites a refused one included.

Three more theorems are about the server while it serves, and each names what it needs. `PoolsOnlyGrow`
and `MutexNeverLeaksServing` rest on one invariant, `ServingInvariant`: a pool of n threads was made when
n times the desired number of messages were waiting, the queue has lost at most one of them since
(`GrowthInv`), and so no pool is idle when `main` looks again (`NeverShrinks` of `BalanceLemmas`). Then no
worker is cancelled before the shutdown, none dies in `pthread_cond_wait`, and the mutex is never leaked.
They assume that min is less than desired for both pools (`ThresholdsApart`; 10 < 100 and 10 < 50 in
`server.h`) and that an `unsigned int` counts the messages ever allocated (`LengthFits`). Neither can be
dropped: with equal thresholds one message taken makes a pool idle that has just grown, and `size`, which
counts the lost messages too, would wrap to a short queue in the end. `FewerReceiversAlways` assumes that
a receiver takes twice the messages of a worker (`WorkersAtHalf`; 100 and 50, where 51 and 50 would not
be enough) and that `sysconf` gives a number of CPUs: if it does not, both pools are empty, and 0 is not
less than 0.

`ClientProofs`, first part: `Exchange`, for any threads, requests and network. `TypeCorrect` says among
other things that a result is never returned for a request a thread does not have. `Accounted` is an
induction on the cardinality of the acknowledged requests; its invariant says that a thread in
`sendMessage` is the only one with its request and that this request is still undecided.
`LookalikesOnly` assumes nothing about identifiers: every datagram in the socket is an acknowledge of a
request that was sent, with its identifier, or one of the ordinary messages (`InboxInv`), and the test of
`message.c:122` lets only those through whose two numbers are the request's.

`ClientProofs`, second part: `Client`, for any requests, identifiers, user IDs, answers, junk and network.
`Implements` maps every step to a step of `Exchange` or a stutter: a command never sends while another
waits, which is the part of `ClientInv` about `pc` and `stage`. From it the type correctness proved of
`Exchange` carries over, and `ClientTypeCorrect` adds the lemma that an int read from an answer is four
bytes. `IdentityIsKept` is an action property of each key's guard, and needs the invariant only for the
places in between, where a command started off line is still running. `OneRefused` is the arithmetic of
`Wire` for any junk. `OwnOrPastOnly` sharpens `LookalikesOnly` for a process that sends one request at a
time: a request whose acknowledge is taken for another's had returned before.

`HandlersProofs`, for any workers, users, contacts, messages and teams. `TypeCorrect` needs
`PointerInv`, which says which local pointers are not NULL at each step of a walk: it shows that no
step of `data.c` follows NULL, however the threads interleave. `NeverUnloaded` follows from `RingInv`:
in a loaded directory the first user is its own next one and every walking thread points to it, so
that no walk ends and the assignment at the end of the walk of `user_register()` is never reached.
`OnlySavedAddresses` needs an invariant about what is left of each handler (`Chained`: a `sendto` follows
the `get_user_address` whose result it uses, and a `set_user_address` follows a `user_register`), that
an empty directory stays empty (`EmptyInv`), and that a loaded user without an address never gets one
and one with an address never loses it (`Addressless`): in an empty directory `set_user_address` finds
nobody, and in a loaded one the `user_register` before it never returns from the ring.

`ListsAreKept` is the shape of the linked list, for any number of cells. Only a user read from the files
is ever found, so only he has contacts (`OwnerInv`). Until his list is spoiled, its cells are allocated
and distinct and each is linked to the next one of the history `contacts`, the last one to NULL (`Chain`);
every thread that changes it stands in it, or holds a cell that is not in it (`PlaceInv`); and one thread
at most does (`OneChange`), as a second one spoils the list. `OnlyKnownCrashes` is an action
property and needs what is left of each handler (`SafeDeeds`): only types 2 and 9 ever get to an access
that can fail, `data.c` frees a cell twice only in a spoiled list, and what else is freed, or sent to and
then freed twice, needs the pointer that came out of the file.

`PacketsProofs`, for messages and blocks of any length. The library's induction theorems cannot be used by
the provers installed, but a set of numbers has a least element (`LeastNumber`, from the well-foundedness
of < in `WellFoundedInduction`), and with that a set that holds 0 and, with each number, the next one,
holds all (`AllReached`). It also shows that the functions defined by recursion exist (`Iterates`).
`ShiftedByOne`: if the arguments arrive as they were sent, each byte is the one before it (`Arrives`), so
all are the first. `OneByteDetected`: the step of the register can be undone, as its bit 15 tells whether
the generator was added (`BitBack`); so registers that differ stay different under equal bytes, and equal
ones become different under different bytes (`ByteBack`, `BitsOfByte`), to the end (`EndBack`).
`RemainderOfEveryBlock`: the remainder of a sum is the sum of the remainders (`RestXor`, from the parity
of a symmetric difference), multiplying by x and reducing commute (`RestTimes`), and the register,
mirrored, makes the same step (`MirrorBit`), so that after m bits it is the remainder of the first m bits
(`ShiftDataIsRemainder`). `TableRemainderOfEveryBlock` is the same a byte at a time (`TableStep`), from
the hypothesis `EntriesRight` about the 256 literals of `crc16.h`, which TLC decides.

Only model-checked: all liveness (`Delivery`, `ClosedReleases`, `Settles`, `ExitsUnlessLeaked`,
`SendReturns`, `CommandReturns`, `Handled`), which is out of the prover's reach, as is ENABLED, and
`EntriesRight`. The other properties of the passing runs are theorems.

## Not modelled

* Memory that runs short (`malloc`, `calloc`, `realloc` returning NULL), and errors of `socket` and
  `bind`: the code prints a message or does not look, and no state depends on it.
* `checkLoad`, `loadData`, `saveData`, `goSniffer`: they print, or are empty. `save_user`, `sendMsgType0`
  and `sendMsgType7`: called by nobody.
* The drawing of windows and menus with ncurses, and what is typed, but for the user ID.
* Names, passwords and the format of the user files, but for what the reading makes of the list.
* The order of the keys inside a menu: which user is chosen is of no consequence.

## Plan

Done: every component that has state, and a theorem for every safety property that a run checks. Next:

1. An abstract specification of the exchange (a request, its own answer or none) for `Exchange` with
   distinct requests to implement.
2. The safety half of what liveness needs: that a thread that is not asleep can move, where `ENABLED`
   can be replaced by the guards it stands for.
3. `Server` with handlers that take several steps, if a server that answers is to be checked before
   `user_register()` is repaired.
