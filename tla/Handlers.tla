------------------------------ MODULE Handlers ------------------------------
(***************************************************************************)
(* message_type.c and the checker thread of server.c over data.c: what a   *)
(* worker does with each type of message, and what the checker does once a *)
(* minute.                                                                 *)
(*                                                                         *)
(* A handler is the sequence of what it does, most of it calls of data.c.  *)
(* Of a message only what its handler uses is kept: the user it is about   *)
(* (its field `to' for type 4, `from' for the others), and a contact or,   *)
(* for type 1, whether the password is right.                              *)
(***************************************************************************)
EXTENDS Directory

CONSTANTS
  Workers, Checker,
  Types,          \* the types of message that arrive
  Teams,          \* bound: which threads run together
  MaxMessages     \* bound: how many messages arrive

ASSUME HandlersAssumption ==
  /\ Threads = Workers \cup {Checker}
  /\ Checker \notin Workers
  /\ Types \subseteq 0 .. 9
  /\ Teams \subseteq SUBSET Threads
  /\ MaxMessages \in Nat

VARIABLES
  team,       \* the threads that run
  received,   \* how many messages were taken from the queue
  message,    \* the message each worker handles
  todo,       \* what it still has to do about it
  current,    \* the checker's pointer to a user
  answered    \* something was sent to the address of a user

vars == <<dirVars, team, received, message, todo, current, answered>>

NoMessage == [type |-> -1, id |-> 0, other |-> 0]
Incoming  == {m \in [type : Types, id : Ids, other : Ids \cup {0, 1}] :
                m.type \notin {1, 4, 5} => m.other = 0}

Init ==
  /\ DirectoryInit
  /\ team \in Teams
  /\ received = 0
  /\ message = [w \in Workers |-> NoMessage]
  /\ todo = [w \in Workers |-> <<>>]
  /\ current = NULL
  /\ answered = FALSE

-----------------------------------------------------------------------------
(* The handlers.                                                           *)

\* sendAcknowledgeMessage(): nothing is sent to a user without an address.
Acknowledge == <<"get_user_address", "sendto">>

messageTypes == <<
  Acknowledge,                                  \* messageType0()
  <<"user_login", "if">> \o Acknowledge,
  <<"user_register", "set_user_address", "store">> \o Acknowledge,
  Acknowledge \o <<"get_user_address", "sendMessage">>,   \* messageType3(): back to its sender
  <<"add_user_list">>,
  <<"remove_user_list", "if">> \o Acknowledge,
  <<"get_list">> \o Acknowledge,
  <<>>,
  <<"user_logoff">> \o Acknowledge,
  <<"get_list_buffer", "get_user_address", "buildBuffer">> >>   \* messageType9()

\* Fault: the cases 6 and 9 of the switch are exchanged.
Handler_Exchanged(type) ==
  messageTypes[1 + CASE type = 6 -> 9 [] type = 9 -> 6 [] OTHER -> type]

\* The switch in goWorkerThreads().
Handler(type) == messageTypes[1 + type]

Busy(w) == message[w] # NoMessage

\* malloc() does not fail: this bound keeps back the messages that would need
\* more blocks than the model has.
Room(w, type) ==
  LET handled(k) == Cardinality({u \in Workers : message[u].type = k})
  IN  /\ type = 4 => Cardinality(Cells \ allocated) > handled(4)
      /\ type = 2 => Cardinality(Nodes \ allocated) > handled(2)

GetMessage(w) ==
  /\ ~Busy(w)
  /\ received < MaxMessages
  /\ received' = received + 1
  /\ \E m \in Incoming :
       /\ Room(w, m.type)
       /\ message' = [message EXCEPT ![w] = m]
       /\ todo' = [todo EXCEPT ![w] = Handler(m.type)]
  /\ UNCHANGED <<dirVars, current, answered>>

Doing(w, what) == Outside(w) /\ todo[w] # <<>> /\ Head(todo[w]) \in what
Done(w)        == todo' = [todo EXCEPT ![w] = Tail(@)]

Functions == Searchers \cup {"user_register", "get_list_buffer"}

\* Fault: the acknowledge is addressed to the contact.
Argument_Contact(w) ==
  IF Head(todo[w]) = "set_user_address" THEN value[w]
  ELSE IF Head(todo[w]) = "get_user_address" THEN message[w].other ELSE message[w].id

\* messageType2() takes the 1 that user_register() returns for the identifier.
Argument(w) == IF Head(todo[w]) = "set_user_address" THEN value[w] ELSE message[w].id

CallFunction(w) ==
  /\ Doing(w, Functions)
  /\ Call(w, Head(todo[w]), Argument(w),
          IF Head(todo[w]) = "user_register" THEN 0 ELSE message[w].other)
  /\ Done(w)
  /\ UNCHANGED <<message, current, answered, received>>

\* if ( ack == 1 ).
IfOne(w) ==
  /\ Doing(w, {"if"})
  /\ todo' = [todo EXCEPT ![w] = IF value[w] = 1 THEN Tail(@) ELSE <<>>]
  /\ UNCHANGED <<dirVars, message, current, answered, received>>

Sendto(w) ==
  /\ Doing(w, {"sendto"})
  /\ answered' = (answered \/ value[w] # NoAddress)
  /\ Done(w)
  /\ UNCHANGED <<dirVars, message, current, received>>

\* sendMessage() of messageType3(), without the wait that Exchange is about.  An
\* acknowledge makes it free the arguments that freeMessage() frees again.
SendMessage(w) ==
  /\ Doing(w, {"sendMessage"})
  /\ answered' = (answered \/ value[w] # NoAddress)
  /\ running' \in IF value[w] = NoAddress THEN {TRUE} ELSE BOOLEAN
  /\ Done(w)
  /\ UNCHANGED <<heap, at, value, stacked, history, message, current, received>>

\* messageType2() writes through an uninitialised pointer; messageType9() has
\* buildBuffer() copy eight bytes from NULL.
Access(w) ==
  /\ Doing(w, {"store", "buildBuffer"})
  /\ running' \in IF Head(todo[w]) = "store" THEN BOOLEAN ELSE {FALSE}
  /\ Done(w)
  /\ UNCHANGED <<heap, at, value, stacked, history, message, current, answered, received>>

\* The handler returns, its locals are gone and the message is freed.
Finish(w) ==
  /\ Busy(w)
  /\ Outside(w)
  /\ todo[w] = <<>>
  /\ message' = [message EXCEPT ![w] = NoMessage]
  /\ value' = [value EXCEPT ![w] = 0]
  /\ UNCHANGED <<heap, at, running, stacked, history, todo, current, answered, received>>

InDirectory(t) ==
  /\ DirectoryStep(t)
  /\ UNCHANGED <<message, todo, current, answered, received>>

HandlerStep(w) == CallFunction(w) \/ IfOne(w) \/ Sendto(w) \/ SendMessage(w) \/ Access(w) \/ Finish(w)

-----------------------------------------------------------------------------
(* goCheckerThread().                                                      *)

\* After its sleep it starts again with the first user.
Wake ==
  /\ Outside(Checker)
  /\ current = NULL
  /\ current' = users
  /\ UNCHANGED <<dirVars, message, todo, answered, received>>

\* A user who is on line and has no address, or does not acknowledge, is logged
\* off.  An acknowledge makes sendMessage() free the arguments of nullMessage,
\* which nothing has set.  Nothing changes current->next, which is read here
\* before the calls.
Visit ==
  /\ Outside(Checker)
  /\ current # NULL
  /\ current' = user[current].next
  /\ LET u == user[current] online == u.status # 0 reached == online /\ u.address # NoAddress IN
       /\ answered' = (answered \/ reached)
       /\ \/ ~online /\ UNCHANGED dirVars
          \/ online /\ Call(Checker, "user_logoff", u.id, 0)
          \/ /\ reached   \* and acknowledged
             /\ running' \in BOOLEAN
             /\ UNCHANGED <<heap, at, value, stacked, history>>
  /\ UNCHANGED <<message, todo, received>>

Next ==
  /\ running
  /\ \/ \E t \in team : InDirectory(t)
     \/ \E w \in team \cap Workers : GetMessage(w) \/ HandlerStep(w)
     \/ Checker \in team /\ (Wake \/ Visit)
  /\ UNCHANGED team

Spec == Init /\ [][Next]_vars

\* The scheduler runs every worker; no message has to come.
FairSpec ==
  /\ Spec
  /\ \A w \in Workers : WF_vars(running /\ w \in team /\ (HandlerStep(w) \/ InDirectory(w)) /\ UNCHANGED team)

-----------------------------------------------------------------------------
(* Properties.                                                             *)

Steps == {"out", "find", "first", "walk", "append", "scan", "release", "search", "change"}

HandlersTypeOK ==
  /\ users \in Nodes \cup {NULL}
  /\ user \in [Nodes -> [id : Nat, status : {0, 1}, list : Cells \cup {NULL},
                         address : Addresses, next : Nodes \cup {NULL}]]
  /\ cell \in [Cells -> [id : Ids \cup {0, 1, Fresh, Garbage}, next : Cells \cup {NULL}]]
  /\ allocated \subseteq Nodes \cup Cells
  /\ value \in [Threads -> {-1, 0, 1} \cup Addresses]
  /\ at \in [Threads -> [fn : Functions \cup {"none"}, id : Int, other : Nat, step : Steps,
                         user : Nodes \cup {NULL}, aux : Cells \cup {NULL},
                         current : Cells \cup {NULL}]]
  /\ running \in BOOLEAN /\ stacked \in BOOLEAN /\ answered \in BOOLEAN
  /\ message \in [Workers -> Incoming \cup {NoMessage}]
  /\ current \in Nodes \cup {NULL}

\* A contact list is what the calls that returned have made of it: finite, made
\* of allocated cells, each contact once and in the order of the calls.  It is
\* promised only while no first contact was removed and no two changes overlapped.
ContactsKept ==
  ~spoiled => \A n \in Nodes :
    LET s == contacts[n] IN
      /\ user[n].list = IF s = <<>> THEN NULL ELSE s[1]
      /\ \A k \in 1 .. Len(s) :
           /\ s[k] \in allocated
           /\ cell[s[k]].next = IF k = Len(s) THEN NULL ELSE s[k + 1]

\* With an empty directory, which is all the server ever has, nobody is found, no
\* message is confirmed and no handler touches the queue.  With a loaded one,
\* nothing is sent but to the pointer that came out of the file: the server never
\* learns the address of a user.
Quiet ==
  /\ answered => loaded /\ user[users].address # NoAddress
  /\ ~loaded => users = NULL /\ ~stacked

\* A step crashes the process only while a message of type 2 or 9 is handled, by
\* a contact that two overlapping removals free twice, or with the pointer that
\* came out of the file.
KnownCrash ==
  ~running' => \/ \E w \in Workers : message[w].type \in {2, 9}
               \/ spoiled
               \/ loaded /\ user[users].address # NoAddress
CrashesKnown == [][KnownCrash]_vars

\* user_register() sets `users' to NULL after its walk.  It cannot throw away a
\* loaded directory, only because that walk never ends.
StaysLoaded == loaded => users = FirstNode

\* The worker comes back from every message while the directory is empty, and
\* from one about the loaded user, that it finds at once; the contact lists must
\* be sound and the process running.  A message of type 3 to an address waits in
\* sendMessage().
Answerable(w) ==
  /\ Busy(w)
  /\ loaded =>
       /\ message[w].id = LoadedId
       /\ \/ message[w].type \in {0, 4, 6, 7}
          \/ message[w].type = 1 /\ message[w].other = 1
          \/ message[w].type = 3 /\ user[users].address = NoAddress
Handled ==
  \A w \in Workers : Answerable(w) ~> (~Busy(w) \/ spoiled \/ ~running)
=============================================================================
