----------------------------- MODULE Directory -----------------------------
(***************************************************************************)
(* data.c: the list of users and their lists of contacts, walked pointer   *)
(* by pointer by threads that share them without a lock.                   *)
(*                                                                         *)
(* A thread in a function of data.c has its arguments and local pointers   *)
(* in `at'.  One step is what it does to one node of a list.  Names and    *)
(* passwords are left out, but for whether the password is the right one;  *)
(* list_message is NULL for ever, as nothing assigns it.                   *)
(***************************************************************************)
EXTENDS Integers, FiniteSets, SequencesExt

CONSTANTS
  Threads,
  Nodes, Cells,   \* the blocks malloc() may return for a user_t and for a list_t
  FirstNode, FirstCell,   \* those that the loading of the files fills
  Ids,            \* the identifiers of users
  LoadedId,       \* the one of the last record of the file
  UintRange,      \* the values of an unsigned int
  NULL

ASSUME DirectoryAssumption ==
  /\ FirstNode \in Nodes /\ FirstCell \in Cells
  /\ NULL \notin Nodes \cup Cells
  /\ Nodes \cap Cells = {}
  /\ UintRange \in Nat \ {0}
  /\ Ids \subseteq 0 .. UintRange - 1
  /\ LoadedId \in Ids

VARIABLES
  users,      \* the first node of the list
  user,       \* the fields of the nodes
  cell,       \* the fields of the contacts
  allocated,  \* the blocks malloc() returned that were not freed since
  at,         \* where each thread is
  value,      \* what its last call returned
  running,    \* the process has not crashed
  stacked,    \* user_logoff() has put its local variable in the queue
  loaded,     \* history: load_users() has filled the directory
  contacts,   \* history: the contacts each user should have, oldest first
  spoiled     \* history: a first contact was removed, or two changes overlapped

heap    == <<users, user, cell, allocated>>
history == <<loaded, contacts, spoiled>>
dirVars == <<heap, at, value, running, stacked, history>>

\* The values of `address', and what get_user_address() returns of it: NULL, a
\* block that messageType2() allocated, one that was freed, and whatever a file
\* or malloc() left there.
NoAddress == 0
Known     == 2
Dangling  == 3
Wild      == 4
Addresses == {NoAddress, Known, Dangling, Wild}

\* What free() leaves in the field, and whether the process survives it.
Free(a)     == IF a = NoAddress THEN a ELSE Dangling
Survives(a) == IF a \in {NoAddress, Known} THEN {TRUE} ELSE BOOLEAN

Fresh     == -2   \* a block that malloc() has not returned yet
Garbage   == -1   \* what free() leaves at the start of a block

\* alloc_memory_user() sets `next' and `list': the rest is what malloc() left.
EmptyUser(status, address) ==
  [id |-> 0, status |-> status, list |-> NULL, address |-> address, next |-> NULL]
Untouched == EmptyUser(0, NoAddress)   \* a block nobody has seen yet
EmptyCell == [id |-> Fresh, next |-> NULL]

Out == [fn |-> "none", id |-> 0, other |-> 0, step |-> "out",
        user |-> NULL, aux |-> NULL, current |-> NULL]

-----------------------------------------------------------------------------
(* What the threads find at start: nothing, or what load_users() makes of  *)
(* a file.  It reads all records into the same block, and load_user()      *)
(* links the block behind itself, so that the last record is left in a     *)
(* ring.  load_user_list() does the same from the second contact on.       *)
(* The records are those of save_user(), which writes every structure as   *)
(* it is, pointers included.                                               *)

\* Fault: a first user is not linked to itself.
load_user_Straight(n) == NULL

\* The field next of the node just read.
load_user(n) == n

\* The list made of a file with no, one or several (two) contacts, and the
\* field next of its only cell.
load_user_list(count) == IF count = 0 THEN NULL ELSE FirstCell
LoadedNext(count)     == IF count = 2 THEN FirstCell ELSE NULL

Empty ==
  /\ loaded = FALSE
  /\ users = NULL
  /\ user = [n \in Nodes |-> Untouched]
  /\ cell = [c \in Cells |-> EmptyCell]
  /\ allocated = {}
  /\ contacts = [n \in Nodes |-> <<>>]
  /\ spoiled = FALSE
  /\ running = TRUE

\* The address is the pointer that was saved.  So is `next' until load_user() sets
\* it, and it follows that of a record between the first and the last, which may
\* crash the process; that of the last one is NULL.
load_users ==
  /\ loaded = TRUE
  /\ users = FirstNode
  /\ \E count \in 0 .. 2, status \in {0, 1}, x \in Ids, address \in {NoAddress, Wild} :
       /\ user = [[n \in Nodes |-> Untouched] EXCEPT
                   ![FirstNode] = [id |-> LoadedId, status |-> status, list |-> load_user_list(count),
                                   address |-> address, next |-> load_user(FirstNode)]]
       /\ cell = [[c \in Cells |-> EmptyCell] EXCEPT
                   ![FirstCell] = [id |-> x, next |-> LoadedNext(count)]]
       /\ contacts = [n \in Nodes |-> IF n = FirstNode /\ count > 0 THEN <<FirstCell>> ELSE <<>>]
       /\ spoiled = (count = 2)
  /\ allocated = {FirstNode, FirstCell}
  /\ running \in BOOLEAN

DirectoryInit ==
  /\ Empty \/ load_users
  /\ at = [t \in Threads |-> Out]
  /\ value = [t \in Threads |-> 0]
  /\ stacked = FALSE

-----------------------------------------------------------------------------
(* The walk along the users that every function starts with.               *)

Outside(t) == at[t].fn = "none"

\* Thread t calls function f about user i; o is a contact, or 1 for the right
\* password.
Call(t, f, i, o) ==
  /\ Outside(t)
  /\ at' = [at EXCEPT ![t] = [fn |-> f, id |-> i, other |-> o, step |-> "find",
                              user |-> users, aux |-> NULL, current |-> NULL]]
  /\ UNCHANGED <<heap, value, running, stacked, history>>

Returns(t, v) ==
  /\ at' = [at EXCEPT ![t] = Out]
  /\ value' = [value EXCEPT ![t] = v]

Node(t) == user[at[t].user]

AtNode(t, f) == at[t].step = "find" /\ at[t].user # NULL /\ at[t].fn \in f
AtEnd(t, f)  == at[t].step = "find" /\ at[t].user = NULL /\ at[t].fn \in f

Changers   == {"add_user_list", "remove_user_list"}
Lookups    == {"user_login", "get_list", "get_user_address", "set_user_address"}
Searchers  == Changers \cup Lookups \cup {"user_logoff"}

Matches(t) ==
  /\ Node(t).id = at[t].id
  /\ at[t].fn = "user_login" => at[t].other = 1

NextUser(t) ==
  /\ AtNode(t, Searchers)
  /\ ~Matches(t)
  /\ at' = [at EXCEPT ![t].user = Node(t).next]
  /\ UNCHANGED <<heap, value, running, stacked, history>>

NotFound(t) ==
  /\ AtEnd(t, Searchers)
  /\ Returns(t, IF at[t].fn \in Changers \cup {"user_login", "user_logoff"} THEN -1 ELSE 0)
  /\ UNCHANGED <<heap, running, stacked, history>>

\* Fault: user_login() counts the logins.
Looked_Counts(u, f) ==
  CASE f = "user_login" -> [u EXCEPT !.status = @ + 1]
    [] f = "set_user_address" -> [u EXCEPT !.address = Known]
    [] OTHER -> u

\* What the lookups do to the node they find, and return of it.
Looked(u, f) ==
  CASE f = "user_login" -> [u EXCEPT !.status = 1]
    [] f = "set_user_address" -> [u EXCEPT !.address = Known]
    [] OTHER -> u

FoundLookup(t) ==
  /\ AtNode(t, Lookups)
  /\ Matches(t)
  /\ user' = [user EXCEPT ![at[t].user] = Looked(@, at[t].fn)]
  /\ running' \in IF at[t].fn = "set_user_address" THEN Survives(Node(t).address) ELSE {TRUE}
  /\ Returns(t, IF at[t].fn = "get_user_address" THEN Node(t).address ELSE 1)
  /\ UNCHANGED <<users, cell, allocated, stacked, history>>

-----------------------------------------------------------------------------
(* user_register().                                                        *)

CountUser(t) ==
  /\ AtNode(t, {"user_register"})
  /\ at' = [at EXCEPT ![t].user = Node(t).next, ![t].other = (@ + 1) % UintRange]
  /\ UNCHANGED <<heap, value, running, stacked, history>>

\* Fault: the new node is linked as the first one.
Register_Links(t) ==
  /\ AtEnd(t, {"user_register"})
  /\ \E n \in Nodes \ allocated, status \in {0, 1}, address \in {NoAddress, Wild} :
       /\ allocated' = allocated \cup {n}
       /\ users' = n
       /\ user' = [user EXCEPT ![n] = [EmptyUser(status, address) EXCEPT !.id = at[t].other]]
  /\ Returns(t, 1)
  /\ UNCHANGED <<cell, running, stacked, history>>

\* At the end of the walk `users' becomes what ended it, which is NULL, and the
\* new node is linked nowhere.
Register(t) ==
  /\ AtEnd(t, {"user_register"})
  /\ users' = NULL
  /\ \E n \in Nodes \ allocated, status \in {0, 1}, address \in {NoAddress, Wild} :
       /\ allocated' = allocated \cup {n}
       /\ user' = [user EXCEPT ![n] = [EmptyUser(status, address) EXCEPT !.id = at[t].other]]
  /\ Returns(t, 1)
  /\ UNCHANGED <<cell, running, stacked, history>>

-----------------------------------------------------------------------------
(* add_user_list() and remove_user_list().                                 *)

Changing(t) == at[t].step \in {"first", "walk", "append", "scan", "release"}
Overlaps(t) == \E u \in Threads \ {t} : Changing(u)

\* malloc() returns a freed block or a new one; which new one is all the same.
FreeCells ==
  LET fresh == {c \in Cells \ allocated : cell[c].id = Fresh}
  IN  {c \in Cells \ allocated : c \in fresh => c = CHOOSE d \in fresh : TRUE}

FoundAdd(t) ==
  /\ AtNode(t, {"add_user_list"})
  /\ Matches(t)
  /\ \E c \in FreeCells :
       /\ allocated' = allocated \cup {c}
       /\ cell' = [cell EXCEPT ![c] = [id |-> at[t].other, next |-> NULL]]
       /\ at' = [at EXCEPT ![t].step = IF Node(t).list = NULL THEN "first" ELSE "walk",
                           ![t].aux = Node(t).list, ![t].current = c]
  /\ spoiled' = (spoiled \/ Overlaps(t))
  /\ UNCHANGED <<users, user, value, running, stacked, loaded, contacts>>

Added(t) == contacts' = [contacts EXCEPT ![at[t].user] = Append(@, at[t].current)]

AddFirst(t) ==
  /\ at[t].step = "first"
  /\ user' = [user EXCEPT ![at[t].user].list = at[t].current]
  /\ Added(t)
  /\ Returns(t, 1)
  /\ UNCHANGED <<users, cell, allocated, running, stacked, loaded, spoiled>>

WalkContacts(t) ==
  /\ at[t].step = "walk"
  /\ at' = IF cell[at[t].aux].next # NULL THEN [at EXCEPT ![t].aux = cell[@].next]
                                         ELSE [at EXCEPT ![t].step = "append"]
  /\ UNCHANGED <<heap, value, running, stacked, history>>

AddLast(t) ==
  /\ at[t].step = "append"
  /\ cell' = [cell EXCEPT ![at[t].aux].next = at[t].current]
  /\ Added(t)
  /\ Returns(t, 1)
  /\ UNCHANGED <<users, user, allocated, running, stacked, loaded, spoiled>>

FoundRemove(t) ==
  /\ AtNode(t, {"remove_user_list"})
  /\ Matches(t)
  /\ at' = [at EXCEPT ![t].step = "scan", ![t].aux = Node(t).list, ![t].current = Node(t).list]
  /\ spoiled' = (spoiled \/ Overlaps(t))
  /\ UNCHANGED <<heap, value, running, stacked, loaded, contacts>>

\* No such contact: the walk goes on with the next user.
ScanEnd(t) ==
  /\ at[t].step = "scan"
  /\ at[t].aux = NULL
  /\ at' = [at EXCEPT ![t].step = "find", ![t].user = Node(t).next]
  /\ UNCHANGED <<heap, value, running, stacked, history>>

ScanContact(t) ==
  /\ at[t].step = "scan"
  /\ at[t].aux # NULL
  /\ cell[at[t].aux].id # at[t].other
  /\ at' = [at EXCEPT ![t].current = at[t].aux, ![t].aux = cell[at[t].aux].next]
  /\ UNCHANGED <<heap, value, running, stacked, history>>

\* Fault: the contacts behind the removed one are lost.
Unlink_LosesRest(t) ==
  /\ at[t].step = "scan"
  /\ at[t].aux # NULL
  /\ cell[at[t].aux].id = at[t].other
  /\ cell' = [cell EXCEPT ![at[t].current].next = NULL]
  /\ user' = IF at[t].current = at[t].aux
             THEN [user EXCEPT ![at[t].user].list = at[t].current] ELSE user
  /\ at' = [at EXCEPT ![t].step = "release"]
  /\ contacts' = [contacts EXCEPT ![at[t].user] = RemoveFirst(@, at[t].aux)]
  /\ spoiled' = (spoiled \/ at[t].current = at[t].aux)
  /\ UNCHANGED <<users, allocated, value, running, stacked, loaded>>

\* The first contact, being `current' itself, stays where it was.
Unlink(t) ==
  /\ at[t].step = "scan"
  /\ at[t].aux # NULL
  /\ cell[at[t].aux].id = at[t].other
  /\ cell' = [cell EXCEPT ![at[t].current].next = cell[at[t].aux].next]
  /\ user' = IF at[t].current = at[t].aux
             THEN [user EXCEPT ![at[t].user].list = at[t].current] ELSE user
  /\ at' = [at EXCEPT ![t].step = "release"]
  /\ contacts' = [contacts EXCEPT ![at[t].user] = RemoveFirst(@, at[t].aux)]
  /\ spoiled' = (spoiled \/ at[t].current = at[t].aux)
  /\ UNCHANGED <<users, allocated, value, running, stacked, loaded>>

Release(t) ==
  /\ at[t].step = "release"
  /\ running' = (at[t].aux \in allocated)   \* else it is freed twice
  /\ allocated' = allocated \ {at[t].aux}
  /\ cell' = [cell EXCEPT ![at[t].aux].id = Garbage]
  /\ Returns(t, 1)
  /\ UNCHANGED <<users, user, stacked, history>>

-----------------------------------------------------------------------------
(* user_logoff(), which after the user looks for all who have it as a      *)
(* contact, and get_list_buffer().                                         *)

FoundLogoff(t) ==
  /\ AtNode(t, {"user_logoff"})
  /\ Matches(t)
  /\ user' = [user EXCEPT ![at[t].user].status = 0, ![at[t].user].address = Free(@)]
  /\ running' \in Survives(Node(t).address)
  /\ at' = [at EXCEPT ![t].step = "search", ![t].user = users]
  /\ UNCHANGED <<users, cell, allocated, value, stacked, history>>

SearchUser(t) ==
  /\ at[t].step = "search"
  /\ IF at[t].user = NULL
     THEN Returns(t, 1)
     ELSE /\ at' = [at EXCEPT ![t].step = "change", ![t].aux = Node(t).list]
          /\ UNCHANGED value
  /\ UNCHANGED <<heap, running, stacked, history>>

SearchContact(t) ==
  /\ at[t].step = "change"
  /\ IF at[t].aux = NULL
     THEN /\ at' = [at EXCEPT ![t].step = "search", ![t].user = Node(t).next]
          /\ UNCHANGED stacked
     ELSE /\ at' = [at EXCEPT ![t].aux = cell[@].next]
          /\ stacked' = (stacked \/ cell[at[t].aux].id = at[t].id)
  /\ UNCHANGED <<heap, value, running, history>>

\* The semicolon of line 368 makes it visit every user; a contact of any of them
\* is concatenated to a NULL buffer.
BufferUser(t) ==
  /\ AtNode(t, {"get_list_buffer"})
  /\ running' = (Node(t).list = NULL)
  /\ at' = [at EXCEPT ![t].user = Node(t).next]
  /\ UNCHANGED <<heap, value, stacked, history>>

BufferEnd(t) ==
  /\ AtEnd(t, {"get_list_buffer"})
  /\ Returns(t, 0)
  /\ UNCHANGED <<heap, running, stacked, history>>

DirectoryStep(t) ==
  \/ NextUser(t) \/ NotFound(t) \/ FoundLookup(t)
  \/ CountUser(t) \/ Register(t)
  \/ FoundAdd(t) \/ AddFirst(t) \/ WalkContacts(t) \/ AddLast(t)
  \/ FoundRemove(t) \/ ScanEnd(t) \/ ScanContact(t) \/ Unlink(t) \/ Release(t)
  \/ FoundLogoff(t) \/ SearchUser(t) \/ SearchContact(t)
  \/ BufferUser(t) \/ BufferEnd(t)
=============================================================================
