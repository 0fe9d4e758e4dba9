--------------------------- MODULE HandlersProofs ---------------------------
(***************************************************************************)
(* Proofs about Handlers, for any number of workers, users, contacts and   *)
(* messages.                                                               *)
(***************************************************************************)
EXTENDS Handlers, SequenceTheorems, TLAPS

\* The pointers that each step of a walk dereferences are not NULL.
PointerInv ==
  \A t \in Threads :
    /\ at[t].step \in {"first", "walk", "append", "scan", "release", "change"} => at[t].user \in Nodes
    /\ at[t].step \in {"walk", "append", "release"} => at[t].aux \in Cells
    /\ at[t].step \in {"first", "walk", "append"} => at[t].current \in Cells
    /\ at[t].step = "scan" /\ at[t].aux # NULL => at[t].current \in Cells

\* A contact added to a list is one that a message can name.
ContactInv == \A t \in Threads : at[t].fn = "add_user_list" => at[t].other \in Ids \cup {0, 1}

Inv == HandlersTypeOK /\ PointerInv /\ ContactInv /\ team \subseteq Threads

Locals == [fn : Functions \cup {"none"}, id : Int, other : Nat, step : Steps,
           user : Nodes \cup {NULL}, aux : Cells \cup {NULL}, current : Cells \cup {NULL}]

Users == [id : Nat, status : {0, 1}, list : Cells \cup {NULL},
          address : Addresses, next : Nodes \cup {NULL}]

Contacts == [id : Ids \cup {0, 1, Fresh, Garbage}, next : Cells \cup {NULL}]

Results == {-1, 0, 1} \cup Addresses

\* What a step of data.c leaves in order.
HeapOK ==
  /\ users \in Nodes \cup {NULL}
  /\ user \in [Nodes -> Users]
  /\ cell \in [Cells -> Contacts]
  /\ allocated \subseteq Nodes \cup Cells
  /\ at \in [Threads -> Locals]
  /\ value \in [Threads -> Results]
  /\ running \in BOOLEAN /\ stacked \in BOOLEAN
  /\ PointerInv /\ ContactInv

\* The invariant, cut in two.
LEMMA InvSplit ==
  Inv <=> /\ HeapOK
          /\ answered \in BOOLEAN
          /\ message \in [Workers -> Incoming \cup {NoMessage}]
          /\ current \in Nodes \cup {NULL}
          /\ team \subseteq Threads
BY DEF Inv, HandlersTypeOK, HeapOK, Locals, Users, Contacts, Results

-----------------------------------------------------------------------------
\* Both starts, without and with the files.
LEMMA InitInv == Init => Inv
<1>. SUFFICES ASSUME Init PROVE Inv
  OBVIOUS
<1>. USE DirectoryAssumption, HandlersAssumption DEF DirectoryAssumption, HandlersAssumption
<1>1. at \in [Threads -> Locals] /\ PointerInv /\ ContactInv
  BY DEF Init, DirectoryInit, Out, Locals, Steps, PointerInv, ContactInv
<1>2. /\ users \in Nodes \cup {NULL}
      /\ user \in [Nodes -> Users]
      /\ cell \in [Cells -> Contacts]
      /\ allocated \subseteq Nodes \cup Cells
  <2>1. CASE Empty
    BY <2>1 DEF Empty, Untouched, EmptyUser, Addresses, EmptyCell, Users, Contacts
  <2>2. CASE load_users
    BY <2>2 DEF load_users, load_user, load_user_list, LoadedNext, Untouched, EmptyUser, Addresses, EmptyCell,
                Users, Contacts
  <2>. QED BY <2>1, <2>2 DEF Init, DirectoryInit
<1>3. value \in [Threads -> Results] /\ running \in BOOLEAN
  BY DEF Init, DirectoryInit, Empty, load_users, Results
<1>. QED BY <1>1, <1>2, <1>3 DEF Init, DirectoryInit, Inv, HandlersTypeOK, Locals, Users, Contacts, Results

\* Returning from a call, whatever the value, keeps the locals in order.
LEMMA ReturnInv ==
  ASSUME HeapOK, NEW t \in Threads, NEW v \in Results, Returns(t, v)
  PROVE  /\ at' \in [Threads -> Locals]
         /\ value' \in [Threads -> Results]
         /\ PointerInv' /\ ContactInv'
<1>1. Out \in Locals
  BY DEF Out, Locals, Steps
<1>2. at \in [Threads -> Locals] /\ value \in [Threads -> Results]
  BY DEF HeapOK
<1>3. at' \in [Threads -> Locals] /\ value' \in [Threads -> Results]
  BY <1>1, <1>2 DEF Returns
<1>4. \A u \in Threads : at'[u] = IF u = t THEN Out ELSE at[u]
  BY <1>2 DEF Returns
<1>5. PointerInv' /\ ContactInv'
  BY <1>4 DEF HeapOK, PointerInv, ContactInv, Out
<1>. QED BY <1>3, <1>5

\* So does beginning one.
LEMMA CallInv ==
  ASSUME HeapOK, NEW t \in Threads, NEW f \in Functions, NEW i \in Int, NEW o \in Nat,
         f = "add_user_list" => o \in Ids \cup {0, 1}, Call(t, f, i, o)
  PROVE  /\ at' \in [Threads -> Locals]
         /\ PointerInv' /\ ContactInv'
<1> DEFINE new == [fn |-> f, id |-> i, other |-> o, step |-> "find",
                   user |-> users, aux |-> NULL, current |-> NULL]
<1>1. new \in Locals
  BY DEF Locals, Steps, HeapOK
<1>2. at \in [Threads -> Locals]
  BY DEF HeapOK
<1>3. at' = [at EXCEPT ![t] = new]
  BY DEF Call
<1>4. at' \in [Threads -> Locals] /\ \A u \in Threads : at'[u] = IF u = t THEN new ELSE at[u]
  BY <1>1, <1>2, <1>3
<1>5. PointerInv' /\ ContactInv'
  BY <1>4 DEF HeapOK, PointerInv, ContactInv
<1>. QED BY <1>4, <1>5

\* A step that only moves the pointers of one thread.
LEMMA MoveInv ==
  ASSUME HeapOK, NEW t \in Threads, NEW new \in Locals,
         at' = [at EXCEPT ![t] = new],
         /\ new.step \in {"first", "walk", "append", "scan", "release", "change"} => new.user \in Nodes
         /\ new.step \in {"walk", "append", "release"} => new.aux \in Cells
         /\ new.step \in {"first", "walk", "append"} => new.current \in Cells
         /\ new.step = "scan" /\ new.aux # NULL => new.current \in Cells,
         new.fn = "add_user_list" => new.other \in Ids \cup {0, 1}
  PROVE  at' \in [Threads -> Locals] /\ PointerInv' /\ ContactInv'
<1>1. at' \in [Threads -> Locals] /\ \A u \in Threads : at'[u] = IF u = t THEN new ELSE at[u]
  BY DEF HeapOK
<1>. QED BY <1>1 DEF HeapOK, PointerInv, ContactInv

\* Changing one node to another of the type.
LEMMA UserUpdate ==
  ASSUME HeapOK, NEW n \in Nodes, NEW u \in Users
  PROVE  [user EXCEPT ![n] = u] \in [Nodes -> Users]
BY DEF HeapOK

\* The same of a contact.
LEMMA CellUpdate ==
  ASSUME HeapOK, NEW c \in Cells, NEW l \in Contacts
  PROVE  [cell EXCEPT ![c] = l] \in [Cells -> Contacts]
BY DEF HeapOK

\* What a thread finds in the node and the contact it points to.
LEMMA Fields ==
  ASSUME HeapOK, NEW t \in Threads
  PROVE  /\ at[t] \in Locals
         /\ at[t].user \in Nodes => Node(t) \in Users /\ user[at[t].user] \in Users
         /\ at[t].aux \in Cells => cell[at[t].aux] \in Contacts
         /\ at[t].user \in Nodes \cup {NULL} /\ at[t].aux \in Cells \cup {NULL}
BY DEF HeapOK, Locals, Node

\* No step of data.c takes a pointer out of its type.
LEMMA DirectoryInv ==
  ASSUME HeapOK, NEW t \in Threads, DirectoryStep(t)
  PROVE  HeapOK'
<1>. USE DirectoryAssumption DEF DirectoryAssumption
<1>. DEFINE a == at[t]
<1>0. /\ a \in Locals
      /\ a.user \in Nodes => Node(t) \in Users /\ user[a.user] \in Users
      /\ a.aux \in Cells => cell[a.aux] \in Contacts
      /\ a.user \in Nodes \cup {NULL} /\ a.aux \in Cells \cup {NULL}
      /\ a.step \in {"first", "walk", "append", "scan", "release", "change"} => a.user \in Nodes
      /\ a.step \in {"walk", "append", "release"} => a.aux \in Cells
      /\ a.step \in {"first", "walk", "append"} => a.current \in Cells
      /\ a.step = "scan" /\ a.aux # NULL => a.current \in Cells
      /\ a.fn = "add_user_list" => a.other \in Ids \cup {0, 1}
  BY Fields DEF HeapOK, PointerInv, ContactInv
<1>1. CASE NextUser(t)
  <2>1. a.user \in Nodes /\ Node(t).next \in Nodes \cup {NULL} /\ a.step = "find"
    BY <1>0, <1>1 DEF NextUser, AtNode, Users
  <2>. DEFINE new == [a EXCEPT !.user = Node(t).next]
  <2>2. new \in Locals /\ new.step = "find" /\ new.fn = a.fn /\ new.other = a.other
    BY <1>0, <2>1 DEF Locals
  <2>3. at' = [at EXCEPT ![t] = new]
    BY <1>1 DEF NextUser
  <2>. HIDE DEF new
  <2>4. at' \in [Threads -> Locals] /\ PointerInv' /\ ContactInv'
    BY <1>0, <2>2, <2>3, MoveInv
  <2>. QED BY <2>4, <1>1 DEF NextUser, HeapOK, heap, history
<1>2. CASE NotFound(t)
  <2>1. \E v \in Results : Returns(t, v)
    BY <1>2 DEF NotFound, Results, NoAddress
  <2>2. /\ at' \in [Threads -> Locals] /\ PointerInv' /\ ContactInv'
        /\ value' \in [Threads -> Results]
    BY <2>1, ReturnInv
  <2>. QED BY <2>2, <1>2 DEF NotFound, HeapOK, heap, history
<1>3. CASE FoundLookup(t)
  <2>1. a.user \in Nodes
    BY <1>0, <1>3 DEF FoundLookup, AtNode
  <2>2. \E v \in Results : Returns(t, v)
    BY <1>0, <1>3, <2>1 DEF FoundLookup, Users, Results
  <2>3. /\ at' \in [Threads -> Locals] /\ PointerInv' /\ ContactInv'
        /\ value' \in [Threads -> Results]
    BY <2>2, ReturnInv
  <2>. DEFINE new == Looked(user[a.user], a.fn)
  <2>4. new \in Users
    BY <1>0, <2>1 DEF Looked, Users, Addresses
  <2>5. user' = [user EXCEPT ![a.user] = new]
    BY <1>3 DEF FoundLookup
  <2>. HIDE DEF new
  <2>6. user' \in [Nodes -> Users]
    BY <2>1, <2>4, <2>5, UserUpdate
  <2>7. running' \in BOOLEAN
    BY <1>3 DEF FoundLookup, Survives
  <2>. QED BY <2>3, <2>6, <2>7, <1>3 DEF FoundLookup, HeapOK
<1>4. CASE CountUser(t)
  <2>1. a.user \in Nodes /\ a.step = "find" /\ a.fn = "user_register"
    BY <1>0, <1>4 DEF CountUser, AtNode
  <2>. DEFINE o == (a.other + 1) % UintRange
              new == [a EXCEPT !.user = Node(t).next, !.other = o]
  <2>2. o \in Nat
    BY <1>0 DEF Locals
  <2>. HIDE DEF o
  <2>3. new \in Locals /\ new.step = "find" /\ new.fn = "user_register"
    BY <1>0, <2>1, <2>2 DEF Locals, Users
  <2>4. at' = [at EXCEPT ![t] = new]
    BY <1>4 DEF CountUser, o
  <2>. HIDE DEF new
  <2>5. at' \in [Threads -> Locals] /\ PointerInv' /\ ContactInv'
    BY <2>3, <2>4, MoveInv
  <2>. QED BY <2>5, <1>4 DEF CountUser, HeapOK, heap, history
<1>5. CASE Register(t)
  <2>1. Returns(t, 1)
    BY <1>5 DEF Register
  <2>2. /\ at' \in [Threads -> Locals] /\ PointerInv' /\ ContactInv'
        /\ value' \in [Threads -> Results]
    BY <2>1, ReturnInv DEF Results
  <2>3. PICK n \in Nodes \ allocated, status \in {0, 1}, address \in {NoAddress, Wild} :
          /\ allocated' = allocated \cup {n}
          /\ user' = [user EXCEPT ![n] = [EmptyUser(status, address) EXCEPT !.id = a.other]]
    BY <1>5 DEF Register
  <2>. DEFINE new == [EmptyUser(status, address) EXCEPT !.id = a.other]
  <2>4. new \in Users /\ user' = [user EXCEPT ![n] = new]
    BY <1>0, <2>3 DEF EmptyUser, Users, Locals, Addresses
  <2>. HIDE DEF new
  <2>5. user' \in [Nodes -> Users]
    BY <2>4, UserUpdate
  <2>. QED BY <2>2, <2>3, <2>5, <1>5 DEF Register, HeapOK
<1>6. CASE FoundAdd(t)
  <2>1. a.user \in Nodes /\ a.fn = "add_user_list"
    BY <1>0, <1>6 DEF FoundAdd, AtNode
  <2>2. PICK c \in FreeCells :
          /\ allocated' = allocated \cup {c}
          /\ cell' = [cell EXCEPT ![c] = [id |-> at[t].other, next |-> NULL]]
          /\ at' = [at EXCEPT ![t].step = IF Node(t).list = NULL THEN "first" ELSE "walk",
                              ![t].aux = Node(t).list, ![t].current = c]
    BY <1>6 DEF FoundAdd
  <2>3. c \in Cells
    BY DEF FreeCells
  <2>4. [id |-> a.other, next |-> NULL] \in Contacts
    BY <1>0, <2>1 DEF Contacts
  <2>5. cell' \in [Cells -> Contacts]
    BY <2>2, <2>3, <2>4, CellUpdate
  <2>. DEFINE new == [a EXCEPT !.step = IF Node(t).list = NULL THEN "first" ELSE "walk",
                               !.aux = Node(t).list, !.current = c]
  <2>6. /\ new \in Locals /\ new.step \in {"first", "walk"}
        /\ new.user \in Nodes /\ new.current \in Cells
        /\ new.step = "walk" => new.aux \in Cells
        /\ new.other \in Ids \cup {0, 1}
    BY <1>0, <2>1, <2>3 DEF Locals, Users, Steps
  <2>7. at' = [at EXCEPT ![t] = new]
    BY <2>2
  <2>. HIDE DEF new
  <2>8. at' \in [Threads -> Locals] /\ PointerInv' /\ ContactInv'
    BY <2>6, <2>7, MoveInv
  <2>. QED BY <2>2, <2>3, <2>5, <2>8, <1>6 DEF FoundAdd, HeapOK
<1>7. CASE AddFirst(t)
  <2>1. a.user \in Nodes /\ a.current \in Cells
    BY <1>0, <1>7 DEF AddFirst
  <2>2. /\ at' \in [Threads -> Locals] /\ PointerInv' /\ ContactInv'
        /\ value' \in [Threads -> Results]
    BY <1>7, ReturnInv DEF AddFirst, Results
  <2>. DEFINE new == [user[a.user] EXCEPT !.list = a.current]
  <2>3. new \in Users
    BY <1>0, <2>1 DEF Users
  <2>4. user' = [user EXCEPT ![a.user] = new]
    BY <1>7 DEF AddFirst
  <2>. HIDE DEF new
  <2>5. user' \in [Nodes -> Users]
    BY <2>1, <2>3, <2>4, UserUpdate
  <2>. QED BY <2>2, <2>5, <1>7 DEF AddFirst, HeapOK
<1>8. CASE WalkContacts(t)
  <2>1. a.aux \in Cells /\ a.user \in Nodes /\ a.current \in Cells /\ a.step = "walk"
    BY <1>0, <1>8 DEF WalkContacts
  <2>. DEFINE new == IF cell[a.aux].next # NULL THEN [a EXCEPT !.aux = cell[a.aux].next]
                                                ELSE [a EXCEPT !.step = "append"]
  <2>2. /\ new \in Locals /\ new.step \in {"walk", "append"}
        /\ new.aux \in Cells /\ new.user \in Nodes /\ new.current \in Cells
        /\ new.fn = a.fn /\ new.other = a.other
    BY <1>0, <2>1 DEF Locals, Contacts, Steps
  <2>3. at' = [at EXCEPT ![t] = new]
    <3>1. CASE cell[a.aux].next = NULL
      BY <1>8, <3>1 DEF WalkContacts
    <3>2. CASE cell[a.aux].next # NULL
      BY <1>8, <3>2 DEF WalkContacts
    <3>. QED BY <3>1, <3>2
  <2>. HIDE DEF new
  <2>4. at' \in [Threads -> Locals] /\ PointerInv' /\ ContactInv'
    BY <1>0, <2>2, <2>3, MoveInv
  <2>. QED BY <2>4, <1>8 DEF WalkContacts, HeapOK, heap, history
<1>9. CASE AddLast(t)
  <2>1. a.aux \in Cells /\ a.current \in Cells
    BY <1>0, <1>9 DEF AddLast
  <2>2. /\ at' \in [Threads -> Locals] /\ PointerInv' /\ ContactInv'
        /\ value' \in [Threads -> Results]
    BY <1>9, ReturnInv DEF AddLast, Results
  <2>. DEFINE new == [cell[a.aux] EXCEPT !.next = a.current]
  <2>3. new \in Contacts
    BY <1>0, <2>1 DEF Contacts
  <2>4. cell' = [cell EXCEPT ![a.aux] = new]
    BY <1>9 DEF AddLast
  <2>. HIDE DEF new
  <2>5. cell' \in [Cells -> Contacts]
    BY <2>1, <2>3, <2>4, CellUpdate
  <2>. QED BY <2>2, <2>5, <1>9 DEF AddLast, HeapOK
<1>10. CASE FoundRemove(t)
  <2>1. a.user \in Nodes /\ a.fn = "remove_user_list" /\ Node(t).list \in Cells \cup {NULL}
    BY <1>0, <1>10 DEF FoundRemove, AtNode, Users
  <2>. DEFINE new == [a EXCEPT !.step = "scan", !.aux = Node(t).list, !.current = Node(t).list]
  <2>2. /\ new \in Locals /\ new.step = "scan" /\ new.user \in Nodes
        /\ new.aux # NULL => new.current \in Cells
        /\ new.fn = "remove_user_list"
    BY <1>0, <2>1 DEF Locals, Steps
  <2>3. at' = [at EXCEPT ![t] = new]
    BY <1>10 DEF FoundRemove
  <2>. HIDE DEF new
  <2>4. at' \in [Threads -> Locals] /\ PointerInv' /\ ContactInv'
    BY <2>2, <2>3, MoveInv
  <2>. QED BY <2>4, <1>10 DEF FoundRemove, HeapOK, heap
<1>11. CASE ScanEnd(t)
  <2>1. Node(t).next \in Nodes \cup {NULL}
    BY <1>0, <1>11 DEF ScanEnd, Users
  <2>. DEFINE new == [a EXCEPT !.step = "find", !.user = Node(t).next]
  <2>2. new \in Locals /\ new.step = "find" /\ new.fn = a.fn /\ new.other = a.other
    BY <1>0, <2>1 DEF Locals, Steps
  <2>3. at' = [at EXCEPT ![t] = new]
    BY <1>11 DEF ScanEnd
  <2>. HIDE DEF new
  <2>4. at' \in [Threads -> Locals] /\ PointerInv' /\ ContactInv'
    BY <1>0, <2>2, <2>3, MoveInv
  <2>. QED BY <2>4, <1>11 DEF ScanEnd, HeapOK, heap, history
<1>12. CASE ScanContact(t)
  <2>1. a.aux \in Cells /\ a.user \in Nodes /\ a.step = "scan" /\ cell[a.aux].next \in Cells \cup {NULL}
    BY <1>0, <1>12 DEF ScanContact, Contacts
  <2>. DEFINE new == [a EXCEPT !.current = a.aux, !.aux = cell[a.aux].next]
  <2>2. /\ new \in Locals /\ new.step = "scan" /\ new.user \in Nodes /\ new.current \in Cells
        /\ new.fn = a.fn /\ new.other = a.other
    BY <1>0, <2>1 DEF Locals
  <2>3. at' = [at EXCEPT ![t] = new]
    BY <1>12 DEF ScanContact
  <2>. HIDE DEF new
  <2>4. at' \in [Threads -> Locals] /\ PointerInv' /\ ContactInv'
    BY <1>0, <2>2, <2>3, MoveInv
  <2>. QED BY <2>4, <1>12 DEF ScanContact, HeapOK, heap, history
<1>13. CASE Unlink(t)
  <2>1. a.aux \in Cells /\ a.user \in Nodes /\ a.current \in Cells
    BY <1>0, <1>13 DEF Unlink
  <2>. DEFINE new == [a EXCEPT !.step = "release"]
              left == [cell[a.current] EXCEPT !.next = cell[a.aux].next]
              owner == [user[a.user] EXCEPT !.list = a.current]
  <2>2. /\ new \in Locals /\ new.step = "release" /\ new.user \in Nodes /\ new.aux \in Cells
        /\ new.fn = a.fn /\ new.other = a.other
    BY <1>0, <2>1 DEF Locals, Steps
  <2>3. left \in Contacts /\ owner \in Users
    BY <1>0, <2>1 DEF HeapOK, Contacts, Users
  <2>4. /\ at' = [at EXCEPT ![t] = new]
        /\ cell' = [cell EXCEPT ![a.current] = left]
        /\ user' = IF a.current = a.aux THEN [user EXCEPT ![a.user] = owner] ELSE user
    BY <1>13 DEF Unlink
  <2>. HIDE DEF new, left, owner
  <2>5. at' \in [Threads -> Locals] /\ PointerInv' /\ ContactInv'
    BY <1>0, <2>2, <2>4, MoveInv
  <2>6. cell' \in [Cells -> Contacts]
    BY <2>1, <2>3, <2>4, CellUpdate
  <2>7. user' \in [Nodes -> Users]
    BY <2>1, <2>3, <2>4, UserUpdate DEF HeapOK
  <2>. QED BY <2>5, <2>6, <2>7, <1>13 DEF Unlink, HeapOK
<1>14. CASE Release(t)
  <2>1. a.aux \in Cells
    BY <1>0, <1>14 DEF Release
  <2>2. /\ at' \in [Threads -> Locals] /\ PointerInv' /\ ContactInv'
        /\ value' \in [Threads -> Results]
    BY <1>14, ReturnInv DEF Release, Results
  <2>. DEFINE new == [cell[a.aux] EXCEPT !.id = Garbage]
  <2>3. new \in Contacts
    BY <1>0, <2>1 DEF Contacts
  <2>4. cell' = [cell EXCEPT ![a.aux] = new]
    BY <1>14 DEF Release
  <2>. HIDE DEF new
  <2>5. cell' \in [Cells -> Contacts]
    BY <2>1, <2>3, <2>4, CellUpdate
  <2>. QED BY <2>2, <2>5, <1>14 DEF Release, HeapOK
<1>15. CASE FoundLogoff(t)
  <2>1. a.user \in Nodes /\ a.fn = "user_logoff"
    BY <1>0, <1>15 DEF FoundLogoff, AtNode
  <2>. DEFINE new == [a EXCEPT !.step = "search", !.user = users]
              off == [user[a.user] EXCEPT !.status = 0, !.address = Free(user[a.user].address)]
  <2>2. new \in Locals /\ new.step = "search" /\ new.fn = a.fn
    BY <1>0 DEF Locals, Steps, HeapOK
  <2>3. off \in Users
    BY <1>0, <2>1 DEF Users, Free, Addresses
  <2>4. at' = [at EXCEPT ![t] = new] /\ user' = [user EXCEPT ![a.user] = off]
    BY <1>15 DEF FoundLogoff
  <2>. HIDE DEF new, off
  <2>5. at' \in [Threads -> Locals] /\ PointerInv' /\ ContactInv'
    BY <2>1, <2>2, <2>4, MoveInv
  <2>6. user' \in [Nodes -> Users]
    BY <2>1, <2>3, <2>4, UserUpdate
  <2>7. running' \in BOOLEAN
    BY <1>15 DEF FoundLogoff, Survives
  <2>. QED BY <2>5, <2>6, <2>7, <1>15 DEF FoundLogoff, HeapOK
<1>16. CASE SearchUser(t)
  <2>1. CASE a.user = NULL
    <3>1. Returns(t, 1)
      BY <1>16, <2>1 DEF SearchUser
    <3>2. 1 \in Results
      BY DEF Results
    <3>. QED BY <3>1, <3>2, <1>16, ReturnInv DEF SearchUser, HeapOK, heap, history
  <2>2. CASE a.user # NULL
    <3>1. Node(t).list \in Cells \cup {NULL} /\ a.user \in Nodes
      BY <1>0, <2>2 DEF Users
    <3>. DEFINE new == [a EXCEPT !.step = "change", !.aux = Node(t).list]
    <3>2. new \in Locals /\ new.step = "change" /\ new.user \in Nodes /\ new.fn = a.fn /\ new.other = a.other
      BY <1>0, <3>1 DEF Locals, Steps
    <3>3. at' = [at EXCEPT ![t] = new] /\ UNCHANGED value
      BY <1>16, <2>2 DEF SearchUser
    <3>. HIDE DEF new
    <3>4. at' \in [Threads -> Locals] /\ PointerInv' /\ ContactInv'
      BY <1>0, <3>2, <3>3, MoveInv
    <3>. QED BY <3>3, <3>4, <1>16 DEF SearchUser, HeapOK, heap, history
  <2>. QED BY <2>1, <2>2
<1>17. CASE SearchContact(t)
  <2>1. a.user \in Nodes /\ a.step = "change"
    BY <1>0, <1>17 DEF SearchContact
  <2>. DEFINE new == IF a.aux = NULL THEN [a EXCEPT !.step = "search", !.user = Node(t).next]
                                     ELSE [a EXCEPT !.aux = cell[a.aux].next]
  <2>2. /\ new \in Locals /\ new.step \in {"search", "change"}
        /\ new.step = "change" => new.user \in Nodes
        /\ new.fn = a.fn /\ new.other = a.other
    BY <1>0, <2>1 DEF Locals, Steps, Users, Contacts
  <2>3. at' = [at EXCEPT ![t] = new]
    BY <1>17 DEF SearchContact
  <2>. HIDE DEF new
  <2>4. at' \in [Threads -> Locals] /\ PointerInv' /\ ContactInv'
    BY <1>0, <2>2, <2>3, MoveInv
  <2>5. stacked' \in BOOLEAN
    BY <1>17 DEF SearchContact, HeapOK
  <2>. QED BY <2>4, <2>5, <1>17 DEF SearchContact, HeapOK, heap, history
<1>18. CASE BufferUser(t)
  <2>1. Node(t).next \in Nodes \cup {NULL} /\ a.step = "find" /\ a.fn = "get_list_buffer"
    BY <1>0, <1>18 DEF BufferUser, AtNode, Users
  <2>. DEFINE new == [a EXCEPT !.user = Node(t).next]
  <2>2. new \in Locals /\ new.step = "find" /\ new.fn = "get_list_buffer"
    BY <1>0, <2>1 DEF Locals
  <2>3. at' = [at EXCEPT ![t] = new]
    BY <1>18 DEF BufferUser
  <2>. HIDE DEF new
  <2>4. at' \in [Threads -> Locals] /\ PointerInv' /\ ContactInv'
    BY <2>2, <2>3, MoveInv
  <2>5. running' \in BOOLEAN
    BY <1>18 DEF BufferUser
  <2>. QED BY <2>4, <2>5, <1>18 DEF BufferUser, HeapOK, heap, history
<1>19. CASE BufferEnd(t)
  <2>1. /\ at' \in [Threads -> Locals] /\ PointerInv' /\ ContactInv'
        /\ value' \in [Threads -> Results]
    BY <1>19, ReturnInv DEF BufferEnd, Results
  <2>. QED BY <2>1, <1>19 DEF BufferEnd, HeapOK, heap, history
<1>. QED
  BY <1>1, <1>2, <1>3, <1>4, <1>5, <1>6, <1>7, <1>8, <1>9, <1>10, <1>11, <1>12, <1>13, <1>14,
     <1>15, <1>16, <1>17, <1>18, <1>19 DEF DirectoryStep

-----------------------------------------------------------------------------
\* Nor does a step of a handler or of the checker, or the next message.
LEMMA StepInv == Inv /\ [Next]_vars => Inv'
<1>. SUFFICES ASSUME Inv, [Next]_vars PROVE Inv'
  OBVIOUS
<1>. USE DirectoryAssumption, HandlersAssumption DEF DirectoryAssumption, HandlersAssumption
<1>0. Ids \subseteq Nat
  OBVIOUS
<1>1. /\ HeapOK
      /\ answered \in BOOLEAN
      /\ message \in [Workers -> Incoming \cup {NoMessage}]
      /\ current \in Nodes \cup {NULL}
      /\ team \subseteq Threads
  BY InvSplit
<1>2. SUFFICES /\ HeapOK'
               /\ answered' \in BOOLEAN
               /\ message' \in [Workers -> Incoming \cup {NoMessage}]
               /\ current' \in Nodes \cup {NULL}
               /\ team' \subseteq Threads
  BY InvSplit DEF Inv, HandlersTypeOK, HeapOK, Locals, Users, Contacts, Results
<1>3. UNCHANGED dirVars => HeapOK'
  BY <1>1 DEF dirVars, heap, history, HeapOK, PointerInv, ContactInv
<1>4. ASSUME NEW t \in Threads, InDirectory(t) PROVE HeapOK'
  BY <1>1, <1>4, DirectoryInv DEF InDirectory
<1>5. ASSUME NEW w \in Workers, GetMessage(w)
      PROVE  message' \in [Workers -> Incoming \cup {NoMessage}]
  BY <1>1, <1>5 DEF GetMessage
<1>6. ASSUME NEW w \in Workers, CallFunction(w) PROVE HeapOK'
  <2>. DEFINE f == Head(todo[w])
              i == Argument(w)
              o == IF f = "user_register" THEN 0 ELSE message[w].other
  <2>1. Call(w, f, i, o) /\ f \in Functions
    BY <1>6 DEF CallFunction, Doing
  <2>2. message[w].id \in Nat /\ message[w].other \in Ids \cup {0, 1}
    <3>1. message[w] \in Incoming \cup {NoMessage}
      BY <1>1
    <3>2. CASE message[w] = NoMessage
      BY <3>2 DEF NoMessage
    <3>3. CASE message[w] \in Incoming
      BY <1>0, <3>3 DEF Incoming
    <3>. QED BY <3>1, <3>2, <3>3
  <2>3. value[w] \in Int
    BY <1>1 DEF HeapOK, Results, Addresses, NoAddress, Known, Dangling, Wild
  <2>4. i \in Int
    BY <2>2, <2>3 DEF Argument
  <2>5. o \in Ids \cup {0, 1} /\ o \in Nat
    <3>1. o \in {0, message[w].other}
      OBVIOUS
    <3>. HIDE DEF o
    <3>. QED BY <1>0, <2>2, <3>1
  <2>. HIDE DEF f, i, o
  <2>6. w \in Threads
    OBVIOUS
  <2>7. at' \in [Threads -> Locals] /\ PointerInv' /\ ContactInv'
    BY <1>1, <2>1, <2>4, <2>5, <2>6, CallInv
  <2>. QED BY <1>1, <2>1, <2>7 DEF HeapOK, Call, heap, history
<1>7. ASSUME NEW w \in Workers, Access(w) PROVE HeapOK'
  BY <1>1, <1>7 DEF Access, HeapOK, heap, history, PointerInv, ContactInv
<1>8. ASSUME NEW w \in Workers, Finish(w)
      PROVE  HeapOK' /\ message' \in [Workers -> Incoming \cup {NoMessage}]
  BY <1>1, <1>8 DEF Finish, HeapOK, heap, history, PointerInv, ContactInv, Results
<1>9. ASSUME NEW w \in Workers, Sendto(w) PROVE answered' \in BOOLEAN
  BY <1>1, <1>9 DEF Sendto
<1>16. ASSUME NEW w \in Workers, SendMessage(w) PROVE HeapOK' /\ answered' \in BOOLEAN
  BY <1>1, <1>16 DEF SendMessage, HeapOK, heap, history, PointerInv, ContactInv
<1>10. ASSUME Visit
       PROVE  HeapOK' /\ answered' \in BOOLEAN /\ current' \in Nodes \cup {NULL}
  <2>1. current \in Nodes /\ user[current] \in Users
    BY <1>1, <1>10 DEF Visit, HeapOK
  <2>2. current' \in Nodes \cup {NULL} /\ answered' \in BOOLEAN
    BY <1>1, <1>10, <2>1 DEF Visit, Users
  <2>3. CASE Call(Checker, "user_logoff", user[current].id, 0)
    <3>. DEFINE i == user[current].id
    <3>0. /\ i \in Int /\ Call(Checker, "user_logoff", i, 0) /\ Checker \in Threads
          /\ "user_logoff" \in Functions
      BY <2>1, <2>3 DEF Functions, Searchers, Users
    <3>. HIDE DEF i
    <3>1. at' \in [Threads -> Locals] /\ PointerInv' /\ ContactInv'
      BY <1>1, <3>0, CallInv
    <3>. QED BY <1>1, <2>2, <2>3, <3>1 DEF HeapOK, Call, heap, history
  <2>4. CASE running' \in BOOLEAN /\ UNCHANGED <<heap, at, value, stacked, history>>
    BY <1>1, <2>2, <2>4 DEF HeapOK, heap, history, PointerInv, ContactInv
  <2>. QED BY <1>3, <1>10, <2>2, <2>3, <2>4 DEF Visit
<1>11. CASE UNCHANGED vars
  BY <1>1, <1>3, <1>11 DEF vars
<1>12. ASSUME NEW t \in team, InDirectory(t), UNCHANGED team
       PROVE  /\ HeapOK' /\ answered' \in BOOLEAN /\ current' \in Nodes \cup {NULL}
              /\ message' \in [Workers -> Incoming \cup {NoMessage}] /\ team' \subseteq Threads
  BY <1>1, <1>4, <1>12 DEF InDirectory
<1>13. ASSUME NEW w \in team \cap Workers, GetMessage(w) \/ HandlerStep(w), UNCHANGED team
       PROVE  /\ HeapOK' /\ answered' \in BOOLEAN /\ current' \in Nodes \cup {NULL}
              /\ message' \in [Workers -> Incoming \cup {NoMessage}] /\ team' \subseteq Threads
  <2>1. CASE GetMessage(w)
    BY <1>1, <1>3, <1>5, <1>13, <2>1 DEF GetMessage
  <2>2. CASE CallFunction(w)
    BY <1>1, <1>6, <1>13, <2>2 DEF CallFunction
  <2>3. CASE IfOne(w)
    BY <1>1, <1>3, <1>13, <2>3 DEF IfOne
  <2>4. CASE Sendto(w)
    BY <1>1, <1>3, <1>9, <1>13, <2>4 DEF Sendto
  <2>5. CASE Access(w)
    BY <1>1, <1>7, <1>13, <2>5 DEF Access
  <2>6. CASE Finish(w)
    BY <1>1, <1>8, <1>13, <2>6 DEF Finish
  <2>7. CASE SendMessage(w)
    BY <1>1, <1>13, <1>16, <2>7 DEF SendMessage
  <2>. QED BY <1>13, <2>1, <2>2, <2>3, <2>4, <2>5, <2>6, <2>7 DEF HandlerStep
<1>14. ASSUME Wake \/ Visit, UNCHANGED team
       PROVE  /\ HeapOK' /\ answered' \in BOOLEAN /\ current' \in Nodes \cup {NULL}
              /\ message' \in [Workers -> Incoming \cup {NoMessage}] /\ team' \subseteq Threads
  <2>1. CASE Wake
    BY <1>1, <1>3, <1>14, <2>1 DEF Wake, HeapOK
  <2>2. CASE Visit
    BY <1>1, <1>10, <1>14, <2>2 DEF Visit
  <2>. QED BY <1>14, <2>1, <2>2
<1>15. CASE Next
  BY <1>12, <1>13, <1>14, <1>15 DEF Next
<1>. QED BY <1>1, <1>11, <1>15 DEF vars

\* The fields, pointers and results stay in their types: no step follows NULL,
\* so that the only crashes are those the code asks for.
THEOREM TypeCorrect == Spec => []HandlersTypeOK
<1>1. Inv => HandlersTypeOK
  BY DEF Inv
<1>. QED BY <1>1, InitInv, StepInv, PTL DEF Spec

-----------------------------------------------------------------------------
\* In a directory read from files the only user is its own next one, and a
\* thread in a function of data.c points to it, as the checker does.  So no walk
\* ends.
RingInv ==
  loaded =>
    /\ users = FirstNode
    /\ user[FirstNode].next = FirstNode
    /\ current \in {FirstNode, NULL}
    /\ \A t \in Threads : at[t].step # "out" => at[t].user = FirstNode

\* Both starts have it.
LEMMA RingInit == Init => RingInv
BY DirectoryAssumption
   DEF DirectoryAssumption, Init, DirectoryInit, Empty, load_users, load_user, RingInv, Out

\* A walk goes on around the ring; only Register(t) could break it, at the end
\* of a walk.
LEMMA RingDirectory ==
  ASSUME HeapOK, RingInv, loaded, NEW t \in Threads, DirectoryStep(t), current' = current
  PROVE  RingInv'
<1>. USE DirectoryAssumption DEF DirectoryAssumption
<1>0. /\ at \in [Threads -> Locals] /\ user \in [Nodes -> Users]
      /\ users = FirstNode /\ user[FirstNode].next = FirstNode
      /\ at[t].step # "out" => at[t].user = FirstNode
      /\ \A u \in Threads : at[u].step # "out" => at[u].user = FirstNode
      /\ FirstNode # NULL
  BY DEF HeapOK, RingInv
<1>1. at[t].step # "out" /\ at[t].user = FirstNode /\ Node(t).next = FirstNode
  BY <1>0 DEF DirectoryStep, NextUser, NotFound, FoundLookup, CountUser, Register, FoundAdd, AddFirst,
              WalkContacts, AddLast, FoundRemove, ScanEnd, ScanContact, Unlink, Release, FoundLogoff,
              SearchUser, SearchContact, BufferUser, BufferEnd, AtNode, AtEnd, Node
<1>2. ~Register(t) /\ ~NotFound(t) /\ ~BufferEnd(t)
  BY <1>0, <1>1 DEF Register, NotFound, BufferEnd, AtEnd
<1>3. users' = users
  BY <1>2 DEF DirectoryStep, NextUser, FoundLookup, CountUser, FoundAdd, AddFirst, WalkContacts, AddLast,
              FoundRemove, ScanEnd, ScanContact, Unlink, Release, FoundLogoff, SearchUser, SearchContact,
              BufferUser, heap
<1>4. user'[FirstNode].next = FirstNode
  <2>1. CASE user' = user
    BY <1>0, <2>1
  <2>2. CASE FoundLookup(t)
    <3>1. Looked(user[FirstNode], at[t].fn).next = FirstNode
      BY <1>0 DEF Looked, Users
    <3>2. user' = [user EXCEPT ![FirstNode] = Looked(user[FirstNode], at[t].fn)]
      BY <1>1, <2>2 DEF FoundLookup
    <3>. QED BY <1>0, <3>1, <3>2
  <2>3. CASE AddFirst(t)
    <3>1. user' = [user EXCEPT ![FirstNode].list = at[t].current]
      BY <1>1, <2>3 DEF AddFirst
    <3>. QED BY <1>0, <3>1 DEF Users
  <2>4. CASE Unlink(t)
    <3>1. user' = user \/ user' = [user EXCEPT ![FirstNode].list = at[t].current]
      BY <1>1, <2>4 DEF Unlink
    <3>. QED BY <1>0, <3>1 DEF Users
  <2>5. CASE FoundLogoff(t)
    <3>1. user' = [user EXCEPT ![FirstNode].status = 0, ![FirstNode].address = Free(@)]
      BY <1>1, <2>5 DEF FoundLogoff
    <3>. QED BY <1>0, <3>1 DEF Users
  <2>. QED BY <1>2, <2>1, <2>2, <2>3, <2>4, <2>5
           DEF DirectoryStep, NextUser, CountUser, FoundAdd, WalkContacts, AddLast, FoundRemove, ScanEnd,
               ScanContact, Release, SearchUser, SearchContact, BufferUser, heap
<1>5. \A u \in Threads : at'[u].step # "out" => at'[u].user = FirstNode
  <2>1. CASE at' = [at EXCEPT ![t] = Out]
    BY <1>0, <2>1 DEF Out
  <2>2. CASE NextUser(t) \/ CountUser(t) \/ ScanEnd(t) \/ FoundLogoff(t) \/ BufferUser(t)
    BY <1>0, <1>1, <2>2 DEF NextUser, CountUser, ScanEnd, FoundLogoff, BufferUser, Locals
  <2>3. CASE FoundAdd(t)
    <3>1. PICK c \in FreeCells :
            at' = [at EXCEPT ![t].step = IF Node(t).list = NULL THEN "first" ELSE "walk",
                             ![t].aux = Node(t).list, ![t].current = c]
      BY <2>3 DEF FoundAdd
    <3>. QED BY <1>0, <1>1, <3>1 DEF Locals
  <2>6. CASE FoundRemove(t)
    BY <1>0, <1>1, <2>6 DEF FoundRemove, Locals
  <2>7. CASE ScanContact(t)
    BY <1>0, <1>1, <2>7 DEF ScanContact, Locals
  <2>8. CASE Unlink(t)
    BY <1>0, <1>1, <2>8 DEF Unlink, Locals
  <2>4. CASE WalkContacts(t)
    BY <1>0, <1>1, <2>4 DEF WalkContacts, Locals
  <2>5. CASE SearchUser(t) \/ SearchContact(t)
    BY <1>0, <1>1, <2>5 DEF SearchUser, SearchContact, Locals
  <2>. QED BY <1>2, <2>1, <2>2, <2>3, <2>4, <2>5, <2>6, <2>7, <2>8
           DEF DirectoryStep, FoundLookup, AddFirst, AddLast, Release, Returns
<1>. QED BY <1>0, <1>3, <1>4, <1>5 DEF RingInv

\* No step of a handler or of the checker opens the ring.
LEMMA RingStep == Inv /\ RingInv /\ [Next]_vars => RingInv'
<1>. SUFFICES ASSUME Inv, RingInv, [Next]_vars PROVE RingInv'
  OBVIOUS
<1>. USE DirectoryAssumption, HandlersAssumption DEF DirectoryAssumption, HandlersAssumption
<1>0. HeapOK /\ team \subseteq Threads
  BY InvSplit
<1>1. UNCHANGED <<users, user, at, loaded>> /\ current' \in {current, users, NULL} => RingInv'
  BY DEF RingInv
<1>2. ASSUME NEW t \in team, InDirectory(t) PROVE RingInv'
  <2>1. loaded' = loaded
    BY <1>2 DEF InDirectory, DirectoryStep, NextUser, NotFound, FoundLookup, CountUser, Register, FoundAdd,
                AddFirst, WalkContacts, AddLast, FoundRemove, ScanEnd, ScanContact, Unlink, Release,
                FoundLogoff, SearchUser, SearchContact, BufferUser, BufferEnd, history
  <2>. QED BY <1>0, <1>2, <2>1, RingDirectory DEF InDirectory, RingInv
<1>3. ASSUME NEW t \in Threads, NEW f, NEW i, NEW o, Call(t, f, i, o),
             loaded => current' \in {FirstNode, NULL}
      PROVE  RingInv'
  BY <1>0, <1>3 DEF Call, RingInv, heap, history, HeapOK
<1>4. ASSUME NEW w \in Workers, GetMessage(w) \/ HandlerStep(w) PROVE RingInv'
  <2>1. CASE CallFunction(w)
    BY <1>3, <2>1 DEF CallFunction, RingInv
  <2>2. CASE GetMessage(w) \/ IfOne(w) \/ Sendto(w)
    BY <1>1, <2>2 DEF GetMessage, IfOne, Sendto, dirVars, heap, history
  <2>3. CASE SendMessage(w) \/ Access(w) \/ Finish(w)
    BY <1>1, <2>3 DEF SendMessage, Access, Finish, heap, history
  <2>. QED BY <1>4, <2>1, <2>2, <2>3 DEF HandlerStep
<1>5. ASSUME Wake \/ Visit PROVE RingInv'
  <2>1. CASE Wake
    BY <1>1, <2>1 DEF Wake, dirVars, heap, history
  <2>2. CASE Visit
    <3>1. loaded => current' = FirstNode
      BY <2>2 DEF Visit, RingInv
    <3>2. CASE UNCHANGED <<users, user, at, loaded>>
      BY <3>1, <3>2 DEF RingInv
    <3>3. CASE Call(Checker, "user_logoff", user[current].id, 0)
      BY <1>3, <3>1, <3>3
    <3>. QED BY <2>2, <3>2, <3>3 DEF Visit, dirVars, heap, history
  <2>. QED BY <1>5, <2>1, <2>2
<1>6. CASE UNCHANGED vars
  BY <1>1, <1>6 DEF vars, dirVars, heap, history
<1>. QED BY <1>2, <1>4, <1>5, <1>6 DEF Next

\* user_register() sets `users' to NULL when its walk ends, and never does in a
\* directory that was read from files.
THEOREM NeverUnloaded == Spec => []StaysLoaded
<1>1. RingInv => StaysLoaded
  BY DEF RingInv, StaysLoaded
<1>. QED BY <1>1, InitInv, StepInv, RingInit, RingStep, PTL DEF Spec

-----------------------------------------------------------------------------
(* Nobody's address is learned, and an empty directory stays empty.        *)

\* The functions that do nothing but walk along the users.
Walkers == Lookups \cup {"user_register", "get_list_buffer"}

\* Where a thread is tells which function it is in.
FunctionInv ==
  \A t \in Threads :
    /\ at[t].fn = "none" => at[t].step = "out"
    /\ at[t].fn \in Walkers => at[t].step = "find"
    /\ at[t].fn = "set_user_address" => ~loaded

\* The only user there can be, the one that was read from a file, has no address.
Addressless == loaded => user[FirstNode].address = NoAddress

\* Nobody is ever linked: every walk ends at once.
EmptyInv ==
  ~loaded =>
    /\ users = NULL /\ ~stacked /\ current = NULL
    /\ \A t \in Threads : at[t].user = NULL /\ at[t].step \in {"out", "find"}

\* What a handler has just done when it sends, or gives a user an address.
Sends == {"sendto", "sendMessage"}
Chained(s) ==
  \A k \in 2 .. Len(s) : /\ s[k] \in Sends => s[k - 1] = "get_user_address"
                         /\ s[k] = "set_user_address" => s[k - 1] = "user_register"

\* All that a handler does.
Deeds == {"user_login", "user_register", "user_logoff", "set_user_address", "get_user_address",
          "add_user_list", "remove_user_list", "get_list", "get_list_buffer",
          "if", "sendto", "sendMessage", "store", "buildBuffer"}

\* So what is sent goes to the result of get_user_address(); and no handler gets
\* past the user_register() whose walk never ends.
HandlerInv(w) ==
  /\ todo[w] \in Seq(Deeds)
  /\ Chained(todo[w])
  /\ todo[w] # <<>> /\ todo[w][1] \in Sends /\ Addressless =>
       IF Outside(w) THEN value[w] = NoAddress ELSE at[w].fn = "get_user_address"
  /\ todo[w] # <<>> /\ todo[w][1] = "set_user_address" /\ loaded => at[w].fn = "user_register"

QuietInv == /\ FunctionInv /\ EmptyInv
            /\ Addressless => ~answered
            /\ DOMAIN todo = Workers
            /\ \A w \in Workers : HandlerInv(w)

LEMMA ChainedTail ==
  ASSUME NEW s \in Seq(Deeds), s # <<>>, Chained(s)
  PROVE  /\ Head(s) = s[1] /\ Tail(s) \in Seq(Deeds) /\ Chained(Tail(s))
         /\ Tail(s) # <<>> /\ Tail(s)[1] \in Sends => s[1] = "get_user_address"
         /\ Tail(s) # <<>> /\ Tail(s)[1] = "set_user_address" => s[1] = "user_register"
<1>1. /\ Tail(s) \in Seq(Deeds) /\ Len(Tail(s)) = Len(s) - 1
      /\ \A k \in 1 .. Len(s) - 1 : Tail(s)[k] = s[k + 1]
  OBVIOUS
<1>2. Chained(Tail(s))
  <2>. SUFFICES ASSUME NEW k \in 2 .. Len(s) - 1
                PROVE  /\ Tail(s)[k] \in Sends => Tail(s)[k - 1] = "get_user_address"
                       /\ Tail(s)[k] = "set_user_address" => Tail(s)[k - 1] = "user_register"
    BY <1>1 DEF Chained
  <2>1. Tail(s)[k] = s[k + 1] /\ Tail(s)[k - 1] = s[k]
    BY <1>1
  <2>2. k + 1 \in 2 .. Len(s) /\ (k + 1) - 1 = k
    OBVIOUS
  <2>. QED BY <2>1, <2>2 DEF Chained
<1>3. Tail(s) # <<>> => Tail(s)[1] = s[2] /\ 2 \in 2 .. Len(s)
  BY <1>1
<1>4. Tail(s) # <<>> => /\ s[2] \in Sends => s[1] = "get_user_address"
                        /\ s[2] = "set_user_address" => s[1] = "user_register"
  BY <1>3 DEF Chained
<1>. QED BY <1>1, <1>2, <1>3, <1>4

\* The acknowledge looks an address up before it sends.
LEMMA ChainedAcknowledge ==
  ASSUME NEW s \in Seq(Deeds), Chained(s)
  PROVE  s \o Acknowledge \in Seq(Deeds) /\ Chained(s \o Acknowledge)
<1>. DEFINE a == Acknowledge  r == s \o a
<1>1. a \in Seq(Deeds) /\ Len(a) = 2 /\ a[1] = "get_user_address" /\ a[2] = "sendto"
  BY DEF Acknowledge, Deeds
<1>. HIDE DEF a
<1>2. /\ r \in Seq(Deeds) /\ Len(r) = Len(s) + 2
      /\ \A k \in 1 .. Len(s) : r[k] = s[k]
      /\ r[Len(s) + 1] = "get_user_address" /\ r[Len(s) + 2] = "sendto"
  <2>1. /\ r \in Seq(Deeds) /\ Len(r) = Len(s) + Len(a)
        /\ \A k \in 1 .. Len(s) + Len(a) : r[k] = IF k <= Len(s) THEN s[k] ELSE a[k - Len(s)]
    BY <1>1, ConcatProperties
  <2>. HIDE DEF r
  <2>2. r[Len(s) + 1] = a[(Len(s) + 1) - Len(s)] /\ r[Len(s) + 2] = a[(Len(s) + 2) - Len(s)]
    BY <1>1, <2>1
  <2>3. (Len(s) + 1) - Len(s) = 1 /\ (Len(s) + 2) - Len(s) = 2
    OBVIOUS
  <2>. QED BY <1>1, <2>1, <2>2, <2>3
<1>. HIDE DEF r
<1>3. Chained(r)
  <2>. SUFFICES ASSUME NEW k \in 2 .. Len(s) + 2
                PROVE  /\ r[k] \in Sends => r[k - 1] = "get_user_address"
                       /\ r[k] = "set_user_address" => r[k - 1] = "user_register"
    BY <1>2 DEF Chained
  <2>1. CASE k \in 2 .. Len(s)
    BY <1>2, <2>1 DEF Chained
  <2>2. CASE k = Len(s) + 1
    BY <1>2, <2>2 DEF Sends
  <2>3. CASE k = Len(s) + 2
    <3>1. k - 1 = Len(s) + 1
      BY <2>3
    <3>. QED BY <1>2, <2>3, <3>1
  <2>. QED BY <2>1, <2>2, <2>3
<1>. QED BY <1>2, <1>3 DEF r, a

\* What comes first is what was there before.
LEMMA FirstKept ==
  ASSUME NEW s \in Seq(Deeds), s # <<>>
  PROVE  (s \o Acknowledge)[1] = s[1]
<1>1. Acknowledge \in Seq(Deeds) /\ Len(s) \in Nat /\ Len(s) >= 1
  BY DEF Acknowledge, Deeds
<1>. QED BY <1>1, ConcatProperties

\* A handler does not begin with what must come after something.
Sound(s) ==
  /\ s \in Seq(Deeds) /\ Chained(s)
  /\ s # <<>> => s[1] \notin Sends \cup {"set_user_address"}

LEMMA Then ==
  ASSUME NEW s \in Seq(Deeds), Sound(s), s # <<>>
  PROVE  Sound(s \o Acknowledge)
BY ChainedAcknowledge, FirstKept DEF Sound

\* Without the operators of sequences, that one.
LEMMA Forward == Sound(Acknowledge \o <<"get_user_address", "sendMessage">>)
BY DEF Sound, Chained, Acknowledge, Deeds, Sends

LEMMA HandlersChained == \A type \in 0 .. 9 : Sound(Handler(type))
<1>0. \A s : Sound(s) => s \in Seq(Deeds)
  BY DEF Sound
<1>1. /\ Sound(<<"user_login", "if">>) /\ Sound(<<"user_register", "set_user_address", "store">>)
      /\ Sound(Acknowledge) /\ Sound(<<"add_user_list">>) /\ Sound(<<"remove_user_list", "if">>)
      /\ Sound(<<"get_list">>) /\ Sound(<<>>) /\ Sound(<<"user_logoff">>)
      /\ Sound(<<"get_list_buffer", "get_user_address", "buildBuffer">>)
  BY DEF Sound, Chained, Acknowledge, Deeds, Sends
<1>2. /\ Sound(<<"user_login", "if">> \o Acknowledge)
      /\ Sound(<<"user_register", "set_user_address", "store">> \o Acknowledge)
      /\ Sound(<<"remove_user_list", "if">> \o Acknowledge)
      /\ Sound(<<"get_list">> \o Acknowledge)
      /\ Sound(<<"user_logoff">> \o Acknowledge)
  BY <1>1, Then, <1>0
<1>4. /\ Handler(0) = Acknowledge
      /\ Handler(1) = <<"user_login", "if">> \o Acknowledge
      /\ Handler(2) = <<"user_register", "set_user_address", "store">> \o Acknowledge
      /\ Handler(3) = Acknowledge \o <<"get_user_address", "sendMessage">>
      /\ Handler(4) = <<"add_user_list">>
      /\ Handler(5) = <<"remove_user_list", "if">> \o Acknowledge
      /\ Handler(6) = <<"get_list">> \o Acknowledge
      /\ Handler(7) = <<>>
      /\ Handler(8) = <<"user_logoff">> \o Acknowledge
      /\ Handler(9) = <<"get_list_buffer", "get_user_address", "buildBuffer">>
  BY DEF Handler, messageTypes
<1>5. \A type \in 0 .. 9 : type \in {0, 1, 2, 3, 4, 5, 6, 7, 8, 9}
  OBVIOUS
<1>. QED BY <1>1, <1>2, Forward, <1>4, <1>5

\* Both starts have it.
LEMMA QuietInit == Init => QuietInv
<1>. SUFFICES ASSUME Init PROVE QuietInv
  OBVIOUS
<1>. USE DirectoryAssumption, HandlersAssumption DEF DirectoryAssumption, HandlersAssumption
<1>1. \A t \in Threads : at[t] = Out /\ value[t] = 0
  BY DEF Init, DirectoryInit
<1>2. FunctionInv
  BY <1>1 DEF FunctionInv, Out, Walkers, Lookups
<1>4. EmptyInv
  BY <1>1 DEF Init, DirectoryInit, Empty, load_users, EmptyInv, Out
<1>5. \A w \in Workers : todo[w] = <<>>
  BY DEF Init
<1>6. \A w \in Workers : HandlerInv(w)
  <2>1. <<>> \in Seq(Deeds) /\ Chained(<<>>)
    BY DEF Chained
  <2>. QED BY <1>5, <2>1 DEF HandlerInv
<1>7. DOMAIN todo = Workers
  BY DEF Init
<1>. QED BY <1>2, <1>4, <1>6, <1>7 DEF QuietInv, Init

\* What a step of data.c does to the directory, to who sleeps in it and to the
\* results that the handlers use.
LEMMA QuietDirectory ==
  ASSUME HeapOK, RingInv, FunctionInv, EmptyInv, NEW t \in Threads, DirectoryStep(t),
         current' = current
  PROVE  /\ FunctionInv' /\ (Addressless' <=> Addressless) /\ EmptyInv'
         /\ loaded' = loaded
         /\ ~Outside(t)
         /\ \A u \in Threads \ {t} : at'[u] = at[u] /\ value'[u] = value[u]
         /\ at'[t].fn \in {at[t].fn, "none"}
         /\ at[t].fn = "get_user_address" =>
              \/ at'[t].fn = "get_user_address"
              \/ at'[t].fn = "none" /\ (Addressless => value'[t] = NoAddress)
         /\ loaded /\ at[t].fn = "user_register" => at'[t].fn = "user_register"
<1>. USE DirectoryAssumption DEF DirectoryAssumption
<1>. DEFINE a == at[t]
<1>0. /\ at \in [Threads -> Locals] /\ user \in [Nodes -> Users]
      /\ value \in [Threads -> Results]
      /\ a \in Locals
      /\ a.user \in Nodes \cup {NULL}
      /\ a.user \in Nodes => Node(t) \in Users /\ Node(t) = user[a.user]
      /\ a.step \in {"first", "walk", "append", "scan", "release", "change"} => a.user \in Nodes
      /\ a.fn = "none" => a.step = "out"
      /\ a.fn \in Walkers => a.step = "find"
      /\ a.fn = "set_user_address" => ~loaded
  BY Fields DEF HeapOK, FunctionInv, PointerInv, Locals, Node
<1>1. loaded' = loaded
  BY DEF DirectoryStep, NextUser, NotFound, FoundLookup, CountUser, Register, FoundAdd,
         AddFirst, WalkContacts, AddLast, FoundRemove, ScanEnd, ScanContact, Unlink, Release,
         FoundLogoff, SearchUser, SearchContact, BufferUser, BufferEnd, history
<1>2. a.step # "out"
  BY DEF DirectoryStep, NextUser, NotFound, FoundLookup, CountUser, Register, FoundAdd, AddFirst,
         WalkContacts, AddLast, FoundRemove, ScanEnd, ScanContact, Unlink, Release, FoundLogoff,
         SearchUser, SearchContact, BufferUser, BufferEnd, AtNode, AtEnd
<1>3. ~Outside(t)
  BY <1>0, <1>2 DEF Outside
<1>4. loaded => ~Register(t) /\ ~NotFound(t) /\ ~BufferEnd(t)
  BY <1>2 DEF RingInv, Register, NotFound, BufferEnd, AtEnd
<1>5. ~loaded => Register(t) \/ NotFound(t) \/ BufferEnd(t)
  <2>. SUFFICES ASSUME ~loaded PROVE Register(t) \/ NotFound(t) \/ BufferEnd(t)
    OBVIOUS
  <2>1. a.user = NULL /\ a.step = "find"
    BY <1>2 DEF EmptyInv
  <2>. QED BY <2>1 DEF DirectoryStep, NextUser, FoundLookup, CountUser, FoundAdd, AddFirst,
         WalkContacts, AddLast, FoundRemove, ScanEnd, ScanContact, Unlink, Release, FoundLogoff,
         SearchUser, SearchContact, BufferUser, AtNode
<1>6. \A u \in Threads \ {t} : at'[u] = at[u] /\ value'[u] = value[u]
  BY <1>0 DEF DirectoryStep, NextUser, NotFound, FoundLookup, CountUser, Register, FoundAdd, AddFirst,
         WalkContacts, AddLast, FoundRemove, ScanEnd, ScanContact, Unlink, Release, FoundLogoff,
         SearchUser, SearchContact, BufferUser, BufferEnd, Returns
<1>7. Addressless' <=> Addressless
  <2>. SUFFICES ASSUME loaded PROVE user'[FirstNode].address = NoAddress <=> user[FirstNode].address = NoAddress
    BY <1>1 DEF Addressless
  <2>0. a.user = FirstNode /\ user[FirstNode] \in Users
    BY <1>0, <1>2 DEF RingInv
  <2>1. CASE user' = user
    BY <2>1
  <2>2. CASE FoundLookup(t)
    <3>1. Looked(user[FirstNode], a.fn).address = user[FirstNode].address
      BY <1>0, <2>0 DEF Looked, Users
    <3>. QED BY <1>0, <2>0, <2>2, <3>1 DEF FoundLookup
  <2>3. CASE AddFirst(t) \/ Unlink(t)
    <3>1. [user[FirstNode] EXCEPT !.list = a.current].address = user[FirstNode].address
      BY <2>0 DEF Users
    <3>2. user' = user \/ user' = [user EXCEPT ![FirstNode] = [user[FirstNode] EXCEPT !.list = a.current]]
      BY <2>0, <2>3 DEF AddFirst, Unlink
    <3>. QED BY <1>0, <3>1, <3>2
  <2>4. CASE FoundLogoff(t)
    <3>. DEFINE new == [user[FirstNode] EXCEPT !.status = 0, !.address = Free(@)]
    <3>1. new.address = NoAddress <=> user[FirstNode].address = NoAddress
      BY <2>0 DEF Users, Free, NoAddress, Dangling
    <3>2. user' = [user EXCEPT ![FirstNode] = new]
      BY <2>0, <2>4 DEF FoundLogoff
    <3>. HIDE DEF new
    <3>. QED BY <1>0, <3>1, <3>2
  <2>. QED BY <1>4, <2>1, <2>2, <2>3, <2>4
           DEF DirectoryStep, NextUser, CountUser, FoundAdd, WalkContacts, AddLast,
               FoundRemove, ScanEnd, ScanContact, Release, SearchUser, SearchContact, BufferUser, heap
<1>8. EmptyInv'
  <2>. SUFFICES ASSUME ~loaded PROVE /\ users' = NULL /\ ~stacked' /\ current' = NULL
                                     /\ at'[t].user = NULL /\ at'[t].step = "out"
    BY <1>1, <1>6 DEF EmptyInv
  <2>1. at'[t] = Out
    BY <1>0, <1>5 DEF Register, NotFound, BufferEnd, Returns
  <2>. QED BY <1>5, <2>1 DEF EmptyInv, Register, NotFound, BufferEnd, Out, heap
<1>9. \/ at'[t] = Out
      \/ /\ at'[t].fn = a.fn
         /\ a.fn \in Walkers => at'[t].step = "find"
  <2>1. CASE NotFound(t) \/ FoundLookup(t) \/ Register(t) \/ AddFirst(t) \/ AddLast(t) \/ Release(t) \/ BufferEnd(t)
    BY <1>0, <2>1 DEF NotFound, FoundLookup, Register, AddFirst, AddLast, Release, BufferEnd, Returns
  <2>2. CASE NextUser(t) \/ CountUser(t) \/ BufferUser(t)
    BY <1>0, <2>2 DEF NextUser, CountUser, BufferUser, AtNode, Locals
  <2>3. CASE FoundAdd(t)
    <3>1. PICK c \in FreeCells :
            at' = [at EXCEPT ![t].step = IF Node(t).list = NULL THEN "first" ELSE "walk",
                             ![t].aux = Node(t).list, ![t].current = c]
      BY <2>3 DEF FoundAdd
    <3>2. a.fn \notin Walkers
      BY <2>3 DEF FoundAdd, AtNode, Walkers, Lookups
    <3>. QED BY <1>0, <3>1, <3>2 DEF Locals
  <2>4. CASE FoundRemove(t) \/ FoundLogoff(t)
    <3>1. a.fn \notin Walkers
      BY <2>4 DEF FoundRemove, FoundLogoff, AtNode, Walkers, Lookups
    <3>. QED BY <1>0, <2>4, <3>1 DEF FoundRemove, FoundLogoff, Locals
  <2>5. CASE ScanEnd(t) \/ ScanContact(t) \/ Unlink(t) \/ WalkContacts(t)
    <3>1. a.fn \notin Walkers
      BY <1>0, <2>5 DEF ScanEnd, ScanContact, Unlink, WalkContacts
    <3>. QED BY <1>0, <2>5, <3>1 DEF ScanEnd, ScanContact, Unlink, WalkContacts, Locals
  <2>6. CASE SearchUser(t) \/ SearchContact(t)
    <3>1. a.fn \notin Walkers
      BY <1>0, <2>6 DEF SearchUser, SearchContact
    <3>. QED BY <1>0, <2>6, <3>1 DEF SearchUser, SearchContact, Returns, Locals
  <2>. QED BY <2>1, <2>2, <2>3, <2>4, <2>5, <2>6 DEF DirectoryStep
<1>10. FunctionInv'
  <2>1. Out.fn = "none" /\ Out.step = "out" /\ Out.fn \notin Walkers
    BY DEF Out, Walkers, Lookups
  <2>2. a.fn # "none"
    BY <1>3 DEF Outside
  <2>. QED BY <1>0, <1>1, <1>6, <1>9, <2>1, <2>2 DEF FunctionInv
<1>11. a.fn = "get_user_address" =>
         at'[t].fn = "get_user_address" \/ (at'[t].fn = "none" /\ (Addressless => value'[t] = NoAddress))
  <2>. SUFFICES ASSUME a.fn = "get_user_address", at'[t] = Out, Addressless PROVE value'[t] = NoAddress
    BY <1>9 DEF Out
  <2>1. a.step = "find"
    BY <1>0 DEF Walkers, Lookups
  <2>2. at' # at /\ at'[t].fn # a.fn
    BY DEF Out
  <2>3. NotFound(t) \/ FoundLookup(t)
    BY <1>0, <2>1, <2>2 DEF DirectoryStep, NextUser, CountUser, Register, FoundAdd, AddFirst,
         WalkContacts, AddLast, FoundRemove, ScanEnd, ScanContact, Unlink, Release, FoundLogoff,
         SearchUser, SearchContact, BufferUser, BufferEnd, AtNode, AtEnd, Locals
  <2>4. CASE NotFound(t)
    BY <1>0, <2>4 DEF NotFound, Returns, Changers, NoAddress
  <2>5. CASE FoundLookup(t)
    <3>1. a.user # NULL /\ value' = [value EXCEPT ![t] = Node(t).address]
      BY <2>5 DEF FoundLookup, AtNode, Returns
    <3>2. loaded /\ a.user = FirstNode
      BY <1>2, <3>1 DEF EmptyInv, RingInv
    <3>. QED BY <1>0, <3>1, <3>2 DEF Addressless
  <2>. QED BY <2>3, <2>4, <2>5
<1>12. loaded /\ a.fn = "user_register" => at'[t].fn = "user_register"
  <2>. SUFFICES ASSUME loaded, a.fn = "user_register" PROVE at'[t].fn = "user_register"
    OBVIOUS
  <2>1. a.step = "find"
    BY <1>0 DEF Walkers
  <2>2. CountUser(t)
    BY <1>4, <2>1 DEF DirectoryStep, NextUser, FoundLookup, FoundAdd, AddFirst,
         WalkContacts, AddLast, FoundRemove, ScanEnd, ScanContact, Unlink, Release, FoundLogoff,
         SearchUser, SearchContact, BufferUser, AtNode, Searchers, Changers, Lookups
  <2>. QED BY <1>0, <2>2 DEF CountUser, Locals
<1>13. at'[t].fn \in {a.fn, "none"}
  BY <1>9 DEF Out
<1>. QED BY <1>1, <1>3, <1>6, <1>7, <1>8, <1>10, <1>11, <1>12, <1>13

\* A handler that goes on with what is left of its deeds.
LEMMA HandlerGoesOn ==
  ASSUME NEW w \in Workers, HandlerInv(w), todo[w] # <<>>, todo'[w] = Tail(todo[w]), loaded' = loaded,
         todo[w][1] = "get_user_address" => at'[w].fn = "get_user_address",
         todo[w][1] = "user_register" => at'[w].fn = "user_register"
  PROVE  HandlerInv(w)'
<1>1. /\ Tail(todo[w]) \in Seq(Deeds) /\ Chained(Tail(todo[w]))
      /\ Tail(todo[w]) # <<>> /\ Tail(todo[w])[1] \in Sends => todo[w][1] = "get_user_address"
      /\ Tail(todo[w]) # <<>> /\ Tail(todo[w])[1] = "set_user_address" => todo[w][1] = "user_register"
  BY ChainedTail DEF HandlerInv
<1>. QED BY <1>1 DEF HandlerInv, Outside, Chained, Sends

\* A handler with nothing left to do.
LEMMA HandlerEnds == ASSUME NEW w \in Workers, todo'[w] = <<>> PROVE HandlerInv(w)'
<1>1. <<>> \in Seq(Deeds) /\ Chained(<<>>)
  BY DEF Chained
<1>. QED BY <1>1 DEF HandlerInv, Chained

\* A handler that does nothing.
LEMMA HandlerStays ==
  ASSUME NEW w \in Workers, HandlerInv(w), todo'[w] = todo[w], at'[w] = at[w], value'[w] = value[w],
         loaded' = loaded, Addressless' <=> Addressless
  PROVE  HandlerInv(w)'
BY DEF HandlerInv, Chained, Outside, Sends

LEMMA QuietStep == Inv /\ RingInv /\ QuietInv /\ [Next]_vars => QuietInv'
<1>. SUFFICES ASSUME Inv, RingInv, QuietInv, [Next]_vars PROVE QuietInv'
  OBVIOUS
<1>. USE HandlersAssumption DEF HandlersAssumption
<1>0. /\ HeapOK /\ team \subseteq Threads
      /\ at \in [Threads -> Locals] /\ value \in [Threads -> Results]
      /\ FunctionInv /\ EmptyInv
      /\ Addressless => ~answered
      /\ \A w \in Workers : HandlerInv(w)
      /\ current \in Nodes \cup {NULL}
  BY InvSplit DEF QuietInv, HeapOK
<1>00. /\ DOMAIN todo = Workers
       /\ \A w \in Workers : w \in Threads /\ w # Checker
       /\ Checker \in Threads
  BY DEF QuietInv
<1>1. ASSUME NEW t \in team, InDirectory(t) PROVE QuietInv'
  <2>1. /\ DirectoryStep(t) /\ t \in Threads
        /\ UNCHANGED <<message, todo, current, answered, received>>
    BY <1>0, <1>1 DEF InDirectory
  <2>2. /\ FunctionInv' /\ (Addressless' <=> Addressless) /\ EmptyInv'
        /\ loaded' = loaded
        /\ ~Outside(t)
        /\ \A u \in Threads \ {t} : at'[u] = at[u] /\ value'[u] = value[u]
        /\ at[t].fn = "get_user_address" =>
             \/ at'[t].fn = "get_user_address"
             \/ at'[t].fn = "none" /\ (Addressless => value'[t] = NoAddress)
        /\ loaded /\ at[t].fn = "user_register" => at'[t].fn = "user_register"
    BY <1>0, <2>1, QuietDirectory
  <2>3. ASSUME NEW w \in Workers PROVE HandlerInv(w)'
    <3>1. CASE w = t
      BY <1>0, <2>1, <2>2, <3>1 DEF HandlerInv, Chained, Outside, Sends
    <3>2. CASE w # t
      BY <1>0, <1>00, <2>1, <2>2, <3>2, HandlerStays
    <3>. QED BY <3>1, <3>2
  <2>. QED BY <1>0, <1>00, <2>1, <2>2, <2>3 DEF QuietInv
\* What does not touch the threads but one, nor the users.
<1>2. ASSUME UNCHANGED <<users, user, stacked, loaded, current, answered, at>>
      PROVE  FunctionInv' /\ (Addressless' <=> Addressless) /\ EmptyInv' /\ (Addressless' => ~answered')
  BY <1>0, <1>2 DEF FunctionInv, Addressless, EmptyInv
<1>3. ASSUME NEW t \in Threads, NEW f \in Functions, NEW i, NEW o, Call(t, f, i, o),
             f = "set_user_address" => ~loaded, current' = current \/ loaded
      PROVE  /\ FunctionInv' /\ (Addressless' <=> Addressless) /\ EmptyInv' /\ loaded' = loaded
             /\ at'[t].fn = f /\ value' = value
             /\ \A u \in Threads \ {t} : at'[u] = at[u]
  <2>. DEFINE new == [fn |-> f, id |-> i, other |-> o, step |-> "find",
                      user |-> users, aux |-> NULL, current |-> NULL]
  <2>1. at' = [at EXCEPT ![t] = new]
    BY <1>3 DEF Call
  <2>2. \A u \in Threads : at'[u] = IF u = t THEN new ELSE at[u]
    BY <1>0, <2>1
  <2>3. new.fn = f /\ new.step = "find" /\ new.user = users /\ f # "none"
    BY DEF Functions, Searchers, Changers, Lookups
  <2>4. UNCHANGED <<users, user, stacked, loaded, value>>
    BY <1>3 DEF Call, heap, history
  <2>. HIDE DEF new
  <2>. QED BY <1>0, <1>3, <2>2, <2>3, <2>4 DEF FunctionInv, Addressless, EmptyInv
<1>4. ASSUME NEW w \in Workers, GetMessage(w) PROVE QuietInv'
  <2>1. PICK m \in Incoming : todo' = [todo EXCEPT ![w] = Handler(m.type)]
    BY <1>4 DEF GetMessage
  <2>2. UNCHANGED <<users, user, stacked, loaded, current, answered, at, value>>
    BY <1>4 DEF GetMessage, dirVars, heap, history
  <2>3. m.type \in 0 .. 9
    BY DEF Incoming
  <2>4. Sound(Handler(m.type))
    BY <2>3, HandlersChained
  <2>5. ASSUME NEW u \in Workers PROVE HandlerInv(u)'
    <3>1. CASE u # w
      <4>1. todo'[u] = todo[u]
        BY <2>1, <3>1
      <4>. QED BY <1>0, <1>2, <2>2, <4>1, HandlerStays
    <3>2. CASE u = w
      <4>. DEFINE s == Handler(m.type)
      <4>1. todo'[w] = s /\ Sound(s)
        BY <1>00, <2>1, <2>4
      <4>. HIDE DEF s
      <4>. QED BY <3>2, <4>1 DEF HandlerInv, Sound, Chained, Sends
    <3>. QED BY <3>1, <3>2
  <2>6. DOMAIN todo' = Workers
    BY <1>00, <2>1
  <2>. QED BY <1>2, <2>2, <2>5, <2>6 DEF QuietInv
<1>5. ASSUME NEW w \in Workers, HandlerStep(w) PROVE QuietInv'
  <2>1. todo[w] # <<>> => Head(todo[w]) = todo[w][1]
    BY <1>0, ChainedTail DEF HandlerInv
  <2>2. ASSUME todo' = todo \/ todo' = [todo EXCEPT ![w] = todo'[w]] PROVE DOMAIN todo' = Workers
    BY <1>00, <2>2
  <2>3. CASE CallFunction(w)
    <3>. DEFINE f == Head(todo[w])
                i == Argument(w)
                o == IF f = "user_register" THEN 0 ELSE message[w].other
    <3>1. /\ Call(w, f, i, o) /\ f \in Functions /\ Outside(w) /\ todo[w] # <<>>
          /\ todo' = [todo EXCEPT ![w] = Tail(todo[w])]
          /\ UNCHANGED <<current, answered>>
      BY <2>3 DEF CallFunction, Doing, Done
    <3>2. f = todo[w][1]
      BY <2>1, <3>1
    <3>3. f = "set_user_address" => ~loaded
      BY <1>0, <3>1, <3>2 DEF HandlerInv, Outside
    <3>. HIDE DEF f, i, o
    <3>4. /\ FunctionInv' /\ (Addressless' <=> Addressless) /\ EmptyInv' /\ loaded' = loaded
          /\ at'[w].fn = f /\ value' = value
          /\ \A u \in Threads \ {w} : at'[u] = at[u]
      BY <1>00, <1>3, <3>1, <3>3
    <3>5. todo'[w] = Tail(todo[w]) /\ \A u \in Workers \ {w} : todo'[u] = todo[u]
      BY <1>00, <3>1
    <3>6. HandlerInv(w)'
      BY <1>0, <3>1, <3>2, <3>4, <3>5, HandlerGoesOn
    <3>7. \A u \in Workers \ {w} : HandlerInv(u)'
      BY <1>0, <1>00, <3>4, <3>5, HandlerStays
    <3>8. DOMAIN todo' = Workers
      BY <1>00, <3>1
    <3>. QED BY <1>0, <3>1, <3>4, <3>6, <3>7, <3>8 DEF QuietInv
  <2>4. CASE IfOne(w) \/ Sendto(w) \/ SendMessage(w) \/ Access(w) \/ Finish(w)
    <3>1. /\ UNCHANGED <<users, user, stacked, loaded, current, at>>
          /\ \A u \in Workers \ {w} : value'[u] = value[u]
      BY <1>0, <2>4 DEF IfOne, Sendto, SendMessage, Access, Finish, dirVars, heap, history
    <3>9. FunctionInv' /\ (Addressless' <=> Addressless) /\ EmptyInv'
      BY <1>0, <3>1 DEF FunctionInv, Addressless, EmptyInv
    <3>2. Addressless => ~answered'
      <4>1. CASE Sendto(w) \/ SendMessage(w)
        <5>1. todo[w] # <<>> /\ todo[w][1] \in Sends /\ Outside(w)
          BY <2>1, <4>1 DEF Sendto, SendMessage, Doing, Sends
        <5>2. Addressless => value[w] = NoAddress
          BY <1>0, <5>1 DEF HandlerInv
        <5>. QED BY <1>0, <4>1, <5>2 DEF Sendto, SendMessage
      <4>. QED BY <1>0, <2>4, <4>1 DEF IfOne, Access, Finish
    <3>3. todo' = todo \/ \E s : todo' = [todo EXCEPT ![w] = s]
      BY <2>4 DEF IfOne, Sendto, SendMessage, Access, Finish, Done
    <3>4. DOMAIN todo' = Workers /\ \A u \in Workers \ {w} : todo'[u] = todo[u]
      BY <1>00, <3>3
    <3>5. \A u \in Workers \ {w} : HandlerInv(u)'
      BY <1>0, <3>1, <3>4, <3>9, HandlerStays
    <3>6. \/ todo'[w] = <<>>
          \/ /\ todo[w] # <<>> /\ todo'[w] = Tail(todo[w])
             /\ todo[w][1] \in {"if", "sendto", "sendMessage", "store", "buildBuffer"}
      BY <1>00, <2>1, <2>4 DEF IfOne, Sendto, SendMessage, Access, Finish, Done, Doing
    <3>7. HandlerInv(w)'
      BY <1>0, <3>1, <3>6, HandlerEnds, HandlerGoesOn
    <3>. QED BY <3>2, <3>4, <3>5, <3>7, <3>9 DEF QuietInv
  <2>. QED BY <1>5, <2>3, <2>4 DEF HandlerStep
<1>6. ASSUME Wake \/ Visit PROVE QuietInv'
  <2>1. CASE Wake
    <3>1. UNCHANGED <<users, user, stacked, loaded, answered, at, value, todo>> /\ current' = users
      BY <2>1 DEF Wake, dirVars, heap, history
    <3>2. FunctionInv' /\ (Addressless' <=> Addressless) /\ EmptyInv' /\ (Addressless' => ~answered')
      BY <1>0, <3>1 DEF FunctionInv, Addressless, EmptyInv
    <3>. QED BY <1>0, <1>00, <3>1, <3>2, HandlerStays DEF QuietInv
  <2>2. CASE Visit
    <3>1. loaded /\ current = FirstNode
      BY <1>0, <2>2 DEF Visit, EmptyInv, RingInv
    <3>2. (Addressless => ~answered') /\ todo' = todo
      BY <1>0, <2>2, <3>1 DEF Visit, Addressless
    <3>3. /\ FunctionInv' /\ (Addressless' <=> Addressless) /\ EmptyInv' /\ loaded' = loaded /\ value' = value
          /\ \A u \in Workers : at'[u] = at[u]
      <4>1. CASE UNCHANGED <<users, user, stacked, loaded, value, at>>
        BY <1>0, <3>1, <4>1 DEF FunctionInv, Addressless, EmptyInv
      <4>2. CASE Call(Checker, "user_logoff", user[current].id, 0)
        <5>1. "user_logoff" \in Functions
          BY DEF Functions, Searchers
        <5>. QED BY <1>00, <1>3, <3>1, <4>2, <5>1
      <4>. QED BY <2>2, <4>1, <4>2 DEF Visit, dirVars, heap, history
    <3>. QED BY <1>0, <1>00, <3>2, <3>3, HandlerStays DEF QuietInv
  <2>. QED BY <1>6, <2>1, <2>2
<1>7. CASE UNCHANGED vars
  <2>1. \A w \in Workers : HandlerInv(w)'
    BY <1>0, <1>2, <1>7, HandlerStays DEF vars, dirVars, heap, history
  <2>. QED BY <1>00, <1>2, <1>7, <2>1 DEF QuietInv, vars, dirVars, heap, history
<1>. QED BY <1>1, <1>4, <1>5, <1>6, <1>7 DEF Next

\* The server never learns an address, whatever arrives and however its threads
\* meet: in an empty directory, which stays empty, nobody is found and no message
\* is confirmed, and in a loaded one nothing is sent but to the pointer that came
\* out of the file.  The first half lets Server reduce the handlers to their
\* duration.
THEOREM OnlySavedAddresses == Spec => []Quiet
<1>1. RingInv /\ QuietInv /\ answered \in BOOLEAN => Quiet
  BY DEF QuietInv, EmptyInv, Addressless, RingInv, Quiet
<1>2. Inv => answered \in BOOLEAN
  BY DEF Inv, HandlersTypeOK
<1>. QED BY <1>1, <1>2, InitInv, StepInv, RingInit, RingStep, QuietInit, QuietStep, PTL DEF Spec

-----------------------------------------------------------------------------
(* The contact lists.                                                      *)

\* Only the user that was read from the files can be found, so that only he has
\* contacts.
OwnerInv ==
  /\ DOMAIN contacts = Nodes
  /\ \A n \in Nodes : ~loaded \/ n # FirstNode => contacts[n] = <<>> /\ user[n].list = NULL
  /\ loaded => FirstNode \in allocated

\* The cells that begin with `first' are those of the sequence s.
Chain(s, first) ==
  /\ s \in Seq(Cells)
  /\ IsInjective(s)
  /\ first = IF s = <<>> THEN NULL ELSE s[1]
  /\ \A k \in 1 .. Len(s) : /\ s[k] \in allocated
                            /\ cell[s[k]].next = IF k = Len(s) THEN NULL ELSE s[k + 1]

\* An allocated cell that is not in s, and one that can be put at its end.
Apart(c, s) == c \in allocated /\ \A k \in 1 .. Len(s) : s[k] # c
New(c, s)   == Apart(c, s) /\ cell[c].next = NULL

\* How the pointers of a thread that changes the list s stand to it.
PlaceInv(a, s) ==
  /\ a.step = "first" => New(a.current, s) /\ s = <<>>
  /\ a.step = "walk" => New(a.current, s) /\ \E k \in 1 .. Len(s) : a.aux = s[k]
  /\ a.step = "append" => New(a.current, s) /\ s # <<>> /\ a.aux = s[Len(s)]
  /\ a.step = "scan" /\ a.aux # NULL =>
       \E k \in 1 .. Len(s) : a.aux = s[k] /\ a.current = s[IF k = 1 THEN 1 ELSE k - 1]
  /\ a.step = "release" => Apart(a.aux, s)

\* While the lists are sound one thread at most changes them.
OneChange == \A t, u \in Threads : Changing(t) /\ Changing(u) => t = u

ListInv == /\ OneChange
           /\ Chain(contacts[FirstNode], user[FirstNode].list)
           /\ \A t \in Threads : PlaceInv(at[t], contacts[FirstNode])

KeptInv == OwnerInv /\ (~spoiled => ListInv)

\* What RemoveFirst does to a sequence that has each contact once.
LEMMA RemoveOnly ==
  ASSUME NEW s \in Seq(Cells), NEW p \in 1 .. Len(s), IsInjective(s)
  PROVE  LET r == RemoveFirst(s, s[p]) IN
         /\ r \in Seq(Cells) /\ Len(r) = Len(s) - 1
         /\ \A k \in 1 .. Len(r) : r[k] = IF k < p THEN s[k] ELSE s[k + 1]
<1>. DEFINE before == SubSeq(s, 1, p - 1)  after == SubSeq(s, p + 1, Len(s))
<1>1. {i \in 1 .. Len(s) : s[i] = s[p]} = {p} /\ Min({p}) = p
  BY DEF Min, IsInjective
<1>2. SelectInSeq(s, LAMBDA v : v = s[p]) = p
  BY <1>1 DEF SelectInSeq
<1>3. RemoveFirst(s, s[p]) = before \o after
  BY <1>2 DEF RemoveFirst, RemoveAt
<1>4. /\ before \in Seq(Cells) /\ Len(before) = p - 1
      /\ \A k \in 1 .. p - 1 : before[k] = s[k]
  BY SubSeqProperties
<1>5. /\ after \in Seq(Cells) /\ Len(after) = Len(s) - p
      /\ \A k \in 1 .. Len(s) - p : after[k] = s[p + k]
  BY SubSeqProperties
<1>. HIDE DEF before, after
<1>. DEFINE r == before \o after
<1>6. /\ Len(r) = Len(before) + Len(after) /\ r \in Seq(Cells)
      /\ \A k \in 1 .. Len(before) + Len(after) :
           r[k] = IF k <= Len(before) THEN before[k] ELSE after[k - Len(before)]
  <2>1. before \in Seq(Cells) /\ after \in Seq(Cells)
    BY <1>4, <1>5
  <2>. QED BY <2>1, ConcatProperties
<1>. HIDE DEF r
<1>7. ASSUME NEW k \in 1 .. Len(r) PROVE r[k] = IF k < p THEN s[k] ELSE s[k + 1]
  <2>1. CASE k < p
    <3>1. k <= Len(before) /\ k \in 1 .. p - 1
      BY <1>4, <2>1
    <3>. QED BY <1>4, <1>6, <2>1, <3>1
  <2>2. CASE ~(k < p)
    <3>1. k - Len(before) = k - p + 1 /\ k - p + 1 \in 1 .. Len(s) - p /\ ~(k <= Len(before))
      BY <1>4, <1>5, <1>6, <2>2
    <3>2. after[k - p + 1] = s[p + (k - p + 1)] /\ p + (k - p + 1) = k + 1
      BY <1>5, <3>1
    <3>. QED BY <1>6, <2>2, <3>1, <3>2
  <2>. QED BY <2>1, <2>2
<1>8. r \in Seq(Cells) /\ Len(r) = Len(s) - 1
  BY <1>4, <1>5, <1>6
<1>9. r = RemoveFirst(s, s[p])
  BY <1>3 DEF r
<1>. QED BY <1>7, <1>8, <1>9

\* Both starts have it: the files leave no contact, one, or a ring of one.
LEMMA KeptInit == Init => KeptInv
<1>. SUFFICES ASSUME Init PROVE KeptInv
  OBVIOUS
<1>. USE DirectoryAssumption, HandlersAssumption DEF DirectoryAssumption, HandlersAssumption
<1>1. \A t \in Threads : at[t] = Out
  BY DEF Init, DirectoryInit
<1>2. OneChange /\ \A s : \A t \in Threads : PlaceInv(at[t], s)
  BY <1>1 DEF Out, OneChange, Changing, PlaceInv
<1>3. OwnerInv
  BY DEF Init, DirectoryInit, Empty, load_users, OwnerInv, Untouched, EmptyUser
<1>4. CASE contacts[FirstNode] = <<>> /\ user[FirstNode].list = NULL
  <2>1. Chain(<<>>, NULL)
    BY DEF Chain, IsInjective
  <2>. QED BY <1>2, <1>3, <1>4, <2>1 DEF KeptInv, ListInv
<1>5. CASE ~spoiled /\ ~(contacts[FirstNode] = <<>> /\ user[FirstNode].list = NULL)
  <2>1. /\ contacts[FirstNode] = <<FirstCell>> /\ user[FirstNode].list = FirstCell
        /\ FirstCell \in allocated /\ cell[FirstCell].next = NULL
    <3>1. load_users
      BY <1>5 DEF Init, DirectoryInit, Empty, Untouched, EmptyUser
    <3>2. PICK count \in 0 .. 2 :
            /\ user[FirstNode].list = load_user_list(count)
            /\ cell[FirstCell].next = LoadedNext(count)
            /\ contacts[FirstNode] = IF count > 0 THEN <<FirstCell>> ELSE <<>>
            /\ count = 2 => spoiled
      <4>1. PICK count \in 0 .. 2, status \in {0, 1}, x \in Ids, address \in {NoAddress, Wild} :
              /\ user = [[n \in Nodes |-> Untouched] EXCEPT
                          ![FirstNode] = [id |-> LoadedId, status |-> status, list |-> load_user_list(count),
                                          address |-> address, next |-> load_user(FirstNode)]]
              /\ cell = [[c \in Cells |-> EmptyCell] EXCEPT ![FirstCell] = [id |-> x, next |-> LoadedNext(count)]]
              /\ contacts = [n \in Nodes |-> IF n = FirstNode /\ count > 0 THEN <<FirstCell>> ELSE <<>>]
              /\ spoiled = (count = 2)
        BY <3>1, Zenon DEF load_users
      <4>2. user[FirstNode].list = load_user_list(count) /\ cell[FirstCell].next = LoadedNext(count)
        BY <4>1
      <4>3. contacts[FirstNode] = IF count > 0 THEN <<FirstCell>> ELSE <<>>
        BY <4>1
      <4>. QED BY <4>1, <4>2, <4>3
    <3>3. count = 1
      BY <1>5, <3>2 DEF load_user_list
    <3>. QED BY <3>1, <3>2, <3>3 DEF load_users, load_user_list, LoadedNext
  <2>2. Chain(<<FirstCell>>, FirstCell)
    <3>1. /\ <<FirstCell>> \in Seq(Cells) /\ Len(<<FirstCell>>) = 1 /\ <<FirstCell>>[1] = FirstCell
          /\ DOMAIN <<FirstCell>> = {1} /\ <<FirstCell>> # <<>>
      OBVIOUS
    <3>. QED BY <2>1, <3>1 DEF Chain, IsInjective
  <2>. QED BY <1>2, <1>3, <2>1, <2>2 DEF KeptInv, ListInv
<1>. QED BY <1>3, <1>4, <1>5 DEF KeptInv

\* A step after which one thread at most changes the list.
LEMMA AloneKeeps ==
  ASSUME NEW t \in Threads,
         \A u \in Threads \ {t} : at'[u] = at[u] /\ ~Changing(u),
         Chain(contacts[FirstNode], user[FirstNode].list)',
         PlaceInv(at[t], contacts[FirstNode])'
  PROVE  ListInv'
<1>1. OneChange'
  BY DEF OneChange, Changing
<1>2. ASSUME NEW u \in Threads \ {t} PROVE PlaceInv(at[u], contacts[FirstNode])'
  BY <1>2 DEF Changing, PlaceInv
<1>. QED BY <1>1, <1>2 DEF ListInv

\* A step that leaves the list alone, and its thread where it may be.
LEMMA PointersKeep ==
  ASSUME ListInv, NEW t \in Threads, UNCHANGED <<cell, allocated, contacts>>,
         user'[FirstNode].list = user[FirstNode].list,
         \A u \in Threads \ {t} : at'[u] = at[u],
         Changing(t)' => Changing(t) /\ PlaceInv(at'[t], contacts[FirstNode])
  PROVE  ListInv'
<1>1. OneChange'
  BY DEF ListInv, OneChange, Changing
<1>2. Chain(contacts[FirstNode], user[FirstNode].list)'
  BY DEF ListInv, Chain
<1>3. ASSUME NEW u \in Threads PROVE PlaceInv(at[u], contacts[FirstNode])'
  <2>1. CASE u = t /\ ~Changing(t)'
    BY <2>1 DEF PlaceInv, Changing
  <2>2. CASE u = t /\ Changing(t)'
    BY <2>2 DEF PlaceInv, Apart, New
  <2>3. CASE u # t
    BY <2>3 DEF ListInv, PlaceInv, Apart, New
  <2>. QED BY <2>1, <2>2, <2>3
<1>. QED BY <1>1, <1>2, <1>3 DEF ListInv

\* In an empty directory there is nothing to keep.
LEMMA EmptyKeeps == OwnerInv /\ EmptyInv /\ ~loaded => ListInv
<1>. SUFFICES ASSUME OwnerInv, EmptyInv, ~loaded PROVE ListInv
  OBVIOUS
<1>1. \A t \in Threads : ~Changing(t) /\ PlaceInv(at[t], contacts[FirstNode])
  BY DEF EmptyInv, Changing, PlaceInv
<1>2. Chain(<<>>, NULL)
  BY DEF Chain, IsInjective
<1>3. contacts[FirstNode] = <<>> /\ user[FirstNode].list = NULL
  BY DirectoryAssumption DEF DirectoryAssumption, OwnerInv
<1>. QED BY <1>1, <1>2, <1>3 DEF ListInv, OneChange

\* No step of data.c takes a contact from a list, or a pointer out of it, but by
\* removing the first one or while another thread changes the list too.  Nor does
\* it free a cell that is not allocated.
LEMMA KeptDirectory ==
  ASSUME HeapOK, RingInv, KeptInv, loaded, NEW t \in Threads, DirectoryStep(t)
  PROVE  KeptInv' /\ (Release(t) /\ ~spoiled => at[t].aux \in allocated)
<1>. USE DirectoryAssumption DEF DirectoryAssumption
<1>. DEFINE a == at[t]
            s == contacts[FirstNode]
<1>0. /\ at \in [Threads -> Locals] /\ user \in [Nodes -> Users] /\ cell \in [Cells -> Contacts]
      /\ a \in Locals
      /\ a.step \in {"walk", "append", "release"} => a.aux \in Cells
      /\ a.step \in {"first", "walk", "append"} => a.current \in Cells
      /\ a.step = "scan" /\ a.aux # NULL => a.current \in Cells
      /\ user[FirstNode] \in Users
  BY DEF HeapOK, PointerInv
<1>1. a.step # "out"
  BY DEF DirectoryStep, NextUser, NotFound, FoundLookup, CountUser, Register, FoundAdd, AddFirst,
         WalkContacts, AddLast, FoundRemove, ScanEnd, ScanContact, Unlink, Release, FoundLogoff,
         SearchUser, SearchContact, BufferUser, BufferEnd, AtNode, AtEnd
<1>2. a.user = FirstNode /\ Node(t) = user[FirstNode]
  BY <1>1 DEF RingInv, Node
<1>3. ~Register(t) /\ ~NotFound(t) /\ ~BufferEnd(t)
  BY <1>2 DEF Register, NotFound, BufferEnd, AtEnd
<1>4. OwnerInv
  BY DEF KeptInv
<1>12. ASSUME ~spoiled, Changing(t)
       PROVE  /\ Chain(s, user[FirstNode].list) /\ PlaceInv(a, s)
              /\ \A u \in Threads \ {t} : ~Changing(u)
  BY <1>12 DEF KeptInv, ListInv, OneChange
<1>17. Release(t) /\ ~spoiled => at[t].aux \in allocated
  BY <1>12 DEF Release, Changing, PlaceInv, Apart
<1>. SUFFICES KeptInv'
  BY <1>17
\* What all those that leave the list alone have in common.
<1>5. ASSUME UNCHANGED <<cell, allocated, contacts, loaded>>, spoiled' = spoiled,
             \A n \in Nodes : user'[n].list = user[n].list,
             \A u \in Threads \ {t} : at'[u] = at[u],
             ~spoiled /\ ListInv /\ Changing(t)' => Changing(t) /\ PlaceInv(at'[t], s)
      PROVE  KeptInv'
  <2>1. OwnerInv'
    BY <1>4, <1>5 DEF OwnerInv
  <2>2. ListInv /\ ~spoiled => ListInv'
    BY <1>5, PointersKeep
  <2>. QED BY <1>5, <2>1, <2>2 DEF KeptInv
<1>6. CASE NextUser(t) \/ CountUser(t) \/ BufferUser(t) \/ ScanEnd(t) \/ SearchUser(t) \/ SearchContact(t)
  <2>1. /\ UNCHANGED <<cell, allocated, contacts, loaded, user>> /\ spoiled' = spoiled
        /\ \A u \in Threads \ {t} : at'[u] = at[u]
    BY <1>0, <1>6 DEF NextUser, CountUser, BufferUser, ScanEnd, SearchUser, SearchContact, Returns, heap, history
  <2>2. at'[t].step \in {"find", "search", "change", "out"}
    BY <1>0, <1>6 DEF NextUser, CountUser, BufferUser, ScanEnd, SearchUser, SearchContact, AtNode, Returns,
                      Out, Locals
  <2>. QED BY <1>5, <2>1, <2>2 DEF Changing
<1>7. CASE FoundLookup(t) \/ FoundLogoff(t)
  <2>1. /\ UNCHANGED <<cell, allocated, contacts, loaded>> /\ spoiled' = spoiled
        /\ \A u \in Threads \ {t} : at'[u] = at[u]
        /\ at'[t].step \in {"out", "search"}
    <3>1. CASE FoundLookup(t)
      <4>1. at' = [at EXCEPT ![t] = Out]
        BY <3>1 DEF FoundLookup, Returns
      <4>. QED BY <1>0, <3>1, <4>1 DEF FoundLookup, history, Out
    <3>2. CASE FoundLogoff(t)
      BY <1>0, <3>2 DEF FoundLogoff, history, Locals
    <3>. QED BY <1>7, <3>1, <3>2
  <2>2. \A n \in Nodes : user'[n].list = user[n].list
    <3>1. CASE FoundLookup(t)
      <4>1. user' = [user EXCEPT ![FirstNode] = Looked(user[FirstNode], a.fn)]
        BY <1>2, <3>1 DEF FoundLookup
      <4>2. Looked(user[FirstNode], a.fn).list = user[FirstNode].list
        BY <1>0 DEF Looked, Users
      <4>. QED BY <1>0, <4>1, <4>2
    <3>2. CASE FoundLogoff(t)
      <4>. DEFINE off == [user[FirstNode] EXCEPT !.status = 0, !.address = Free(@)]
      <4>1. user' = [user EXCEPT ![FirstNode] = off]
        BY <1>2, <3>2 DEF FoundLogoff
      <4>2. off.list = user[FirstNode].list
        BY <1>0 DEF Users
      <4>. HIDE DEF off
      <4>. QED BY <1>0, <4>1, <4>2
    <3>. QED BY <1>7, <3>1, <3>2
  <2>. QED BY <1>5, <2>1, <2>2 DEF Changing
<1>8. CASE WalkContacts(t)
  <2>1. /\ UNCHANGED <<cell, allocated, contacts, loaded, user>> /\ spoiled' = spoiled
        /\ \A u \in Threads \ {t} : at'[u] = at[u]
    BY <1>0, <1>8 DEF WalkContacts, heap, history
  <2>2. ASSUME ListInv PROVE Changing(t) /\ PlaceInv(at'[t], s)
    <3>1. a.step = "walk" /\ New(a.current, s) /\ Chain(s, user[FirstNode].list)
      BY <1>8, <2>2 DEF WalkContacts, ListInv, PlaceInv
    <3>2. PICK k \in 1 .. Len(s) : a.aux = s[k]
      BY <2>2, <3>1 DEF ListInv, PlaceInv
    <3>3. s \in Seq(Cells) /\ cell[a.aux].next = IF k = Len(s) THEN NULL ELSE s[k + 1]
      BY <3>1, <3>2 DEF Chain
    <3>4. CASE k = Len(s)
      <4>1. at' = [at EXCEPT ![t].step = "append"]
        BY <1>8, <3>3, <3>4 DEF WalkContacts
      <4>2. at'[t].step = "append" /\ at'[t].current = a.current /\ at'[t].aux = s[Len(s)] /\ s # <<>>
        BY <1>0, <3>2, <3>3, <3>4, <4>1 DEF Locals
      <4>. QED BY <3>1, <4>2 DEF PlaceInv, Changing
    <3>5. CASE k # Len(s)
      <4>1. k + 1 \in 1 .. Len(s) /\ s[k + 1] \in Cells
        BY <3>3, <3>5
      <4>2. at' = [at EXCEPT ![t].aux = s[k + 1]]
        BY <1>8, <3>3, <3>5, <4>1 DEF WalkContacts
      <4>3. at'[t].step = "walk" /\ at'[t].current = a.current /\ at'[t].aux = s[k + 1]
        BY <1>0, <3>1, <4>2 DEF Locals
      <4>. QED BY <3>1, <4>1, <4>3 DEF PlaceInv, Changing
    <3>. QED BY <3>4, <3>5
  <2>. QED BY <1>5, <2>1, <2>2
<1>9. CASE ScanContact(t)
  <2>1. /\ UNCHANGED <<cell, allocated, contacts, loaded, user>> /\ spoiled' = spoiled
        /\ \A u \in Threads \ {t} : at'[u] = at[u]
        /\ at'[t].step = "scan" /\ at'[t].current = a.aux /\ at'[t].aux = cell[a.aux].next
    BY <1>0, <1>9 DEF ScanContact, heap, history, Locals
  <2>2. ASSUME ListInv PROVE Changing(t) /\ PlaceInv(at'[t], s)
    <3>1. a.step = "scan" /\ a.aux # NULL /\ Chain(s, user[FirstNode].list)
      BY <1>9, <2>2 DEF ScanContact, ListInv
    <3>2. PICK k \in 1 .. Len(s) : a.aux = s[k]
      BY <2>2, <3>1 DEF ListInv, PlaceInv
    <3>3. cell[a.aux].next = IF k = Len(s) THEN NULL ELSE s[k + 1]
      BY <3>1, <3>2 DEF Chain
    <3>4. k # Len(s) => k + 1 \in 1 .. Len(s) /\ k + 1 # 1 /\ (k + 1) - 1 = k
      BY <3>1 DEF Chain
    <3>. QED BY <2>1, <3>1, <3>2, <3>3, <3>4 DEF PlaceInv, Changing
  <2>. QED BY <1>5, <2>1, <2>2
\* A change begins.
<1>10. CASE FoundRemove(t)
  <2>1. /\ UNCHANGED <<cell, allocated, contacts, loaded, user>>
        /\ \A u \in Threads \ {t} : at'[u] = at[u]
        /\ at'[t].step = "scan" /\ at'[t].current = user[FirstNode].list /\ at'[t].aux = user[FirstNode].list
        /\ ~spoiled' => ~spoiled /\ ~Overlaps(t)
    BY <1>0, <1>2, <1>10 DEF FoundRemove, heap, Locals
  <2>2. OwnerInv'
    BY <1>4, <2>1 DEF OwnerInv
  <2>3. ASSUME ~spoiled' PROVE ListInv'
    <3>1. /\ Chain(s, user[FirstNode].list)
          /\ \A u \in Threads \ {t} : ~Changing(u)
      BY <2>1, <2>3 DEF KeptInv, ListInv, Overlaps
    <3>2. Chain(contacts[FirstNode], user[FirstNode].list)'
      BY <2>1, <3>1 DEF Chain
    <3>3. PlaceInv(at[t], contacts[FirstNode])'
      BY <2>1, <3>1 DEF PlaceInv, Chain
    <3>. QED BY <2>1, <3>1, <3>2, <3>3, AloneKeeps
  <2>. QED BY <2>2, <2>3 DEF KeptInv
<1>11. CASE FoundAdd(t)
  <2>1. PICK c \in FreeCells :
          /\ allocated' = allocated \cup {c}
          /\ cell' = [cell EXCEPT ![c] = [id |-> a.other, next |-> NULL]]
          /\ at' = [at EXCEPT ![t].step = IF Node(t).list = NULL THEN "first" ELSE "walk",
                              ![t].aux = Node(t).list, ![t].current = c]
    BY <1>11 DEF FoundAdd
  <2>2. /\ UNCHANGED <<contacts, loaded, user>>
        /\ \A u \in Threads \ {t} : at'[u] = at[u]
        /\ at'[t].step = (IF user[FirstNode].list = NULL THEN "first" ELSE "walk")
        /\ at'[t].current = c /\ at'[t].aux = user[FirstNode].list
        /\ ~spoiled' => ~spoiled /\ ~Overlaps(t)
    BY <1>0, <1>2, <1>11, <2>1 DEF FoundAdd, Locals
  <2>3. c \in Cells /\ c \notin allocated /\ c \in allocated'
    BY <2>1 DEF FreeCells
  <2>4. cell'[c].next = NULL /\ \A d \in Cells : d # c => cell'[d] = cell[d]
    BY <1>0, <2>1, <2>3
  <2>5. OwnerInv'
    BY <1>4, <2>1, <2>2 DEF OwnerInv
  <2>6. ASSUME ~spoiled' PROVE ListInv'
    <3>1. /\ Chain(s, user[FirstNode].list)
          /\ \A u \in Threads \ {t} : ~Changing(u)
      BY <2>2, <2>6 DEF KeptInv, ListInv, Overlaps
    <3>2. s \in Seq(Cells) /\ \A k \in 1 .. Len(s) : s[k] \in Cells /\ s[k] \in allocated /\ s[k] # c
      BY <2>3, <3>1 DEF Chain
    <3>3. Chain(contacts[FirstNode], user[FirstNode].list)'
      BY <2>1, <2>2, <2>4, <3>1, <3>2 DEF Chain
    <3>4. New(c, s)'
      BY <2>2, <2>3, <2>4, <3>2 DEF New, Apart
    <3>5. CASE s = <<>>
      <4>1. at'[t].step = "first"
        BY <2>2, <3>1, <3>5 DEF Chain
      <4>. QED BY <2>2, <3>1, <3>3, <3>4, <3>5, <4>1, AloneKeeps DEF PlaceInv
    <3>6. CASE s # <<>>
      <4>1. 1 \in 1 .. Len(s) /\ user[FirstNode].list = s[1] /\ s[1] # NULL
        BY <3>1, <3>2, <3>6 DEF Chain
      <4>2. at'[t].step = "walk" /\ at'[t].aux = s[1]
        BY <2>2, <4>1
      <4>3. PlaceInv(at[t], contacts[FirstNode])'
        BY <2>2, <3>4, <4>1, <4>2 DEF PlaceInv
      <4>. QED BY <2>2, <3>1, <3>3, <4>3, AloneKeeps
    <3>. QED BY <3>5, <3>6
  <2>. QED BY <2>5, <2>6 DEF KeptInv
\* It ends.
<1>13. CASE AddFirst(t)
  <2>1. /\ UNCHANGED <<cell, allocated, loaded>> /\ spoiled' = spoiled /\ a.step = "first" /\ at'[t] = Out
        /\ \A u \in Threads \ {t} : at'[u] = at[u]
        /\ contacts' = [contacts EXCEPT ![FirstNode] = Append(s, a.current)]
        /\ user' = [user EXCEPT ![FirstNode].list = a.current]
    BY <1>0, <1>2, <1>13 DEF AddFirst, Added, Returns
  <2>2. /\ \A n \in Nodes : user'[n].list = IF n = FirstNode THEN a.current ELSE user[n].list
        /\ DOMAIN contacts' = Nodes
        /\ \A n \in Nodes : contacts'[n] = IF n = FirstNode THEN Append(s, a.current) ELSE contacts[n]
    BY <1>0, <1>4, <2>1 DEF OwnerInv, Users
  <2>3. OwnerInv'
    BY <1>4, <2>1, <2>2 DEF OwnerInv
  <2>4. ASSUME ~spoiled PROVE ListInv'
    <3>1. New(a.current, s) /\ s = <<>> /\ \A u \in Threads \ {t} : ~Changing(u)
      BY <1>12, <2>1, <2>4 DEF PlaceInv, Changing
    <3>. DEFINE r == <<a.current>>
    <3>2. r \in Seq(Cells) /\ Len(r) = 1 /\ r[1] = a.current /\ DOMAIN r = {1} /\ r # <<>>
      BY <1>0, <2>1
    <3>3. contacts'[FirstNode] = r /\ user'[FirstNode].list = a.current
      BY <2>2, <3>1
    <3>. HIDE DEF r
    <3>4. Chain(contacts[FirstNode], user[FirstNode].list)'
      BY <2>1, <3>1, <3>2, <3>3 DEF Chain, IsInjective, New, Apart
    <3>5. PlaceInv(at[t], contacts[FirstNode])'
      BY <2>1 DEF PlaceInv, Out
    <3>. QED BY <2>1, <3>1, <3>4, <3>5, AloneKeeps
  <2>. QED BY <2>1, <2>3, <2>4 DEF KeptInv
<1>14. CASE AddLast(t)
  <2>1. /\ UNCHANGED <<user, allocated, loaded>> /\ spoiled' = spoiled /\ a.step = "append" /\ at'[t] = Out
        /\ \A u \in Threads \ {t} : at'[u] = at[u]
        /\ contacts' = [contacts EXCEPT ![FirstNode] = Append(s, a.current)]
        /\ cell' = [cell EXCEPT ![a.aux].next = a.current]
    BY <1>0, <1>2, <1>14 DEF AddLast, Added, Returns
  <2>2. /\ DOMAIN contacts' = Nodes
        /\ \A n \in Nodes : contacts'[n] = IF n = FirstNode THEN Append(s, a.current) ELSE contacts[n]
    BY <1>4, <2>1 DEF OwnerInv
  <2>3. \A c \in Cells : cell'[c].next = IF c = a.aux THEN a.current ELSE cell[c].next
    BY <1>0, <2>1 DEF Contacts
  <2>4. OwnerInv'
    BY <1>4, <2>1, <2>2 DEF OwnerInv
  <2>5. ASSUME ~spoiled PROVE ListInv'
    <3>1. /\ New(a.current, s) /\ s # <<>> /\ a.aux = s[Len(s)] /\ Chain(s, user[FirstNode].list)
          /\ \A u \in Threads \ {t} : ~Changing(u)
      BY <1>12, <2>1, <2>5 DEF PlaceInv, Changing
    <3>2. s \in Seq(Cells) /\ Len(s) \in Nat \ {0} /\ DOMAIN s = 1 .. Len(s)
      BY <3>1 DEF Chain
    <3>. DEFINE r == Append(s, a.current)
    <3>3. /\ r \in Seq(Cells) /\ Len(r) = Len(s) + 1 /\ DOMAIN r = 1 .. Len(s) + 1 /\ r # <<>>
          /\ r[Len(s) + 1] = a.current /\ \A k \in 1 .. Len(s) : r[k] = s[k]
      BY <1>0, <2>1, <3>2
    <3>4. contacts'[FirstNode] = r
      BY <2>2
    <3>. HIDE DEF r
    <3>5. IsInjective(r)
      <4>. SUFFICES ASSUME NEW i \in 1 .. Len(s) + 1, NEW j \in 1 .. Len(s) + 1, r[i] = r[j] PROVE i = j
        BY <3>3 DEF IsInjective
      <4>1. CASE i \in 1 .. Len(s) /\ j \in 1 .. Len(s)
        BY <3>1, <3>2, <3>3, <4>1 DEF IsInjective, Chain
      <4>2. CASE i = Len(s) + 1 \/ j = Len(s) + 1
        BY <3>1, <3>2, <3>3, <4>2 DEF New, Apart
      <4>. QED BY <3>2, <4>1, <4>2
    <3>6. user'[FirstNode].list = r[1]
      <4>1. user'[FirstNode].list = s[1] /\ 1 \in 1 .. Len(s)
        BY <2>1, <3>1, <3>2 DEF Chain
      <4>. QED BY <3>3, <4>1
    <3>7. ASSUME NEW k \in 1 .. Len(r)
          PROVE  r[k] \in allocated' /\ cell'[r[k]].next = IF k = Len(r) THEN NULL ELSE r[k + 1]
      <4>1. CASE k = Len(r)
        <5>1. r[k] = a.current /\ a.current # a.aux /\ a.current \in Cells
          <6>1. Len(s) \in 1 .. Len(s) /\ \A i \in 1 .. Len(s) : s[i] # a.current
            BY <3>1, <3>2 DEF New, Apart
          <6>. QED BY <1>0, <2>1, <3>1, <3>3, <4>1, <6>1
        <5>. QED BY <2>1, <2>3, <3>1, <4>1, <5>1 DEF New, Apart
      <4>2. CASE k = Len(s)
        <5>1. r[k] = a.aux /\ r[k + 1] = a.current /\ k # Len(r) /\ a.aux \in Cells /\ a.aux \in allocated
          BY <1>0, <2>1, <3>1, <3>2, <3>3, <4>2 DEF Chain
        <5>. QED BY <2>1, <2>3, <5>1
      <4>3. CASE k \in 1 .. Len(s) - 1
        <5>1. /\ k \in 1 .. Len(s) /\ k + 1 \in 1 .. Len(s) /\ k # Len(s) /\ k # Len(r) /\ Len(s) \in 1 .. Len(s)
          BY <3>2, <3>3, <4>3
        <5>2. /\ r[k] = s[k] /\ r[k + 1] = s[k + 1] /\ s[k] \in Cells
          BY <3>2, <3>3, <5>1
        <5>3. s[k] # a.aux
          BY <3>1, <3>2, <5>1 DEF Chain, IsInjective
        <5>4. s[k] \in allocated /\ cell[s[k]].next = s[k + 1]
          BY <3>1, <5>1 DEF Chain
        <5>. QED BY <2>1, <2>3, <5>1, <5>2, <5>3, <5>4
      <4>. QED BY <3>2, <3>3, <4>1, <4>2, <4>3
    <3>8. Chain(contacts[FirstNode], user[FirstNode].list)'
      BY <3>3, <3>4, <3>5, <3>6, <3>7 DEF Chain
    <3>9. PlaceInv(at[t], contacts[FirstNode])'
      BY <2>1 DEF PlaceInv, Out
    <3>. QED BY <2>1, <3>1, <3>8, <3>9, AloneKeeps
  <2>. QED BY <2>1, <2>4, <2>5 DEF KeptInv
<1>15. CASE Unlink(t)
  <2>. DEFINE r == RemoveFirst(s, a.aux)
  <2>1. /\ UNCHANGED <<allocated, loaded>> /\ a.step = "scan" /\ a.aux # NULL
        /\ \A u \in Threads \ {t} : at'[u] = at[u]
        /\ at'[t].step = "release" /\ at'[t].aux = a.aux
        /\ contacts' = [contacts EXCEPT ![FirstNode] = r]
        /\ cell' = [cell EXCEPT ![a.current].next = cell[a.aux].next]
        /\ user' = IF a.current = a.aux THEN [user EXCEPT ![FirstNode].list = a.current] ELSE user
        /\ ~spoiled' => ~spoiled /\ a.current # a.aux
    BY <1>0, <1>2, <1>15 DEF Unlink, Locals
  <2>2. /\ DOMAIN contacts' = Nodes
        /\ \A n \in Nodes : contacts'[n] = IF n = FirstNode THEN r ELSE contacts[n]
    BY <1>4, <2>1 DEF OwnerInv
  <2>3. \A c \in Cells : cell'[c].next = IF c = a.current THEN cell[a.aux].next ELSE cell[c].next
    BY <1>0, <2>1 DEF Contacts
  <2>4. \A n \in Nodes : n # FirstNode => user'[n].list = user[n].list
    BY <1>0, <2>1
  <2>5. OwnerInv'
    BY <1>4, <2>1, <2>2, <2>4 DEF OwnerInv
  <2>6. ASSUME ~spoiled' PROVE ListInv'
    <3>1. /\ Chain(s, user[FirstNode].list) /\ PlaceInv(a, s)
          /\ \A u \in Threads \ {t} : ~Changing(u)
      BY <1>12, <2>1, <2>6 DEF Changing
    <3>2. PICK p \in 1 .. Len(s) : a.aux = s[p] /\ a.current = s[IF p = 1 THEN 1 ELSE p - 1]
      BY <2>1, <3>1 DEF PlaceInv
    <3>3. s \in Seq(Cells) /\ IsInjective(s) /\ DOMAIN s = 1 .. Len(s) /\ Len(s) \in Nat
      BY <3>1 DEF Chain
    <3>4. p \in 2 .. Len(s) /\ a.current = s[p - 1] /\ p - 1 \in 1 .. Len(s)
      BY <2>1, <2>6, <3>2, <3>3
    <3>5. /\ r \in Seq(Cells) /\ Len(r) = Len(s) - 1
          /\ \A k \in 1 .. Len(r) : r[k] = IF k < p THEN s[k] ELSE s[k + 1]
      <4>1. r = RemoveFirst(s, s[p])
        BY <3>2
      <4>. HIDE DEF r
      <4>. QED BY <3>3, <4>1, RemoveOnly
    <3>. HIDE DEF r
    <3>6. DOMAIN r = 1 .. Len(r) /\ Len(r) \in Nat \ {0} /\ r # <<>>
      BY <3>3, <3>4, <3>5
    <3>. DEFINE old(k) == IF k < p THEN k ELSE k + 1
    <3>7. \A k \in 1 .. Len(r) : /\ old(k) \in 1 .. Len(s) /\ old(k) # p /\ r[k] = s[old(k)]
                                 /\ \A j \in 1 .. Len(r) : old(k) = old(j) => k = j
      BY <3>3, <3>4, <3>5
    <3>. HIDE DEF old
    <3>8. IsInjective(r)
      BY <3>3, <3>6, <3>7 DEF IsInjective
    <3>9. \A k \in 1 .. Len(r) : r[k] # a.aux
      <4>. SUFFICES ASSUME NEW k \in 1 .. Len(r), r[k] = a.aux PROVE FALSE
        OBVIOUS
      <4>1. s[old(k)] = s[p] /\ old(k) \in 1 .. Len(s) /\ old(k) # p
        BY <3>2, <3>7
      <4>. QED BY <3>3, <4>1 DEF IsInjective
    <3>10. user'[FirstNode].list = r[1]
      <4>1. user' = user /\ s # <<>> /\ 1 \in 1 .. Len(r) /\ 1 < p
        BY <2>1, <2>6, <3>3, <3>4, <3>6
      <4>. QED BY <3>1, <3>5, <4>1 DEF Chain
    <3>11. ASSUME NEW k \in 1 .. Len(r)
           PROVE  r[k] \in allocated' /\ cell'[r[k]].next = IF k = Len(r) THEN NULL ELSE r[k + 1]
      <4>1. r[k] \in allocated' /\ r[k] \in Cells
        <5>1. r[k] = s[old(k)] /\ old(k) \in 1 .. Len(s)
          BY <3>7
        <5>. QED BY <2>1, <3>1, <3>3, <5>1 DEF Chain
      <4>2. \A j \in 1 .. Len(s) : cell[s[j]].next = IF j = Len(s) THEN NULL ELSE s[j + 1]
        BY <3>1 DEF Chain
      <4>3. CASE k = p - 1
        <5>1. r[k] = a.current /\ cell'[r[k]].next = cell[s[p]].next
          BY <2>3, <3>2, <3>4, <3>5, <4>1, <4>3
        <5>2. k # Len(r) => r[k + 1] = s[p + 1]
          BY <3>3, <3>4, <3>5, <4>3
        <5>3. (k = Len(r) <=> p = Len(s)) /\ cell[s[p]].next = IF p = Len(s) THEN NULL ELSE s[p + 1]
          BY <3>3, <3>4, <3>5, <4>2, <4>3
        <5>. QED BY <4>1, <5>1, <5>2, <5>3
      <4>4. CASE k # p - 1
        <5>1. old(k) # p - 1 /\ (k # Len(r) => k + 1 \in 1 .. Len(r) /\ old(k + 1) = old(k) + 1)
              /\ (k = Len(r) => old(k) = Len(s)) /\ (k # Len(r) => old(k) # Len(s))
          <6>1. k \in Int /\ p \in Int /\ Len(s) \in Int /\ 1 <= k /\ k <= Len(s) - 1 /\ 2 <= p /\ p <= Len(s)
            BY <3>3, <3>4, <3>5
          <6>2. CASE k < p
            <7>1. old(k) = k /\ k + 1 < p /\ old(k + 1) = k + 1
              BY <4>4, <6>1, <6>2 DEF old
            <7>. QED BY <3>5, <4>4, <6>1, <7>1
          <6>3. CASE ~(k < p)
            <7>1. old(k) = k + 1 /\ old(k + 1) = (k + 1) + 1
              BY <6>1, <6>3 DEF old
            <7>. QED BY <3>5, <6>1, <6>3, <7>1
          <6>. QED BY <6>2, <6>3
        <5>2. r[k] # a.current
          BY <3>3, <3>4, <3>7, <5>1 DEF IsInjective
        <5>3. cell'[r[k]].next = cell[s[old(k)]].next
          BY <2>3, <3>7, <4>1, <5>2
        <5>4. k # Len(r) => r[k + 1] = s[old(k) + 1]
          BY <3>7, <5>1
        <5>5. cell[s[old(k)]].next = IF old(k) = Len(s) THEN NULL ELSE s[old(k) + 1]
          BY <3>7, <4>2
        <5>. QED BY <4>1, <5>1, <5>3, <5>4, <5>5
      <4>. QED BY <4>3, <4>4
    <3>12. contacts'[FirstNode] = r
      BY <2>2
    <3>13. Chain(contacts[FirstNode], user[FirstNode].list)'
      BY <3>5, <3>6, <3>8, <3>10, <3>11, <3>12 DEF Chain
    <3>14. PlaceInv(at[t], contacts[FirstNode])'
      <4>1. a.aux \in allocated'
        BY <2>1, <3>1, <3>2 DEF Chain
      <4>. QED BY <2>1, <3>9, <3>12, <4>1 DEF PlaceInv, Apart
    <3>. QED BY <2>1, <3>1, <3>13, <3>14, AloneKeeps
  <2>. QED BY <2>5, <2>6 DEF KeptInv
<1>16. CASE Release(t)
  <2>1. /\ UNCHANGED <<user, contacts, loaded>> /\ spoiled' = spoiled /\ a.step = "release" /\ at'[t] = Out
        /\ \A u \in Threads \ {t} : at'[u] = at[u]
        /\ allocated' = allocated \ {a.aux}
        /\ cell' = [cell EXCEPT ![a.aux].id = Garbage]
    BY <1>0, <1>16 DEF Release, Returns, history
  <2>2. \A c \in Cells : cell'[c].next = cell[c].next
    BY <1>0, <2>1 DEF Contacts
  <2>3. OwnerInv'
    BY <1>0, <1>4, <2>1 DEF OwnerInv
  <2>4. ASSUME ~spoiled PROVE ListInv'
    <3>1. /\ Chain(s, user[FirstNode].list) /\ Apart(a.aux, s)
          /\ \A u \in Threads \ {t} : ~Changing(u)
      BY <1>12, <2>1, <2>4 DEF PlaceInv, Changing
    <3>2. \A k \in 1 .. Len(s) : s[k] \in Cells
      BY <3>1 DEF Chain
    <3>3. Chain(contacts[FirstNode], user[FirstNode].list)'
      BY <2>1, <2>2, <3>1, <3>2 DEF Chain, Apart
    <3>4. PlaceInv(at[t], contacts[FirstNode])'
      BY <2>1 DEF PlaceInv, Out
    <3>. QED BY <2>1, <3>1, <3>3, <3>4, AloneKeeps
  <2>. QED BY <2>1, <2>3, <2>4 DEF KeptInv
<1>. QED
  BY <1>3, <1>6, <1>7, <1>8, <1>9, <1>10, <1>11, <1>13, <1>14, <1>15, <1>16 DEF DirectoryStep

\* No handler and not the checker change the contact lists but through data.c.
LEMMA KeptStep == Inv /\ RingInv /\ QuietInv /\ KeptInv /\ [Next]_vars => KeptInv'
<1>. SUFFICES ASSUME Inv, RingInv, QuietInv, KeptInv, [Next]_vars PROVE KeptInv'
  OBVIOUS
<1>. USE HandlersAssumption DEF HandlersAssumption
<1>0. /\ HeapOK /\ team \subseteq Threads
      /\ at \in [Threads -> Locals]
      /\ FunctionInv /\ EmptyInv /\ OwnerInv
      /\ \A w \in Workers : w \in Threads
      /\ Checker \in Threads
  BY InvSplit DEF QuietInv, KeptInv, HeapOK
<1>1. ASSUME NEW t \in team, InDirectory(t) PROVE KeptInv'
  <2>1. DirectoryStep(t) /\ t \in Threads /\ current' = current
    BY <1>0, <1>1 DEF InDirectory
  <2>2. CASE loaded
    BY <1>0, <2>1, <2>2, KeptDirectory
  <2>3. CASE ~loaded
    <3>1. EmptyInv' /\ ~loaded'
      BY <1>0, <2>1, <2>3, QuietDirectory
    <3>2. at[t].user = NULL /\ at[t].step \in {"out", "find"}
      BY <1>0, <2>1, <2>3 DEF EmptyInv
    <3>3. Register(t) \/ NotFound(t) \/ BufferEnd(t)
      BY <2>1, <3>2 DEF DirectoryStep, NextUser, FoundLookup, CountUser, FoundAdd, AddFirst, WalkContacts,
           AddLast, FoundRemove, ScanEnd, ScanContact, Unlink, Release, FoundLogoff, SearchUser,
           SearchContact, BufferUser, AtNode
    <3>4. contacts' = contacts /\ \A n \in Nodes : user[n].list = NULL => user'[n].list = NULL
      <4>1. CASE Register(t)
        <5>1. PICK n \in Nodes \ allocated, status \in {0, 1}, address \in {NoAddress, Wild} :
                user' = [user EXCEPT ![n] = [EmptyUser(status, address) EXCEPT !.id = at[t].other]]
          BY <4>1 DEF Register
        <5>. DEFINE new == [EmptyUser(status, address) EXCEPT !.id = at[t].other]
        <5>2. new.list = NULL /\ user' = [user EXCEPT ![n] = new]
          BY <5>1 DEF EmptyUser
        <5>. HIDE DEF new
        <5>3. \A m \in Nodes : user'[m] = IF m = n THEN new ELSE user[m]
          BY <1>0, <5>2 DEF HeapOK
        <5>. QED BY <4>1, <5>2, <5>3 DEF Register, history
      <4>2. CASE NotFound(t) \/ BufferEnd(t)
        BY <4>2 DEF NotFound, BufferEnd, heap, history
      <4>. QED BY <3>3, <4>1, <4>2
    <3>5. OwnerInv'
      BY <1>0, <2>3, <3>1, <3>4 DEF OwnerInv
    <3>6. OwnerInv' /\ EmptyInv' /\ ~loaded' => ListInv'
      BY EmptyKeeps, PTL
    <3>. QED BY <3>1, <3>5, <3>6 DEF KeptInv
  <2>. QED BY <2>2, <2>3
\* The others do no more than call a function.
<1>2. ASSUME UNCHANGED <<heap, history>>, NEW t \in Threads,
             at' = at \/ \E f, i, o : Call(t, f, i, o)
      PROVE  KeptInv'
  <2>1. UNCHANGED <<user, cell, allocated, loaded, contacts>> /\ spoiled' = spoiled
    BY <1>2 DEF heap, history
  <2>2. CASE at' = at
    BY <2>1, <2>2 DEF KeptInv, OwnerInv, ListInv, OneChange, Changing, Chain, PlaceInv, Apart, New
  <2>3. CASE \E f, i, o : Call(t, f, i, o)
    <3>1. ~Changing(t)' /\ \A u \in Threads \ {t} : at'[u] = at[u]
      BY <1>0, <2>3 DEF Call, Changing
    <3>2. ListInv => ListInv'
      BY <2>1, <3>1, PointersKeep
    <3>3. OwnerInv'
      BY <1>0, <2>1 DEF OwnerInv
    <3>. QED BY <2>1, <3>2, <3>3 DEF KeptInv
  <2>. QED BY <1>2, <2>2, <2>3
<1>3. ASSUME NEW w \in Workers, GetMessage(w) \/ HandlerStep(w) PROVE KeptInv'
  <2>1. UNCHANGED <<heap, history>> /\ (at' = at \/ \E f, i, o : Call(w, f, i, o))
    BY <1>3 DEF GetMessage, HandlerStep, CallFunction, Call, IfOne, Sendto, SendMessage, Access, Finish,
                dirVars
  <2>. QED BY <1>0, <1>2, <2>1
<1>4. ASSUME Wake \/ Visit PROVE KeptInv'
  <2>1. UNCHANGED <<heap, history>> /\ (at' = at \/ \E f, i, o : Call(Checker, f, i, o))
    BY <1>4 DEF Wake, Visit, Call, dirVars
  <2>. QED BY <1>0, <1>2, <2>1
<1>5. CASE UNCHANGED vars
  BY <1>0, <1>2, <1>5 DEF vars, dirVars
<1>. QED BY <1>1, <1>3, <1>4, <1>5 DEF Next

\* As long as no first contact is removed and no two changes overlap, each list is
\* what the calls that returned have made of it, whatever the other threads do
\* meanwhile: walking along it, logging its user off, or answering about him.
THEOREM ListsAreKept == Spec => []ContactsKept
<1>1. KeptInv => ContactsKept
  <2>. SUFFICES ASSUME KeptInv, ~spoiled, NEW n \in Nodes
                PROVE  Chain(contacts[n], user[n].list)
    BY DEF ContactsKept, Chain
  <2>1. CASE n = FirstNode
    BY <2>1 DEF KeptInv, ListInv
  <2>2. CASE n # FirstNode
    <3>1. Chain(<<>>, NULL)
      BY DEF Chain, IsInjective
    <3>. QED BY <2>2, <3>1 DEF KeptInv, OwnerInv
  <2>. QED BY <2>1, <2>2
<1>. QED BY <1>1, InitInv, StepInv, RingInit, RingStep, QuietInit, QuietStep, KeptInit, KeptStep, PTL DEF Spec

-----------------------------------------------------------------------------
(* The crashes.                                                            *)

\* What only the handlers of types 2 and 9 do, and may crash in.
SafeDeeds == Deeds \ {"store", "buildBuffer", "get_list_buffer"}

CrashInv ==
  /\ \A w \in Workers : message[w].type \notin {2, 9} =>
       at[w].fn # "get_list_buffer" /\ todo[w] \in Seq(SafeDeeds)
  /\ at[Checker].fn \in {"none", "user_logoff"}

\* The handlers of the other types.
LEMMA SafeHandlers == \A type \in (0 .. 9) \ {2, 9} : Handler(type) \in Seq(SafeDeeds)
<1>1. /\ Handler(0) = Acknowledge
      /\ Handler(1) = <<"user_login", "if">> \o Acknowledge
      /\ Handler(3) = Acknowledge \o <<"get_user_address", "sendMessage">>
      /\ Handler(4) = <<"add_user_list">>
      /\ Handler(5) = <<"remove_user_list", "if">> \o Acknowledge
      /\ Handler(6) = <<"get_list">> \o Acknowledge
      /\ Handler(7) = <<>>
      /\ Handler(8) = <<"user_logoff">> \o Acknowledge
  BY DEF Handler, messageTypes
<1>2. /\ Acknowledge \in Seq(SafeDeeds) /\ <<"get_user_address", "sendMessage">> \in Seq(SafeDeeds)
      /\ <<"user_login", "if">> \in Seq(SafeDeeds) /\ <<"add_user_list">> \in Seq(SafeDeeds)
      /\ <<"remove_user_list", "if">> \in Seq(SafeDeeds) /\ <<"get_list">> \in Seq(SafeDeeds)
      /\ <<>> \in Seq(SafeDeeds) /\ <<"user_logoff">> \in Seq(SafeDeeds)
  BY DEF Acknowledge, SafeDeeds, Deeds
<1>3. \A r, s \in Seq(SafeDeeds) : r \o s \in Seq(SafeDeeds)
  BY ConcatProperties
<1>4. \A type \in (0 .. 9) \ {2, 9} : type \in {0, 1, 3, 4, 5, 6, 7, 8}
  OBVIOUS
<1>5. /\ Handler(0) \in Seq(SafeDeeds) /\ Handler(1) \in Seq(SafeDeeds) /\ Handler(3) \in Seq(SafeDeeds)
      /\ Handler(4) \in Seq(SafeDeeds) /\ Handler(5) \in Seq(SafeDeeds) /\ Handler(6) \in Seq(SafeDeeds)
      /\ Handler(7) \in Seq(SafeDeeds) /\ Handler(8) \in Seq(SafeDeeds)
  BY <1>1, <1>2, <1>3
<1>. QED BY <1>4, <1>5

\* Both starts have it.
LEMMA CrashInit == Init => CrashInv
<1>. SUFFICES ASSUME Init PROVE CrashInv
  OBVIOUS
<1>1. /\ \A t \in Threads : at[t] = Out
      /\ \A w \in Workers : todo[w] = <<>>
  BY DEF Init, DirectoryInit
<1>2. Out.fn = "none" /\ <<>> \in Seq(SafeDeeds)
  BY DEF Out
<1>. QED BY <1>1, <1>2, HandlersAssumption DEF HandlersAssumption, CrashInv

\* A step of data.c crashes in get_list_buffer(), with an address that came out of
\* a file, or if it frees a cell twice.
LEMMA CrashDirectory ==
  ASSUME HeapOK, RingInv, KeptInv, Addressless, EmptyInv, NEW t \in Threads, DirectoryStep(t), running
  PROVE  running' \/ spoiled \/ at[t].fn = "get_list_buffer"
<1>. DEFINE a == at[t]
<1>0. at \in [Threads -> Locals] /\ a \in Locals
  BY DEF HeapOK
<1>1. CASE FoundLookup(t) \/ FoundLogoff(t)
  <2>1. a.step = "find" /\ a.user # NULL
    BY <1>1 DEF FoundLookup, FoundLogoff, AtNode
  <2>2. loaded /\ a.user = FirstNode
    BY <2>1 DEF EmptyInv, RingInv
  <2>3. Node(t).address = NoAddress
    BY <2>2 DEF Node, Addressless
  <2>. QED BY <1>1, <2>3 DEF FoundLookup, FoundLogoff, Survives
<1>2. CASE BufferUser(t)
  BY <1>2 DEF BufferUser, AtNode
<1>3. CASE Release(t)
  <2>1. loaded
    BY <1>3 DEF EmptyInv, Release
  <2>2. running' = (a.aux \in allocated)
    BY <1>3 DEF Release
  <2>. QED BY <1>3, <2>1, <2>2, KeptDirectory
<1>. QED BY <1>1, <1>2, <1>3
         DEF DirectoryStep, NextUser, NotFound, CountUser, Register, FoundAdd, AddFirst, WalkContacts,
             AddLast, FoundRemove, ScanEnd, ScanContact, Unlink, SearchUser, SearchContact, BufferEnd

\* A crash that is not one of the lists or of an address from a file.
LEMMA OtherCrash ==
  ASSUME RingInv,
         ~spoiled /\ Addressless => running' \/ \E w \in Workers : message[w].type \in {2, 9}
  PROVE  KnownCrash
BY DEF RingInv, Addressless, KnownCrash

\* A worker without a message of type 2 or 9 never comes to what may crash.
LEMMA CrashStep ==
  Inv /\ RingInv /\ QuietInv /\ KeptInv /\ CrashInv /\ [Next]_vars => CrashInv' /\ [KnownCrash]_vars
<1>. SUFFICES ASSUME Inv, RingInv, QuietInv, KeptInv, CrashInv, [Next]_vars
              PROVE  CrashInv' /\ [KnownCrash]_vars
  OBVIOUS
<1>. USE HandlersAssumption DEF HandlersAssumption
<1>. DEFINE Safe(w) == message[w].type \notin {2, 9} =>
                         at[w].fn # "get_list_buffer" /\ todo[w] \in Seq(SafeDeeds)
<1>0. /\ HeapOK /\ team \subseteq Threads
      /\ at \in [Threads -> Locals]
      /\ message \in [Workers -> Incoming \cup {NoMessage}]
      /\ DOMAIN todo = Workers
      /\ EmptyInv
      /\ \A w \in Workers : Safe(w)
      /\ at[Checker].fn \in {"none", "user_logoff"}
      /\ \A w \in Workers : w \in Threads /\ w # Checker
      /\ Checker \in Threads
  BY InvSplit DEF QuietInv, HeapOK, CrashInv
<1>1. ASSUME running, NEW t \in team, InDirectory(t) PROVE CrashInv' /\ KnownCrash
  <2>1. DirectoryStep(t) /\ t \in Threads /\ UNCHANGED <<message, todo, current>>
    BY <1>0, <1>1 DEF InDirectory
  <2>2. Addressless => running' \/ spoiled \/ at[t].fn = "get_list_buffer"
    BY <1>0, <1>1, <2>1, CrashDirectory
  <2>3. at'[t].fn \in {at[t].fn, "none"} /\ \A u \in Threads \ {t} : at'[u] = at[u]
    BY <1>0, <2>1, QuietDirectory DEF QuietInv
  <2>4. \A w \in Workers : Safe(w)'
    BY <1>0, <2>1, <2>3
  <2>5. at'[Checker].fn \in {"none", "user_logoff"}
    BY <1>0, <2>3
  <2>6. KnownCrash
    <3>1. at[t].fn = "get_list_buffer" => t \in Workers /\ message[t].type \in {2, 9}
      BY <1>0, <2>1
    <3>. QED BY <2>2, <3>1, OtherCrash
  <2>. QED BY <2>4, <2>5, <2>6 DEF CrashInv
<1>2. ASSUME running, NEW w \in Workers, GetMessage(w) PROVE CrashInv' /\ KnownCrash
  <2>1. PICK m \in Incoming : /\ message' = [message EXCEPT ![w] = m]
                              /\ todo' = [todo EXCEPT ![w] = Handler(m.type)]
    BY <1>2 DEF GetMessage
  <2>2. at' = at /\ running' /\ ~Busy(w)
    BY <1>2 DEF GetMessage, dirVars
  <2>3. m.type \in 0 .. 9
    BY DEF Incoming
  <2>4. m.type \notin {2, 9} => Handler(m.type) \in Seq(SafeDeeds)
    BY <2>3, SafeHandlers
  <2>5. at[w].fn # "get_list_buffer"
    BY <1>0, <2>2 DEF Busy, NoMessage
  <2>6. \A u \in Workers : Safe(u)'
    BY <1>0, <2>1, <2>2, <2>4, <2>5
  <2>. QED BY <1>0, <2>2, <2>6 DEF CrashInv, KnownCrash
<1>3. ASSUME running, NEW w \in Workers, HandlerStep(w) PROVE CrashInv' /\ KnownCrash
  <2>1. /\ todo[w] # <<>> => Head(todo[w]) = todo[w][1]
        /\ todo[w] # <<>> /\ todo[w] \in Seq(SafeDeeds) =>
             Tail(todo[w]) \in Seq(SafeDeeds) /\ Head(todo[w]) \in SafeDeeds
    BY <1>0, ChainedTail DEF QuietInv, HandlerInv
  <2>2. /\ \A u \in Workers \ {w} : message'[u] = message[u] /\ todo'[u] = todo[u]
        /\ \A u \in Threads \ {w} : at'[u] = at[u]
    <3>1. /\ message' = message \/ message' = [message EXCEPT ![w] = NoMessage]
          /\ todo' = todo \/ \E s : todo' = [todo EXCEPT ![w] = s]
          /\ at' = at \/ \E r : at' = [at EXCEPT ![w] = r]
      BY <1>3 DEF HandlerStep, CallFunction, Call, IfOne, Sendto, SendMessage, Access, Finish, Done, dirVars
    <3>. QED BY <1>0, <3>1
  <2>3. Safe(w)'
    <3>1. CASE CallFunction(w)
      <4>. DEFINE f == Head(todo[w])
                  i == Argument(w)
                  o == IF f = "user_register" THEN 0 ELSE message[w].other
      <4>1. /\ Call(w, f, i, o) /\ todo[w] # <<>> /\ message' = message
            /\ todo' = [todo EXCEPT ![w] = Tail(todo[w])]
        BY <3>1 DEF CallFunction, Doing, Done
      <4>2. at'[w].fn = f
        BY <1>0, <4>1 DEF Call
      <4>3. todo'[w] = Tail(todo[w])
        BY <1>0, <4>1
      <4>4. f \in SafeDeeds => f # "get_list_buffer"
        BY DEF SafeDeeds
      <4>. HIDE DEF f, i, o
      <4>. QED BY <1>0, <2>1, <4>1, <4>2, <4>3, <4>4 DEF f
    <3>2. CASE IfOne(w) \/ Sendto(w) \/ SendMessage(w) \/ Access(w)
      <4>1. message' = message /\ at' = at /\ todo[w] # <<>> /\ todo'[w] \in {<<>>, Tail(todo[w])}
        BY <1>0, <3>2 DEF IfOne, Sendto, SendMessage, Access, Done, Doing, dirVars
      <4>2. <<>> \in Seq(SafeDeeds)
        OBVIOUS
      <4>. QED BY <1>0, <2>1, <4>1, <4>2
    <3>3. CASE Finish(w)
      <4>1. at[w].fn # "get_list_buffer" /\ at' = at /\ todo'[w] = <<>>
        BY <3>3 DEF Finish, Outside
      <4>. QED BY <4>1
    <3>. QED BY <1>3, <3>1, <3>2, <3>3 DEF HandlerStep
  <2>4. KnownCrash
    <3>1. CASE Access(w)
      <4>1. todo[w] # <<>> /\ Head(todo[w]) \notin SafeDeeds
        BY <3>1 DEF Access, Doing, SafeDeeds
      <4>2. message[w].type \in {2, 9}
        BY <1>0, <2>1, <4>1
      <4>. QED BY <4>2 DEF KnownCrash
    <3>2. CASE SendMessage(w)
      <4>1. todo[w] # <<>> /\ todo[w][1] \in Sends /\ Outside(w)
        BY <2>1, <3>2 DEF SendMessage, Doing, Sends
      <4>2. Addressless => value[w] = NoAddress
        BY <4>1 DEF QuietInv, HandlerInv
      <4>3. Addressless => running'
        BY <3>2, <4>2 DEF SendMessage
      <4>. QED BY <4>3, OtherCrash
    <3>3. CASE ~Access(w) /\ ~SendMessage(w)
      <4>1. running'
        BY <1>3, <3>3 DEF HandlerStep, CallFunction, Call, IfOne, Sendto, Finish, dirVars
      <4>. QED BY <4>1 DEF KnownCrash
    <3>. QED BY <3>1, <3>2, <3>3
  <2>5. \A u \in Workers : Safe(u)'
    BY <1>0, <2>2, <2>3
  <2>6. at'[Checker] = at[Checker]
    BY <1>0, <2>2
  <2>. QED BY <1>0, <2>4, <2>5, <2>6 DEF CrashInv
<1>4. ASSUME running, Wake \/ Visit PROVE CrashInv' /\ KnownCrash
  <2>1. UNCHANGED <<message, todo>>
    BY <1>4 DEF Wake, Visit
  <2>2. at' = at \/ \E i : Call(Checker, "user_logoff", i, 0)
    BY <1>4 DEF Wake, Visit, dirVars
  <2>3. at'[Checker].fn \in {"none", "user_logoff"} /\ \A w \in Workers : at'[w] = at[w]
    BY <1>0, <2>2 DEF Call
  <2>4. Addressless => running'
    <3>1. CASE Wake
      BY <1>4, <3>1 DEF Wake, dirVars
    <3>2. CASE Visit
      <4>1. loaded /\ current = FirstNode
        BY <1>0, <3>2 DEF Visit, EmptyInv, RingInv
      <4>. QED BY <1>4, <3>2, <4>1 DEF Visit, Call, Addressless, dirVars
    <3>. QED BY <1>4, <3>1, <3>2
  <2>. QED BY <1>0, <2>1, <2>3, <2>4, OtherCrash DEF CrashInv
<1>5. CASE UNCHANGED vars
  BY <1>5 DEF vars, dirVars, CrashInv
<1>. QED BY <1>1, <1>2, <1>3, <1>4, <1>5 DEF Next

\* While the lists are sound and the user of the file has no address, what crashes
\* the process is a message of type 2, whose handler writes through an
\* uninitialised pointer, or of type 9, whose handler reads through NULL: no contact
\* is freed twice, however threads interleave.
THEOREM OnlyKnownCrashes == Spec => CrashesKnown
<1>1. Inv /\ RingInv /\ QuietInv /\ KeptInv /\ CrashInv /\ [Next]_vars => [KnownCrash]_vars
  BY CrashStep
<1>. QED BY <1>1, InitInv, StepInv, RingInit, RingStep, QuietInit, QuietStep, KeptInit, KeptStep,
            CrashInit, CrashStep, PTL DEF Spec, CrashesKnown
=============================================================================
