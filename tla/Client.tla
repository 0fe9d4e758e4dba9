------------------------------- MODULE Client -------------------------------
(***************************************************************************)
(* The client: the keys that client.c reads, one after the other, and the  *)
(* commands of sendmsg.c that they start, over sendMessage() (Exchange)    *)
(* and over what becomes of an acknowledge on its way (Wire).              *)
(*                                                                         *)
(* A request stands for one call of sendMsgType...(), with its `to' and    *)
(* `messageId'; where the code does not set them, they are what the stack  *)
(* held.  What the user types is of no consequence, but for the user ID.   *)
(*                                                                         *)
(* Of the undefined behaviour of the code, what ends the process in some   *)
(* builds is a choice between a crash and nothing: free() of an array on   *)
(* the stack or of an uninitialised pointer once a request is acknowledged,*)
(* memcpy() from an uninitialised pointer or from a number, strcat() to an *)
(* uninitialised block, and printing myID as a string.                     *)
(***************************************************************************)
EXTENDS Exchange, Wire

CONSTANTS
  Type,        \* the type of each request
  UserIds,     \* the numbers typed as user IDs
  Replies,     \* the arguments with which the peer may acknowledge a request
  Junk         \* what a byte that was never written may hold

NoReply == <<-1>>   \* no sequence of bytes

ASSUME ClientAssumption ==
  /\ Processes = {"client"}
  /\ Type \in [Requests -> {1, 2, 3, 4, 5, 6, 8}]
  /\ \A r \in Requests : Type[r] \in {1, 2} => To[r] = 0 /\ Id[r] = 0
  /\ UserIds \subseteq Int4
  /\ Replies \subseteq Seq(Byte)
  /\ Junk \subseteq Byte

VARIABLES
  pc,         \* where the client is: waiting for a key, or for a command
  crashed,    \* undefined behaviour has ended it
  status,     \* 'N' off line, 'Y' on line
  myID,       \* an unsigned int
  userList,   \* create_UserList() has been called, so varUserList is not NULL
  from,       \* the field `from' of each request sent
  reply       \* the arguments of the acknowledge that each login accepted

uiVars     == <<pc, crashed, status, myID, userList, from, reply>>
clientVars == <<vars, uiVars>>

ClientInit ==
  /\ Init
  /\ pc = "keys"
  /\ crashed = FALSE
  /\ status = "N"
  /\ myID = IntOf(0)
  /\ userList = FALSE
  /\ from = [r \in Requests |-> IntOf(0)]
  /\ reply = [r \in Requests |-> NoReply]

-----------------------------------------------------------------------------
(* sendmsg.c.                                                              *)

\* sendMsgType...(): a request of that type, from the user `id'.
Sends(type, id, label) ==
  /\ SendTo(Ui)
  /\ Type[request'[Ui]] = type
  /\ from' = [from EXCEPT ![request'[Ui]] = id]
  /\ pc' = label

Current == request[Ui]
Acknowledged   == result[Current] = "acked"

\* sendMessage() has returned to the command that is at `label'.
Returned(label) == pc = label /\ stage[Ui] = "out"

Acknowledge(arguments) ==
  [header |-> [type |-> 7, sequence |-> 0, argumentsSize |-> Len(arguments), crc16 |-> 0],
   arguments |-> arguments]

\* The int that sendMsgType1() and sendMsgType2() copy out of an acknowledge.
Answers(arguments) ==
  {FirstInt(receiveMessage(Packet(buildBuffer(Acknowledge(arguments), junk, 0)), <<>>).arguments,
            [k \in 1 .. 4 |-> rest]) : junk \in Junk, rest \in Junk}

\* Bound: a request of that type is left.
Left(type) == \E r \in Requests : Type[r] = type /\ result[r] = "unsent"

\* What ends the process in some builds.
Undefined(when) == crashed' \in IF when THEN BOOLEAN ELSE {FALSE}

-----------------------------------------------------------------------------
(* F2: login_user().                                                       *)

PressF2 ==
  /\ pc = "keys" /\ status = "N"
  /\ \E id \in UserIds : Sends(1, id, "login")
  /\ UNCHANGED <<crashed, status, myID, userList, reply>>

\* Fault: what is kept as the user ID is the arguments, whatever their size.
LoginReturns_Raw ==
  /\ Returned("login") /\ Acknowledged
  /\ Undefined(TRUE)
  /\ \E a \in Replies :
       /\ reply' = [reply EXCEPT ![Current] = a]
       /\ myID' = a
  /\ status' = "Y"
  /\ pc' = "keys"
  /\ UNCHANGED <<vars, from, userList>>

\* Fault: a login that was not answered is sent again.
LoginReturns_Retries ==
  /\ Returned("login")
  /\ result[Current] = "failed"
  /\ result' = [result EXCEPT ![Current] = "unsent"]
  /\ pc' = "keys"
  /\ UNCHANGED <<process, inbox, arrived, stage, request, answer, queued, discarded, failed>>
  /\ UNCHANGED <<crashed, status, myID, userList, from, reply>>

LoginReturns ==
  /\ Returned("login")
  /\ Undefined(Acknowledged)
  /\ \/ /\ ~Acknowledged
        /\ status' = "N"
        /\ UNCHANGED <<myID, userList, reply>>
     \/ /\ Acknowledged
        /\ \E a \in Replies : \E value \in Answers(a) :
             /\ reply' = [reply EXCEPT ![Current] = a]
             /\ \/ /\ value = IntOf(1)
                   /\ status' = "Y"
                   /\ myID' = from[Current]
                   /\ userList' = TRUE
                \/ /\ value # IntOf(1)
                   /\ status' = "N"
                   /\ UNCHANGED <<myID, userList>>
  /\ pc' = "keys"
  /\ UNCHANGED <<vars, from>>

-----------------------------------------------------------------------------
(* F3: new_user().                                                         *)

\* Fault: F3 is accepted on line, too.
PressF3_Anytime ==
  /\ pc = "keys"
  /\ Left(1)
  /\ Sends(2, IntOf(0), "register")
  /\ Undefined(TRUE)
  /\ UNCHANGED <<status, myID, userList, reply>>

PressF3 ==
  /\ pc = "keys" /\ status = "N"
  /\ Left(1)
  /\ Sends(2, IntOf(0), "register")
  /\ Undefined(TRUE)
  /\ UNCHANGED <<status, myID, userList, reply>>

RegisterReturns ==
  /\ Returned("register")
  /\ \/ /\ ~Acknowledged
        /\ myID' = IntOf(0)
     \/ /\ Acknowledged
        /\ \E a \in Replies : myID' \in Answers(a)
  /\ pc' = IF myID' = IntOf(0) THEN "keys" ELSE "confirm"
  /\ UNCHANGED <<vars, crashed, status, userList, from, reply>>

ConfirmSends ==
  /\ pc = "confirm"
  /\ Sends(1, myID, "confirming")
  /\ UNCHANGED <<crashed, status, myID, userList, reply>>

\* What sendMsgType1() returns is not looked at, and there is no list of users.
ConfirmReturns ==
  /\ Returned("confirming")
  /\ Undefined(TRUE)
  /\ IF Acknowledged THEN \E a \in Replies : reply' = [reply EXCEPT ![Current] = a]
              ELSE UNCHANGED reply
  /\ status' = "Y"
  /\ pc' = "keys"
  /\ UNCHANGED <<vars, myID, userList, from>>

-----------------------------------------------------------------------------
(* F4, F5 and F7, which read keys of their own; F6; F9.                    *)

Opens(label) ==
  /\ pc = "keys" /\ status = "Y"
  /\ pc' = label
  /\ UNCHANGED <<vars, crashed, status, myID, userList, from, reply>>

Closes(label) ==
  /\ pc = label
  /\ pc' = "keys"
  /\ UNCHANGED <<vars, crashed, status, myID, userList, from, reply>>

PressF4 == Opens("choose")
PressF5 == Opens("view")
PressF7 == Opens("browse")
Escape  == Closes("view")

\* A menu that was never made has no current item, and atoi() gets NULL.
NoItem(label) ==
  /\ pc = label /\ ~userList
  /\ crashed' = TRUE
  /\ UNCHANGED <<vars, pc, status, myID, userList, from, reply>>

\* Enter in F4: new_message().
ChooseUser ==
  \/ /\ pc = "choose" /\ userList
     /\ Sends(3, myID, "sending")
     /\ UNCHANGED <<crashed, status, myID, userList, reply>>
  \/ NoItem("choose")

\* Any key but Enter in F7: delete_user(), whatever the key did to the menu.
Browse ==
  \/ /\ pc = "browse" /\ userList
     /\ Sends(5, myID, "removing")
     /\ Undefined(TRUE)
     /\ UNCHANGED <<status, myID, userList, reply>>
  \/ NoItem("browse")

StopBrowsing == Closes("browse")

\* add_user(), which asks for the list when the new contact is acknowledged.
PressF6 ==
  /\ pc = "keys" /\ status = "Y"
  /\ Left(6)
  /\ Sends(4, myID, "adding")
  /\ Undefined(TRUE)
  /\ UNCHANGED <<status, myID, userList, reply>>

FetchList ==
  /\ pc = "fetch"
  /\ Sends(6, myID, "fetching")
  /\ Undefined(TRUE)
  /\ UNCHANGED <<status, myID, userList, reply>>

\* The log-off is sent whether the user is on line or not.
PressF9 ==
  /\ pc = "keys"
  /\ Sends(8, myID, "leaving")
  /\ Undefined(TRUE)
  /\ UNCHANGED <<status, myID, userList, reply>>

After(label) ==
  CASE label = "adding"   -> IF Acknowledged THEN "fetch" ELSE "keys"
    [] label = "removing" -> "browse"
    [] label = "leaving"  -> "done"
    [] OTHER              -> "keys"

CommandDone(label) ==
  /\ Returned(label)
  /\ Undefined(Acknowledged)
  /\ pc' = After(label)
  /\ UNCHANGED <<vars, status, myID, userList, from, reply>>

-----------------------------------------------------------------------------
\* What the client does without a key.
Proceeds ==
  \/ SenderStep(Ui) /\ UNCHANGED uiVars
  \/ LoginReturns
  \/ RegisterReturns
  \/ ConfirmSends
  \/ ConfirmReturns
  \/ FetchList
  \/ \E label \in {"sending", "adding", "fetching", "removing", "leaving"} : CommandDone(label)

ReadsKey ==
  \/ PressF2 \/ PressF3 \/ PressF4 \/ PressF5 \/ PressF6 \/ PressF7 \/ PressF9
  \/ ChooseUser \/ Escape \/ Browse \/ StopBrowsing

ClientNext ==
  /\ ~crashed
  /\ \/ (Arrive \/ SelectInterrupted(Ui)) /\ UNCHANGED uiVars
     \/ Proceeds
     \/ ReadsKey

ClientSpec == ClientInit /\ [][ClientNext]_clientVars

\* The client runs; no key has to be pressed and nothing has to arrive.
ClientFairSpec == ClientSpec /\ WF_clientVars(~crashed /\ Proceeds)

-----------------------------------------------------------------------------
(* Properties.                                                             *)

Sending == {"login", "register", "confirming", "sending", "adding", "fetching", "removing", "leaving"}

ClientTypeOK ==
  /\ pc \in Sending \cup {"keys", "confirm", "choose", "view", "browse", "fetch", "done"}
  /\ crashed \in BOOLEAN
  /\ status \in {"N", "Y"}
  /\ myID \in Int4
  /\ userList \in BOOLEAN
  /\ from \in [Requests -> Int4]
  /\ reply \in [Requests -> Replies \cup {NoReply}]

\* One key at a time and the guards on `status' (client.c:52-149): who is on line
\* stays on line, as the same user, until the end.
IdentityKept == [][status = "Y" => status' = "Y" /\ myID' = myID]_clientVars

\* A login that the server answers with 1, "confirmacao = 1" (client.c:296), never
\* puts the client on line: the answer arrives shifted by a byte (message.c:39).
OneIsRefused ==
  [][pc = "login" /\ status' # status => reply'[Current] # IntOf(1)]_clientVars

\* What ends a command: its own acknowledge; one of the same identifier for a
\* request that had already returned, so that it came late or twice; or an ordinary
\* message with the two numbers that message.c:122 compares.
EndedByOwnOrPast ==
  \A r \in Requests : result[r] = "acked" =>
    \/ answer[r] = r
    \/ /\ answer[r] \in Requests
       /\ Id[answer[r]] = Id[r]
       /\ result[answer[r]] \in {"failed", "acked"}
    \/ answer[r] = Ordinary /\ <<To[r], Id[r]>> \in Others

\* The client uses the socket as Exchange says, so what holds there holds here.
ImplementsExchange == Spec

\* Every command returns to the keys, or leaves the program, whatever the network
\* does, unless the client is stuck in recvfrom() or down.
CommandReturns ==
  pc \in Sending \cup {"confirm", "fetch"} ~>
    (pc \in {"keys", "browse", "done"} \/ crashed \/ [](Robbed(Ui)))

\* "Caso confirmacao = 1, o usuario passa para o estado ON-LINE, caso contrario
\* continua em OFF-LINE" (client.c:296-297): who is on line as myID has been told
\* so, in the answer to a login as myID.
OnlineIsConfirmed ==
  status = "Y" =>
    \E r \in Requests :
      Type[r] = 1 /\ from[r] = myID /\ answer[r] = r /\ reply[r] = IntOf(1)
=============================================================================
