------------------------------ MODULE MCClient ------------------------------
(* Small instances of Client for TLC. *)
EXTENDS Client

CONSTANTS ui, login1, login2, register, send, add, list, remove, logoff

\* The numbers in the uninitialised fields are such that some requests can be
\* taken for others: the new contact for a login, the list for the removal.
MCType == [r \in Requests |->
  CASE r \in {login1, login2} -> 1 [] r = register -> 2 [] r = send -> 3 [] r = add -> 4
    [] r = remove -> 5 [] r = list -> 6 [] r = logoff -> 8]
MCTo == [r \in Requests |-> IF r = send THEN 1 ELSE 0]
MCId == [r \in Requests |-> CASE r \in {login1, login2, register, add} -> 0 [] OTHER -> 1]

MCUserIds == {IntOf(1)}
MCReplies == {<<>>, IntOf(0), IntOf(1)}
NoOthers == {}

\* A message that looks like the acknowledge of a login, and one like none.
MCOthers == {<<0, 0>>, <<2, 0>>}
=============================================================================
