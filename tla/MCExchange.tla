----------------------------- MODULE MCExchange -----------------------------
(* Small instances of Exchange for TLC. *)
EXTENDS Exchange

CONSTANTS login, register, send

\* The addressee of what sendMsgType1() and sendMsgType2() send (sendmsg.c:39, 68).
SameTo == [r \in Requests |-> 0]

\* Logins and registrations have the identifier 0 (sendmsg.c:41, 70).
SomeId == [r \in Requests |-> IF r = send THEN 1 ELSE 0]

\* Messages forwarded by the server: one that no request is taken for, one that
\* looks like the acknowledge of the third.
Forwarded == {<<1, 0>>, <<0, 1>>}
=============================================================================
