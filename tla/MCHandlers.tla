---------------------------- MODULE MCHandlers ----------------------------
(* Small instances of Handlers for TLC. *)
EXTENDS Handlers

CONSTANTS w1, w2, checker, n1, n2, c1, c2, c3

\* Bound: of the starts, those that differ in what the threads read.  Only the
\* checker looks at `status', nobody at a contact that is in no list, and the
\* functions that walk along contacts do not look at the address: one start in
\* which the file has both is enough.
Starts ==
  received = 0 /\ loaded =>
    /\ checker \notin team => user[FirstNode].status = 0
    /\ user[FirstNode].list = NULL => cell[FirstCell].id = LoadedId
    /\ user[FirstNode].address # NoAddress =>
         user[FirstNode].list # NULL /\ cell[FirstCell].next = NULL /\ cell[FirstCell].id = LoadedId
=============================================================================
