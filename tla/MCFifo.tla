------------------------------ MODULE MCFifo ------------------------------
(* Small instances of FifoClients for TLC. *)
EXTENDS FifoClients, TLC

Symmetry == Permutations(Threads) \cup Permutations(Messages)
=============================================================================
