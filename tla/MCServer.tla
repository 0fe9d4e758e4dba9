------------------------------ MODULE MCServer ------------------------------
(* Server on machines with one and two CPUs. *)
EXTENDS Server, TLC

CONSTANTS main, checker, r1, r2, w1, w2, w3, w4

OneCpuThreads == {main, checker, r1, w1, w2}
OneCpuReceivers == <<r1>>
OneCpuWorkers == <<w1, w2>>

TwoCpuThreads == {main, checker, r1, r2, w1, w2, w3, w4}
TwoCpuReceivers == <<r1, r2>>
TwoCpuWorkers == <<w1, w2, w3, w4>>

\* A server that has not begun to shut down.
Serving == ~Finishing

MessageSymmetry == Permutations(Messages)
=============================================================================
