-------------------------- MODULE MCThreadBalance --------------------------
(* ThreadBalance with the thresholds of server.h. *)
EXTENDS ThreadBalance

\* Both sides of every threshold of every pool size, on a machine with 3 CPUs.
EdgeSizes ==
  LET Near(n) == {n - 1, n, n + 1}
  IN  {0} \cup UNION {Near(10 * k) : k \in 1 .. 6}
          \cup UNION {Near(50 * k) : k \in 1 .. 7}
          \cup UNION {Near(51 * k) : k \in 1 .. 6}
          \cup UNION {Near(101 * k) : k \in 1 .. 3}
=============================================================================
