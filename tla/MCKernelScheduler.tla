------------------------- MODULE MCKernelScheduler -------------------------
(* Small instances of KernelScheduler for TLC.                               *)
EXTENDS KernelScheduler, TLC

CONSTANTS s1, s2,          \* sessions
          a1, a2, b1,      \* submitted requests of s1, s1 and s2
          w1,              \* an injected wake for s1, urgent as inject_turn's are
          l1,              \* an injected lifecycle message for s1
          g1               \* a gate on s1

MCSession == [u \in Users |-> IF u = b1 THEN s2 ELSE s1]
MCPriority == [r \in Requests |-> IF r \in Injects THEN -1 ELSE 0]
=============================================================================
