---------------------------- MODULE MCSshConnect ----------------------------
(* Model checking of SshConnect. *)
EXTENDS SshConnect

CONSTANTS a1, a2, k1, k2

\* Each attempt's jump host is the other one's target.
CrossJump == [a \in Attempt |-> IF a = a1 THEN k1 ELSE k2]
CrossTarget == [a \in Attempt |-> IF a = a1 THEN k2 ELSE k1]
=============================================================================
