-------------------------- MODULE MCSerialSession --------------------------
(* Instances of SerialSession for TLC, with the budgets of WriteTiming. *)
EXTENDS WriteTiming

CONSTANTS c1, c2

\* A short and a long budget of a chunk.
Budgets == {1, 2}

\* Every low rate, and common ones that stay within TLC's integers.
Bauds == (1..60) \union {75, 110, 300, 1200, 9600, 57600}
=============================================================================
