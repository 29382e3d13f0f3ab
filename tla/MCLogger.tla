------------------------------ MODULE MCLogger ------------------------------
(* An instance of Logger for TLC: session s1 does everything; session s2   *)
(* has an automatic log in the display format, from before the first       *)
(* output of s1, and no tab, so no operations of its own.                  *)
EXTENDS Logger, FiniteSets, TLC

CONSTANTS
  s1, s2, o1, o2, f1, f2,
  MaxOutput,   \* bound: characters of both sessions together
  MaxRows      \* bound: rows of the history

Symmetry == Permutations(File) \cup Permutations(Op)

Bounded ==
  /\ cursor[s1] + cursor[s2] <= MaxOutput
  /\ cursor[s2] <= 1
  /\ Active(s2) => log[s2].display
  /\ status[s2] \in {"absent", "connected"} /\ auto[s2] # NoFile /\ tab[s2] = "none"
  /\ cursor[s1] > 0 /\ ~exited => Active(s2) \/ status[s2] = "absent"
  /\ Cardinality(history) <= MaxRows
=============================================================================
