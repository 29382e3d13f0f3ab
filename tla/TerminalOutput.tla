--------------------------- MODULE TerminalOutput ---------------------------
(***************************************************************************)
(* The retained output of one session, TerminalSession of                  *)
(* terminal_control.rs: the decoded characters it has produced so far and  *)
(* the tail of them that it keeps.  Text is its position: a character is   *)
(* the number of those before it.                                          *)
(***************************************************************************)
EXTENDS Integers

CONSTANTS
  Chunk,            \* how many characters a piece of data may decode to
  Limits,           \* output limits the settings may ask for
  RestoreMaxChars   \* the most characters a view asks for

\* RESTORE_MAX_CHARS is MAX_OUTPUT_LIMIT: a read is never cut by its own limit.
ASSUME OutputAssumption ==
  /\ Chunk \subseteq Nat
  /\ Limits \subseteq Nat \ {0}
  /\ RestoreMaxChars \in Nat
  /\ \A l \in Limits : l <= RestoreMaxChars

VARIABLES
  cursor,    \* characters produced
  dropped,   \* the first of them, which are not retained any more
  limit      \* output_limit

outputVars == <<cursor, dropped, limit>>

Least(x, y) == IF x <= y THEN x ELSE y
Greatest(x, y) == IF x >= y THEN x ELSE y

TypeOutput ==
  /\ cursor \in Nat
  /\ dropped \in 0..cursor
  /\ limit \in Limits

InitOutput == cursor = 0 /\ dropped = 0 /\ limit \in Limits

\* append_output: decode, advance, trim to the limit of this moment.
AppendOutput(n) ==
  /\ cursor' = cursor + n
  /\ dropped' = Greatest(dropped, cursor + n - limit)
  /\ UNCHANGED limit

\* set_output_limit; the tail is trimmed by the next append.
SetOutputLimit(l) ==
  /\ l # limit
  /\ limit' = l
  /\ UNCHANGED <<cursor, dropped>>

\* read_output.
ReadOutput ==
  LET size == Least(RestoreMaxChars, cursor - dropped)
  IN  [start |-> cursor - size, cursor |-> cursor,
       truncated |-> dropped > 0 \/ size < cursor - dropped]

\* read_output_delta, of a cursor that is not past the end.
ReadOutputDelta(from) ==
  LET rest == cursor - Greatest(from, dropped)
      size == Least(RestoreMaxChars, rest)
  IN  [start |-> cursor - size, cursor |-> cursor,
       truncated |-> from < dropped \/ size < rest]
=============================================================================
