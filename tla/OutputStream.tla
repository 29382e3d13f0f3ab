---------------------------- MODULE OutputStream ----------------------------
(***************************************************************************)
(* What one view of a terminal promises about the output of its session:   *)
(* every character at most once and in order, and none skipped but those   *)
(* that the backend no longer retains (the restoration section of          *)
(* ARCHITECTURE.md, for terminalOutputSyncController.ts over               *)
(* terminal_control.rs).  A character is the number of those before it.    *)
(***************************************************************************)
EXTENDS Integers, Sequences

VARIABLES
  produced,   \* characters the session has produced
  lost,       \* the first of them, which are not retained any more
  shown       \* the characters the view has written, in the order written

vars == <<produced, lost, shown>>

Init == produced = 0 /\ lost = 0 /\ shown = <<>>

\* The session produces characters, and retention gives up the oldest.
Produce ==
  /\ produced' \in Nat /\ produced' >= produced
  /\ lost' \in lost..produced'
  /\ UNCHANGED shown

\* The characters from "from" on, before "to".
Run(from, to) == [i \in 1..(to - from) |-> from + i - 1]

\* "from" is what comes next: the first character, the one after the last, or
\* the first that is retained.
MayFollow(from) ==
  shown # <<>> =>
    LET next == shown[Len(shown)] + 1
    IN  from = next \/ (next < from /\ from <= lost)

\* The view writes the next characters.
Show ==
  /\ \E from \in 0..produced : \E to \in (from + 1)..produced :
       /\ MayFollow(from)
       /\ shown' = shown \o Run(from, to)
  /\ UNCHANGED <<produced, lost>>

Next == Produce \/ Show

Spec == Init /\ [][Next]_vars
=============================================================================
