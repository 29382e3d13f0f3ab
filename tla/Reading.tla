-------------------------------- MODULE Reading --------------------------------
(***************************************************************************)
(* How the command-line client and the MCP adapter read a terminal: the    *)
(* retained text of one session and its change notification                *)
(* (terminal_control.rs), the server's wait for output and its run-command *)
(* operation (external_control/service/terminal.rs), and the client's      *)
(* follow loop (terminal_cli/follow.rs).  TerminalOutput has the positions *)
(* of the same text; here the characters count, since a marker is searched *)
(* among them.                                                             *)
(***************************************************************************)
EXTENDS Integers, Sequences, FiniteSets

CONSTANTS
  Chars,         \* the characters data decodes to
  Pieces,        \* what a piece of data may decode to
  Marker,        \* the text a follower or a waiter looks for
  Retained,      \* output_limit
  MaxChars,      \* max_chars of every read
  MaxTotal,      \* --max-total-chars
  MaxText        \* bound: characters the session produces

ASSUME ReadingAssumption ==
  /\ Pieces \subseteq Seq(Chars)
  /\ Marker \in Seq(Chars) \ {<<>>}
  /\ {Retained, MaxChars, MaxTotal} \subseteq Nat \ {0}

VARIABLES
  text,       \* every character decoded so far
  dropped,    \* dropped_chars
  connected,  \* the status of the session
  marked,     \* history: how much there was when the status was published
  due,        \* a writer has unlocked the sessions and not notified yet
  wait,       \* wait_for_terminal_output
  client      \* the client's request, and all it has written out

sessionVars == <<text, dropped, connected, marked, due>>
readingVars == <<sessionVars, wait, client>>

Nothing == <<>>      \* no --until and no --contains
NoCursor == -1       \* no --cursor

Smaller(x, y) == IF x <= y THEN x ELSE y
Larger(x, y) == IF x >= y THEN x ELSE y
Newest(s, n) == SubSeq(s, Larger(Len(s) - n, 0) + 1, Len(s))

\* Where `find` first sees the marker in s: the end of it, 0 when nowhere.
EndsOf(marker, s) ==
  {i \in Len(marker)..Len(s) : SubSeq(s, i - Len(marker) + 1, i) = marker}
FirstEnd(marker, s) ==
  IF marker = Nothing \/ EndsOf(marker, s) = {} THEN 0
  ELSE CHOOSE i \in EndsOf(marker, s) : \A j \in EndsOf(marker, s) : i <= j

\* The snapshot of the newest n characters.
Snapshot(n) == [start |-> Len(text) - n, output |-> Newest(text, n)]
ReadRecent == Snapshot(Smaller(MaxChars, Len(text) - dropped))
ReadDelta(from) ==
  Snapshot(Smaller(MaxChars, Len(text) - Larger(from, dropped)))

NoWait == [pc |-> "none", from |-> 0, needle |-> Nothing,
           notified |-> FALSE, expired |-> FALSE, snap |-> [start |-> 0, output |-> <<>>],
           ok |-> FALSE]

\* The client, before it asks for anything.
Idle == [job |-> "none", pc |-> "idle", origin |-> NoCursor, cursor |-> NoCursor,
         until |-> Nothing, emitted |-> 0, tail |-> <<>>, finish |-> FALSE,
         shown |-> <<>>, reason |-> "none"]

InitReading ==
  /\ text = <<>> /\ dropped = 0
  /\ connected = TRUE /\ marked = 0 /\ due = FALSE
  /\ wait = NoWait
  /\ client = Idle
-----------------------------------------------------------------------------
(* The session *)

\* append_output: the notification follows after the lock is given back.
AppendOutput(piece) ==
  /\ Len(text) + Len(piece) <= MaxText
  /\ text' = text \o piece
  /\ dropped' = Larger(dropped, Len(text') - Retained)
  /\ due' = TRUE
  /\ UNCHANGED <<connected, marked, wait, client>>

\* mark_disconnected.  What the transport still holds may follow (see SshIo).
MarkDisconnected ==
  /\ connected
  /\ connected' = FALSE
  /\ marked' = Len(text)
  /\ due' = TRUE
  /\ UNCHANGED <<text, dropped, wait, client>>

\* notify_waiters: wakes the futures that exist, polled or not.
NotifyWaiters ==
  /\ due
  /\ due' = FALSE
  /\ wait' = [wait EXCEPT !.notified = wait.pc \in {"read", "status", "asleep"}]
  /\ UNCHANGED <<text, dropped, connected, marked, client>>
-----------------------------------------------------------------------------
(* wait_for_terminal_output *)

StartWait(from, needle) ==
  [NoWait EXCEPT !.pc = "arm", !.from = from, !.needle = needle]

Answer(ok) == [wait EXCEPT !.pc = "answered", !.ok = ok]

Matches(needle, output) ==
  IF needle = Nothing THEN output # <<>> ELSE EndsOf(needle, output) # {}

\* output_change_notified, before anything is read.
WaitArm ==
  /\ wait.pc = "arm"
  /\ wait' = [wait EXCEPT !.pc = "read", !.notified = FALSE]
  /\ UNCHANGED <<sessionVars, client>>

WaitRead ==
  /\ wait.pc = "read"
  /\ IF wait.from > Len(text)
     THEN wait' = Answer(FALSE)
     ELSE LET snap == ReadDelta(wait.from)
          IN  wait' = IF Matches(wait.needle, snap.output)
                      THEN [Answer(TRUE) EXCEPT !.snap = snap]
                      ELSE [wait EXCEPT !.pc = "status", !.snap = snap]
  /\ UNCHANGED <<sessionVars, client>>

\* Mutant of WaitStatus: the future is made when it is about to be awaited.
WaitStatusArms ==
  /\ wait.pc = "status"
  /\ wait' = CASE ~connected -> Answer(FALSE)
               [] connected /\ wait.expired -> Answer(TRUE)
               [] OTHER -> [wait EXCEPT !.pc = "asleep", !.notified = FALSE]
  /\ UNCHANGED <<sessionVars, client>>

\* The session_info check and the deadline check, then the sleep.
WaitStatus ==
  /\ wait.pc = "status"
  /\ wait' = CASE ~connected -> Answer(FALSE)
               [] connected /\ wait.expired -> Answer(TRUE)
               [] OTHER -> [wait EXCEPT !.pc = "asleep"]
  /\ UNCHANGED <<sessionVars, client>>

\* The deadline of the wait passes.
WaitExpires ==
  /\ wait.pc \in {"arm", "read", "status", "asleep"}
  /\ ~wait.expired
  /\ wait' = [wait EXCEPT !.expired = TRUE]
  /\ UNCHANGED <<sessionVars, client>>

WaitWakes ==
  /\ wait.pc = "asleep"
  /\ wait.notified \/ wait.expired
  /\ wait' = [wait EXCEPT !.pc = "arm"]
  /\ UNCHANGED <<sessionVars, client>>
-----------------------------------------------------------------------------
(* One request: read_terminal_output Wait, and run_terminal_command *)

AskWait(cursor, needle) ==
  /\ client.pc = "idle"
  /\ client' = [client EXCEPT !.job = "wait", !.pc = "waiting"]
  /\ wait' = StartWait(IF cursor = NoCursor THEN Len(text) ELSE cursor, needle)
  /\ UNCHANGED sessionVars

\* The cursor is taken before the command is sent.
AskCommand(needle) ==
  /\ client.pc = "idle"
  /\ client' = [client EXCEPT !.job = "command", !.pc = "send",
                              !.origin = Len(text), !.until = needle]
  /\ UNCHANGED <<sessionVars, wait>>

\* send_terminal_input_to_runtime, which the transport may refuse.
SendCommand ==
  /\ client.pc = "send"
  /\ \/ /\ connected
        /\ client' = [client EXCEPT !.pc = "waiting"]
        /\ wait' = StartWait(client.origin, client.until)
     \/ /\ client' = [client EXCEPT !.pc = "done", !.reason = "error"]
        /\ UNCHANGED wait
  /\ UNCHANGED sessionVars

\* The answer to a wait; a command settles and reads once more, and reports
\* that reading beside what the wait has found.
Finish(reason) == [client EXCEPT !.pc = "done", !.reason = reason]

WaitAnswered ==
  /\ client.job \in {"wait", "command"} /\ client.pc = "waiting"
  /\ wait.pc = "answered"
  /\ client' = CASE ~wait.ok -> Finish("error")
                 [] wait.ok /\ client.job = "wait" -> Finish("answered")
                 [] OTHER -> [client EXCEPT !.pc = "settling"]
  /\ wait' = NoWait
  /\ UNCHANGED sessionVars

CommandReads ==
  /\ client.pc = "settling"
  /\ LET snap == ReadDelta(client.origin)
     IN  client' = [Finish("answered") EXCEPT
                      !.cursor = snap.start + Len(snap.output)]
  /\ UNCHANGED <<sessionVars, wait>>
-----------------------------------------------------------------------------
(* run_follow *)

AskFollow(cursor, until) ==
  /\ client.pc = "idle"
  /\ client' = [client EXCEPT !.job = "follow", !.until = until,
                              !.origin = cursor, !.cursor = cursor,
                              !.pc = IF cursor = NoCursor THEN "recent" ELSE "delta"]
  /\ UNCHANGED <<sessionVars, wait>>

\* Mutant of TailAfter: the text before a gap is joined to the text after it.
TailKept(c, snap) == c.tail

\* The end of what was shown, as long as nothing was missed since.
TailAfter(c, snap) ==
  IF c.cursor # NoCursor /\ snap.start > c.cursor THEN <<>> ELSE c.tail

\* process_output: the client after a snapshot; reason is "none" to go on.
Processed(c, snap) ==
  LET tail == TailAfter(c, snap)
      missed == c.cursor # NoCursor /\ snap.start > c.cursor
      found == FirstEnd(c.until, tail \o snap.output)
      room == Smaller(Len(snap.output), MaxTotal - c.emitted)
      size == IF found = 0 THEN room ELSE Smaller(room, Larger(found - Len(tail), 0))
      end == snap.start + size
      gap == [kind |-> "gap", from |-> c.cursor, upto |-> snap.start, text |-> <<>>]
      output == [kind |-> "output", from |-> snap.start, upto |-> end,
                 text |-> SubSeq(snap.output, 1, size)]
  IN  [c EXCEPT
        !.cursor = end,
        !.emitted = @ + size,
        !.tail = IF c.until = Nothing THEN <<>>
                 ELSE Newest(tail \o output.text, Len(c.until) - 1),
        !.shown = @ \o (IF missed THEN <<gap>> ELSE <<>>)
                    \o (IF size > 0 THEN <<output>> ELSE <<>>),
        !.reason = CASE found # 0 /\ found - Len(tail) <= size -> "matched"
                     [] OTHER -> IF c.emitted + size = MaxTotal
                                 THEN "output_limit" ELSE "none"]

\* After a chunk: the end, the end of a drained session, or its status next.
AfterChunk(c) ==
  CASE c.reason # "none" -> [c EXCEPT !.pc = "done"]
    [] c.reason = "none" /\ c.finish -> [c EXCEPT !.pc = "done", !.reason = "disconnected"]
    [] OTHER -> [c EXCEPT !.pc = "list"]

\* A Recent or Delta call.
FollowRead ==
  /\ client.pc \in {"recent", "delta"}
  /\ client' =
       IF client.pc = "delta" /\ client.cursor > Len(text) THEN Finish("error")
       ELSE AfterChunk(Processed(client, IF client.pc = "recent" THEN ReadRecent
                                         ELSE ReadDelta(client.cursor)))
  /\ UNCHANGED <<sessionVars, wait>>

\* The answer to a Wait call; an error is looked into.
FollowWaited ==
  /\ client.job = "follow" /\ client.pc = "waiting"
  /\ wait.pc = "answered"
  /\ client' = IF wait.ok THEN AfterChunk(Processed(client, wait.snap))
               ELSE [client EXCEPT !.pc = "list_after_error"]
  /\ wait' = NoWait
  /\ UNCHANGED sessionVars

Drain == [client EXCEPT !.pc = "delta", !.finish = TRUE]

\* ListTerminalSessions after a chunk.
FollowList ==
  /\ client.pc = "list"
  /\ IF connected
     THEN /\ client' = [client EXCEPT !.pc = "waiting"]
          /\ wait' = StartWait(client.cursor, Nothing)
     ELSE /\ client' = Drain
          /\ UNCHANGED wait
  /\ UNCHANGED sessionVars

\* ListTerminalSessions after a wait that failed.
FollowListAfterError ==
  /\ client.pc = "list_after_error"
  /\ client' = IF connected THEN Finish("error") ELSE Drain
  /\ UNCHANGED <<sessionVars, wait>>

InCall == client.job = "follow" /\ client.pc \in
            {"recent", "delta", "waiting", "list", "list_after_error"}

\* guarded_call: Ctrl-C or the deadline come before an answer.
FollowStops(reason) ==
  /\ InCall
  /\ reason \in {"interrupted", "duration_limit"}
  /\ client' = Finish(IF client.pc = "list_after_error" /\ reason = "duration_limit"
                      THEN "error" ELSE reason)
  /\ wait' = NoWait
  /\ UNCHANGED sessionVars

\* The control plane fails a call.
FollowCallFails ==
  /\ InCall
  /\ client' = IF client.pc = "waiting" THEN [client EXCEPT !.pc = "list_after_error"]
               ELSE Finish("error")
  /\ wait' = NoWait
  /\ UNCHANGED sessionVars

ReadingNext ==
  \/ \E piece \in Pieces : AppendOutput(piece)
  \/ MarkDisconnected
  \/ NotifyWaiters
  \/ WaitArm \/ WaitRead \/ WaitStatus \/ WaitExpires \/ WaitWakes
  \/ \E cursor \in {NoCursor} \cup 0..(Len(text) + 1), needle \in {Nothing, Marker} :
       AskWait(cursor, needle)
  \/ \E needle \in {Nothing, Marker} : AskCommand(needle)
  \/ SendCommand \/ WaitAnswered \/ CommandReads
  \/ \E cursor \in {NoCursor} \cup 0..(Len(text) + 1), until \in {Nothing, Marker} :
       AskFollow(cursor, until)
  \/ FollowRead \/ FollowWaited \/ FollowList \/ FollowListAfterError
  \/ \E reason \in {"interrupted", "duration_limit"} : FollowStops(reason)
  \/ FollowCallFails
-----------------------------------------------------------------------------
(* Properties *)

\* Every event begins where the one before it ended, the first one where the
\* client asked; a gap is followed by output; output is the session's text.
Tiles ==
  LET shown == client.shown
  IN  \A i \in DOMAIN shown :
        /\ shown[i].from < shown[i].upto
        /\ i > 1 => shown[i].from = shown[i - 1].upto
        /\ i = 1 /\ client.origin # NoCursor => shown[i].from = client.origin
        /\ i = Len(shown) => shown[i].kind = "output" /\ shown[i].upto = client.cursor
        /\ shown[i].kind = "gap" => shown[i + 1].kind = "output"
        /\ shown[i].kind = "output" =>
             shown[i].text = SubSeq(text, shown[i].from + 1, shown[i].upto)

\* The positions where the marker has been shown whole, with nothing missed
\* inside it.
MarkersShown ==
  {i \in 1..Len(text) :
     /\ i \in EndsOf(Marker, text)
     /\ \A j \in (i - Len(Marker) + 1)..i :
          \E k \in DOMAIN client.shown :
             client.shown[k].kind = "output" /\ j \in (client.shown[k].from + 1)..client.shown[k].upto}

\* What follow has written accounts for the session: no character is repeated,
\* skipped without a gap or made up; it stops on the marker exactly, at its
\* first whole appearance, wherever reads cut it; and a follow that ends because
\* the session did has accounted for all there was when the status was published
\* (CLI_GUIDE.en.md:249, 253-256).
FollowAccounts ==
  client.job = "follow" =>
    /\ Tiles
    /\ client.emitted <= MaxTotal
    /\ client.until # Nothing =>
         MarkersShown = IF client.reason = "matched" THEN {client.cursor} ELSE {}
    /\ client.reason = "disconnected" => client.cursor >= marked

\* A wait that sleeps with no notification on its way has nothing to wake for:
\* nothing matches, and the session is connected.
WaiterAwake ==
  wait.pc = "asleep" /\ ~wait.notified /\ ~due =>
    /\ connected
    /\ ~Matches(wait.needle, ReadDelta(wait.from).output)
=============================================================================
