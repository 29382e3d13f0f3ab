------------------------------- MODULE Logger -------------------------------
(***************************************************************************)
(* Terminal logging: the capture of a session's output at its reception,   *)
(* the manual operations serialized per session, automatic logs, the       *)
(* history of logs and its deletion, and the flush before the program ends *)
(* (src-tauri/src/logger.rs, logger/operations.rs, app_exit.rs).           *)
(*                                                                         *)
(* A file is kept as what each session has put in it, so that how the      *)
(* lines of two sessions in one file interleave is left out, and so are    *)
(* headers.  A character is its position in the output of its session.     *)
(* The sanitizer is kept to what it holds back: in the display format an   *)
(* unfinished line.                                                        *)
(***************************************************************************)
EXTENDS Naturals, Sequences, Functions

CONSTANTS
  Session,       \* terminal sessions
  File,          \* log files
  NoFile,
  Op,            \* manual operations under way at once, of any window or client
  NoSession,
  LineEnd,       \* the positions whose character ends a line
  MaxChars,      \* bound: characters a session outputs
  MaxFailures    \* bound: writes that fail

ASSUME LoggerAssumption ==
  /\ NoFile \notin File /\ NoSession \notin Session
  /\ "due" \notin File \cup {NoFile}
  /\ LineEnd \subseteq Nat
  /\ MaxChars \in Nat /\ MaxFailures \in Nat

VARIABLES
  status,    \* the session: "absent", "connected", "marked" by its teardown, "closed"
  cursor,    \* characters output so far
  tab,       \* "none" until the session's tab is registered, then "shown"
  flags,     \* what the tab shows of the log
  auto,      \* the automatic start, before the tab: "due" or what it returned
  log,       \* the active log with its capture (LoggerState.sessions and captures)
  content,   \* what each session has in each file, nothing when it does not exist
  exists,    \* the files that exist
  history,   \* the rows of index.json
  readable,  \* index.json has not been cut off by a failed write
  ops,       \* the operations under way
  failures,  \* writes that have failed
  exited,    \* the program has ended
  due,       \* history: what of each session's output each file owes its reader
  torn       \* history: <<f, s>> once a failed write has left a part of s in f

terminal == <<status, cursor>>
tabs == <<tab, flags, auto>>
index == <<history, readable>>
files == <<content, due, torn>>
disk == <<files, exists, index, failures>>
vars == <<terminal, tabs, log, disk, ops, exited>>

\* A capture that has seen no output yet.
NoCursor == MaxChars + 1

NoLog == [on |-> FALSE]
NoFlags == [active |-> FALSE, paused |-> FALSE, file |-> NoFile]
IdleOp == [step |-> "idle", kind |-> "none", session |-> NoSession, status |-> NoFlags]

Active(s) == log[s].on
Row(s, l) == [session |-> s, mode |-> l.mode, file |-> l.file]
ActiveRows == {Row(s, log[s]) : s \in {t \in Session : Active(t)}}
ActiveFiles == {row.file : row \in ActiveRows}

Init ==
  /\ status = [s \in Session |-> "absent"]
  /\ cursor = [s \in Session |-> 0]
  /\ tab = [s \in Session |-> "none"]
  /\ flags = [s \in Session |-> NoFlags]
  /\ auto = [s \in Session |-> "due"]
  /\ log = [s \in Session |-> NoLog]
  /\ content = [f \in File |-> [s \in Session |-> << >>]]
  /\ exists = {}
  /\ history = {}
  /\ readable = TRUE
  /\ ops = [o \in Op |-> IdleOp]
  /\ failures = 0
  /\ exited = FALSE
  /\ due = [f \in File |-> [s \in Session |-> {}]]
  /\ torn = {}

-----------------------------------------------------------------------------
(* Writing.                                                                *)

\* The log after its held line has joined what is pending.
Drained(l) == [l EXCEPT !.pending = @ \o l.line, !.line = << >>]

\* append_to_log_sessions: what session s has in the file of l, followed by text.
Written(s, l, text) == [content EXCEPT ![l.file][s] = @ \o text]

\* Mutant of WriteFails: what could not be written is forgotten.
WriteFailsForgets(s, l) ==
  /\ l.pending # << >> /\ failures < MaxFailures
  /\ failures' = failures + 1
  /\ \E n \in 0..(Len(l.pending) - 1) :
       /\ content' = Written(s, l, SubSeq(l.pending, 1, n))
       /\ torn' = IF n = 0 THEN torn ELSE torn \cup {<<l.file, s>>}
  /\ log' = [log EXCEPT ![s] = [l EXCEPT !.pending = << >>]]

\* append_to_log_sessions fails, having written some of the text or none: all of it
\* stays pending.
WriteFails(s, l) ==
  /\ l.pending # << >> /\ failures < MaxFailures
  /\ failures' = failures + 1
  /\ \E n \in 0..(Len(l.pending) - 1) :
       /\ content' = Written(s, l, SubSeq(l.pending, 1, n))
       /\ torn' = IF n = 0 THEN torn ELSE torn \cup {<<l.file, s>>}
  /\ log' = [log EXCEPT ![s] = l]

\* LogCapture::write_pending of l, which is "after" then, if it could be written.
WriteOut(s, l, after) ==
  \/ /\ content' = Written(s, l, l.pending)
     /\ log' = [log EXCEPT ![s] = after]
     /\ UNCHANGED <<failures, torn>>
  \/ WriteFails(s, l)

\* TerminalLogSanitizer::push of one character.
Push(l, c, ends) ==
  IF ~l.display THEN [l EXCEPT !.pending = Append(@, c)]
  ELSE IF ends THEN [l EXCEPT !.pending = @ \o Append(l.line, c), !.line = << >>]
  ELSE [l EXCEPT !.line = Append(@, c)]

\* LogCapture::capture_text of a character, which is owed unless l is paused.
CaptureText(s, l, c, ends) ==
  LET m == IF l.paused THEN l ELSE Push(l, c, ends)
  IN  /\ WriteOut(s, m, [m EXCEPT !.pending = << >>])
      /\ due' = IF l.paused THEN due ELSE [due EXCEPT ![l.file][s] = @ \cup {c}]

\* The character at position from is refused, as a gap: it is owed all the same.
RefuseGap(s, from) ==
  /\ due' = IF log[s].paused THEN due ELSE [due EXCEPT ![log[s].file][s] = @ \cup {from}]
  /\ UNCHANGED <<log, content, torn, failures>>

\* Mutant of TakeOutput: a paused capture does not follow the cursor.
TakeUnlessPaused(s, from) ==
  LET l == log[s] IN
  IF l.cursor \in {NoCursor, from}
  THEN CaptureText(s, IF l.paused THEN l ELSE [l EXCEPT !.cursor = from + 1],
                   from, from \in LineEnd)
  ELSE RefuseGap(s, from)

\* capture_output of the character at position from.
TakeOutput(s, from) ==
  LET l == log[s] IN
  IF l.cursor \in {NoCursor, from}
  THEN CaptureText(s, [l EXCEPT !.cursor = from + 1], from, from \in LineEnd)
  ELSE RefuseGap(s, from)

\* append_output of terminal_control.rs, which captures before it lets go of the
\* terminal registry.
Produce(s) ==
  /\ ~exited
  /\ status[s] \in {"connected", "marked"}
  /\ cursor[s] < MaxChars
  /\ cursor' = [cursor EXCEPT ![s] = @ + 1]
  /\ IF Active(s) THEN TakeOutput(s, cursor[s]) ELSE UNCHANGED <<log, files, failures>>
  /\ UNCHANGED <<status, tabs, exists, index, ops, exited>>

\* capture_notice: a message that is not output of the session, here at its end.
CaptureNotice(s) ==
  /\ ~exited
  /\ status[s] = "connected" /\ cursor[s] = MaxChars
  /\ status' = [status EXCEPT ![s] = "marked"]
  /\ IF Active(s) THEN CaptureText(s, log[s], MaxChars, TRUE)
     ELSE UNCHANGED <<log, files, failures>>
  /\ UNCHANGED <<cursor, tabs, exists, index, ops, exited>>

\* The active log once all it holds is written.
Flushed(s) == [log[s] EXCEPT !.pending = << >>, !.line = << >>]

\* flush_to of the active log, which is "after" then, if it could be written.
FlushTo(s, after) == WriteOut(s, Drained(log[s]), after) /\ UNCHANGED due

\* flush_manual_log, which any window may ask for at any time.
FlushManual(s) ==
  /\ ~exited
  /\ Active(s)
  /\ FlushTo(s, Flushed(s))
  /\ UNCHANGED <<terminal, tabs, exists, index, ops, exited>>

-----------------------------------------------------------------------------
(* Starting and stopping.                                                  *)

\* What the active log of session s has not written yet, if f is its file.
Held(f, s) ==
  IF Active(s) /\ log[s].file = f THEN log[s].pending \o log[s].line ELSE << >>

\* The rows once a log of session s has started: an automatic one replaces the
\* session's earlier one (upsert_log_session).
Upsert(row) ==
  {row} \cup {r \in history : row.mode = "manual" \/ r.mode # row.mode
                                \/ r.session # row.session}

NewLog(f, mode, display) ==
  [on |-> TRUE, file |-> f, mode |-> mode, display |-> display, cursor |-> NoCursor,
   paused |-> FALSE, line |-> << >>, pending |-> << >>]

\* The files in S are emptied: they owe what is still held for them.
Empty(S) ==
  /\ content' = [f \in File |-> IF f \in S THEN [s \in Session |-> << >>] ELSE content[f]]
  /\ due' = [f \in File |->
               IF f \in S THEN [s \in Session |-> Range(Held(f, s))] ELSE due[f]]
  /\ torn' = {p \in torn : p[1] \notin S}

\* write_log_start_header: the file is created, and emptied unless it is appended to.
OpenFile(f, append) ==
  /\ exists' = exists \cup {f}
  /\ Empty(IF append THEN {} ELSE {f})

\* create_log_session, upsert_log_session and the insertion into the two maps; the
\* format is the one configured now.
CreateLog(s, f, mode, append) ==
  \E display \in BOOLEAN :
    LET l == NewLog(f, mode, display)
    IN  /\ readable
        /\ OpenFile(f, append)
        /\ history' = Upsert(Row(s, l))
        /\ log' = [log EXCEPT ![s] = l]
        /\ UNCHANGED <<readable, failures>>

\* The start fails: at the file, before or after it was opened; or then at the index,
\* which cannot be parsed, cannot be written or is cut off.
CreateFails(f, append) ==
  /\ \/ failures < MaxFailures /\ failures' = failures + 1 /\ UNCHANGED <<files, exists, readable>>
     \/ /\ failures < MaxFailures /\ failures' = failures + 1
        /\ OpenFile(f, append)
        /\ readable' \in {readable, FALSE}
     \/ ~readable /\ OpenFile(f, append) /\ UNCHANGED <<failures, readable>>
  /\ UNCHANGED <<log, history>>

\* A generated name is new.
GeneratedFiles == File \ exists

\* finish_created_session and the GUI's connection services: the session is
\* connected and has no tab yet when its automatic log starts, if it does.
AutoStart(s) ==
  /\ ~exited
  /\ status[s] # "absent" /\ auto[s] = "due"
  /\ \/ /\ UNCHANGED <<log, disk>>
        /\ auto' = [auto EXCEPT ![s] = NoFile]
     \/ \E f \in GeneratedFiles :
          \/ CreateLog(s, f, "auto", FALSE) /\ auto' = [auto EXCEPT ![s] = f]
          \/ CreateFails(f, FALSE) /\ auto' = [auto EXCEPT ![s] = NoFile]
  /\ UNCHANGED <<terminal, tab, flags, ops, exited>>

\* register_session_tab, with the path the automatic start returned.
RegisterTab(s) ==
  /\ ~exited
  /\ auto[s] # "due" /\ tab[s] = "none"
  /\ tab' = [tab EXCEPT ![s] = "shown"]
  /\ flags' = [flags EXCEPT ![s] = [active |-> auto[s] # NoFile, paused |-> FALSE,
                                     file |-> auto[s]]]
  /\ UNCHANGED <<terminal, auto, log, disk, ops, exited>>

Connect(s) ==
  /\ ~exited
  /\ status[s] = "absent"
  /\ status' = [status EXCEPT ![s] = "connected"]
  /\ UNCHANGED <<cursor, tabs, log, disk, ops, exited>>

\* mark_disconnected of the terminal registry and the workspace.
MarkDisconnected(s) ==
  /\ ~exited
  /\ status[s] = "connected"
  /\ status' = [status EXCEPT ![s] = "marked"]
  /\ UNCHANGED <<cursor, tabs, log, disk, ops, exited>>

\* clear_session_logs: a log that cannot be flushed stays active.
ClearLogs(s) ==
  /\ ~exited
  /\ status[s] = "marked"
  /\ status' = [status EXCEPT ![s] = "closed"]
  /\ IF Active(s) THEN FlushTo(s, NoLog) ELSE UNCHANGED <<log, files, failures>>
  /\ UNCHANGED <<cursor, tabs, exists, index, ops, exited>>

-----------------------------------------------------------------------------
(* Manual operations: apply_manual_log_operation under the operation lock  *)
(* of the session.                                                         *)

LockFree(s) == \A o \in Op : ops[o].session # s

Goto(o, step) == ops' = [ops EXCEPT ![o].step = step]
EndOp(o) == ops' = [ops EXCEPT ![o] = IdleOp]

\* Mutant of BeginOp: the operations of a session are not serialized.
BeginUnlocked(o, s, kind) ==
  /\ ~exited
  /\ ops[o].step = "idle"
  /\ tab[s] = "shown"
  /\ ops' = [ops EXCEPT ![o] = [IdleOp EXCEPT !.step = "begun", !.kind = kind, !.session = s]]
  /\ UNCHANGED <<terminal, tabs, log, disk, exited>>

\* operation_lock, for a session whose tab the caller has found.
BeginOp(o, s, kind) ==
  /\ ~exited
  /\ ops[o].step = "idle"
  /\ tab[s] = "shown"
  /\ LockFree(s)
  /\ ops' = [ops EXCEPT ![o] = [IdleOp EXCEPT !.step = "begun", !.kind = kind, !.session = s]]
  /\ UNCHANGED <<terminal, tabs, log, disk, exited>>

\* Start checks the tab first.
CheckTab(o) ==
  LET s == ops[o].session IN
  /\ ops[o].kind = "start" /\ ops[o].step = "begun"
  /\ IF status[s] = "connected" THEN Goto(o, "start") ELSE EndOp(o)
  /\ UNCHANGED <<terminal, tabs, log, disk>>

\* start_manual_log reuses the active log of the session; a chosen file is any,
\* also one that another session is writing.
StartManual(o) ==
  LET s == ops[o].session
      Starts(f, append) ==
        \/ CreateLog(s, f, "manual", append) /\ Goto(o, "unpause")
        \/ CreateFails(f, append) /\ EndOp(o)
  IN  /\ ops[o].step = "start"
      /\ \/ Active(s) /\ Goto(o, "unpause") /\ UNCHANGED <<log, disk>>
         \/ ~Active(s) /\ \E f \in GeneratedFiles : Starts(f, FALSE)
         \/ ~Active(s) /\ \E f \in File, append \in BOOLEAN : Starts(f, append)
      /\ UNCHANGED <<terminal, tabs>>

\* A flush within an operation, which ends if it fails.
FlushOr(o, s, after) ==
  /\ FlushTo(s, after)
  /\ IF failures' = failures THEN Goto(o, "status") ELSE EndOp(o)

\* set_manual_log_paused: without a log, or when the flush fails, the operation
\* ends without telling the workspace.
SetPaused(o, paused) ==
  LET s == ops[o].session
  IN  /\ IF ~Active(s) THEN EndOp(o) /\ UNCHANGED <<log, files, failures>>
         ELSE IF log[s].paused = paused
         THEN Goto(o, "status") /\ UNCHANGED <<log, files, failures>>
         ELSE FlushOr(o, s, [Flushed(s) EXCEPT !.paused = paused])
      /\ UNCHANGED <<terminal, tabs, exists, index>>

Pause(o) ==
  \/ ops[o].step = "begun" /\ ops[o].kind = "pause" /\ SetPaused(o, TRUE)
  \/ ops[o].step = "begun" /\ ops[o].kind = "resume" /\ SetPaused(o, FALSE)
  \/ ops[o].step = "unpause" /\ SetPaused(o, FALSE)

\* stop_manual_log.
StopManual(o) ==
  LET s == ops[o].session IN
  /\ ops[o].kind = "stop" /\ ops[o].step = "begun"
  /\ IF Active(s) THEN FlushOr(o, s, NoLog)
     ELSE Goto(o, "status") /\ UNCHANGED <<log, files, failures>>
  /\ UNCHANGED <<terminal, tabs, exists, index>>

\* manual_log_status.
ReadStatus(o) ==
  LET s == ops[o].session
      seen == IF Active(s)
              THEN [active |-> TRUE, paused |-> log[s].paused, file |-> log[s].file]
              ELSE NoFlags
  IN  /\ ops[o].step = "status"
      /\ ops' = [ops EXCEPT ![o].step = "sync", ![o].status = seen]
      /\ UNCHANGED <<terminal, tabs, log, disk>>

\* WorkspaceState::sync_log_state.
SyncLogState(o) ==
  /\ ops[o].step = "sync"
  /\ flags' = [flags EXCEPT ![ops[o].session] = ops[o].status]
  /\ EndOp(o)
  /\ UNCHANGED <<terminal, tab, auto, log, disk>>

OpStep(o) ==
  /\ ~exited
  /\ UNCHANGED exited
  /\ \/ CheckTab(o)
     \/ StartManual(o)
     \/ Pause(o)
     \/ StopManual(o)
     \/ ReadStatus(o)
     \/ SyncLogState(o)

-----------------------------------------------------------------------------
(* History and exit.                                                       *)

\* protected_log_history_rows: active logs, and rows of whatever kind that name a
\* file in use.
ProtectedRows(deleteFiles) ==
  {row \in history : row \in ActiveRows \/ (deleteFiles /\ row.file \in ActiveFiles)}

\* bulk_delete_log_sessions: all rows but the protected ones go, and with them the
\* files of automatic logs if asked for; when a file cannot be deleted, or the index
\* not be written, the rows stay or the index is cut off.
BulkDelete(deleteFiles) ==
  LET gone == history \ ProtectedRows(deleteFiles)
      autos == IF deleteFiles THEN {row.file : row \in {r \in gone : r.mode = "auto"}} ELSE {}
      Delete(S) == exists' = exists \ S /\ Empty(S)
  IN  /\ ~exited
      /\ readable
      /\ gone # {}
      /\ \/ Delete(autos) /\ history' = history \ gone /\ UNCHANGED <<failures, readable>>
         \/ /\ failures < MaxFailures /\ failures' = failures + 1
            /\ \E done \in SUBSET autos :
                 /\ Delete(done)
                 /\ readable' \in IF done = autos THEN BOOLEAN ELSE {TRUE}
            /\ UNCHANGED history
      /\ UNCHANGED <<terminal, tabs, log, ops, exited>>

AllActive == {s \in Session : Active(s)}

\* What each session of S has in its log's file after texts[s] was appended.
AppendedAll(S, texts) ==
  [f \in File |-> [s \in Session |->
     IF s \in S /\ log[s].file = f THEN content[f][s] \o texts[s] ELSE content[f][s]]]

\* finish_all_logs: the logs are flushed one after the other, up to the first that
\* fails, and stay active unless all of them could be.
FinishAllLogs ==
  LET whole == [s \in AllActive |-> Drained(log[s]).pending] IN
  \/ /\ content' = AppendedAll(AllActive, whole)
     /\ log' = [s \in Session |-> NoLog]
     /\ exited' = TRUE
     /\ UNCHANGED <<failures, torn>>
  \/ \E S \in SUBSET AllActive : \E t \in AllActive \ S : \E n \in 0..(Len(whole[t]) - 1) :
       /\ failures < MaxFailures
       /\ content' = AppendedAll(S \cup {t},
                                 [whole EXCEPT ![t] = SubSeq(@, 1, n)])
       /\ torn' = IF n = 0 THEN torn ELSE torn \cup {<<log[t].file, t>>}
       /\ log' = [s \in Session |->
                    IF s \in S THEN Flushed(s)
                    ELSE IF s = t THEN Drained(log[t])
                    ELSE log[s]]
       /\ failures' = failures + 1
       /\ UNCHANGED exited

\* app_exit; whether sessions are connected only decides if the user is asked.
AppExit ==
  /\ ~exited
  /\ FinishAllLogs
  /\ UNCHANGED <<terminal, tabs, exists, index, due, ops>>

Next ==
  \/ \E s \in Session :
       \/ Connect(s) \/ Produce(s) \/ CaptureNotice(s) \/ FlushManual(s)
       \/ AutoStart(s) \/ RegisterTab(s) \/ MarkDisconnected(s) \/ ClearLogs(s)
  \/ \E o \in Op, s \in Session, kind \in {"start", "stop", "pause", "resume"} :
       BeginOp(o, s, kind)
  \/ \E o \in Op : OpStep(o)
  \/ \E deleteFiles \in BOOLEAN : BulkDelete(deleteFiles)
  \/ AppExit

Spec == Init /\ [][Next]_vars

-----------------------------------------------------------------------------
(* Properties.                                                             *)

\* What session s has in file f, with what its active log still has to write there.
Text(f, s) == content[f][s] \o Held(f, s)

\* Nothing owed is missing, and nothing else is there.
NothingLost == \A f \in File, s \in Session : due[f][s] = Range(Text(f, s))

\* A character is new and later than all before it, or one that is there already.
InOrder(text) ==
  \A j \in DOMAIN text, i \in DOMAIN text :
    i < j => text[i] < text[j] \/ \E k \in 1..i : text[k] = text[j]

Increasing(text) == \A i, j \in DOMAIN text : i < j => text[i] < text[j]

\* A reader who skips what was there already reads the output in its order, and
\* nothing is there twice unless a failed write had left a part of it in the file.
Ordered ==
  \A f \in File, s \in Session :
    /\ InOrder(Text(f, s))
    /\ <<f, s>> \notin torn => Increasing(Text(f, s))

\* The file and the history row of an active log are never deleted, also when an
\* older row names the same file (the comment in protected_log_history_rows); the row
\* is lost only with the whole index.
Protected == ActiveFiles \subseteq exists /\ (readable => ActiveRows \subseteq history)

\* No output is lost or reordered on its way to the log, whichever writes fail in
\* part or whole, however starting, pausing, flushing and stopping interleave with it
\* and whether sessions share a file: after its file was last begun anew, a log has all
\* that it recorded there, up to what it still holds; and no file in use is deleted.
LogsIntact == NothingLost /\ Ordered /\ Protected

\* What a connected session's tab shows of its log is what the logger does, whenever
\* no operation on it is under way (ARCHITECTURE.md: operations serialize per session
\* through capture changes and workspace metadata synchronization).
MetadataAgrees ==
  \A s \in Session :
    ~exited /\ status[s] = "connected" /\ tab[s] = "shown" /\ LockFree(s) =>
      flags[s] = IF Active(s)
                 THEN [active |-> TRUE, paused |-> log[s].paused, file |-> log[s].file]
                 ELSE NoFlags
=============================================================================
