------------------------------- MODULE Telnet -------------------------------
(***************************************************************************)
(* A Telnet session: its registration at the end of a connection attempt,  *)
(* the task that reads, answers and writes, resizing, writing, the end of  *)
(* the session and its disconnection (src-tauri/src/telnet.rs and          *)
(* telnet/session.rs).  The bytes are TelnetCodec's.                       *)
(*                                                                         *)
(* The reader and the writer are two futures of one task, which drops both *)
(* when either ends or the session is stopped.                             *)
(***************************************************************************)
EXTENDS Naturals, Sequences, FiniteSets, SequencesExt, FiniteSetsExt

CONSTANTS
  Caller,      \* commands that disconnect the session
  Resizer,     \* commands that resize the terminal, in any order
  QueueLimit,  \* requests the writer's queue holds; 64 in the program
  MaxReads,    \* bound: reads
  MaxInputs    \* bound: inputs of the user

ASSUME TelnetAssumption ==
  /\ QueueLimit \in Nat \ {0}
  /\ MaxReads \in Nat /\ MaxInputs \in Nat
  /\ "reader" \notin Resizer /\ "nobody" \notin Resizer

VARIABLES
  attempt,    \* the connection attempt: "pending", "cancelled" or "completed"
  listed,     \* the session is in TelnetState.sessions
  task,       \* the I/O task: "none", "running", a step of its end, "done"
  reader,     \* "read", "lock", "append" or "send"
  response,   \* what the reader will send, after what it has read
  reads,      \* reads so far
  codec,      \* who holds the codec's mutex
  size,       \* the codec's window size: the resizer it came from
  queue,      \* the writer's queue
  permits,    \* the resizers that hold a slot of the queue they have not filled
  writing,    \* what the writer is writing to the peer
  told,       \* the last window size the peer was sent
  resizer,    \* each resize command: "new", "lock", "reserve", "ended"
  inputs,     \* inputs sent
  stop,       \* the watch channel that stops the task
  caller,     \* each disconnect: "new", "wait", "clear" or "returned"
  terminal,   \* "absent", "connected", "disconnected" in the terminal registry
  workspace,  \* whether the workspace was told of the end
  log,        \* the session's log: "none", "active", "late" or "closed"
  logDue      \* the GUI has not started the session's automatic log yet

io == <<task, reader, response, reads, writing, told>>
shared == <<codec, size, queue, permits>>
commands == <<resizer, inputs, caller>>
registry == <<terminal, workspace, log, logDue>>
telnetVars == <<attempt, listed, io, shared, commands, stop, registry>>

NoSize == "none"
Nothing == [kind |-> "none", size |-> NoSize]
Reply == [kind |-> "reply", size |-> NoSize]
Input == [kind |-> "input", size |-> NoSize]
SizeOf(s) == [kind |-> "naws", size |-> s]
FirstSize == "first"

TelnetInit ==
  /\ attempt = "pending" /\ listed = FALSE
  /\ task = "none" /\ reader = "read" /\ response = Nothing /\ reads = 0
  /\ codec = "nobody" /\ size = FirstSize
  /\ queue = << >> /\ permits = {}
  /\ writing = Nothing /\ told = NoSize
  /\ resizer = [r \in Resizer |-> "new"]
  /\ inputs = 0
  /\ stop = FALSE
  /\ caller = [c \in Caller |-> "new"]
  /\ terminal = "absent" /\ workspace = FALSE /\ log = "none" /\ logDue = TRUE

-----------------------------------------------------------------------------
(* Registration.                                                           *)

\* telnet_connect_cancel, before the attempt has completed.
CancelAttempt ==
  /\ attempt = "pending"
  /\ attempt' = "cancelled"
  /\ UNCHANGED <<listed, io, shared, commands, stop, registry>>

\* register: from begin_completion on there is no point where it could be dropped.
Register ==
  /\ attempt = "pending"
  /\ attempt' = "completed"
  /\ terminal' = "connected"
  /\ listed' = TRUE
  /\ task' = "running"
  /\ UNCHANGED <<reader, response, reads, writing, told, shared, commands, stop, workspace,
                 log, logDue>>

-----------------------------------------------------------------------------
(* The task.                                                               *)

\* The task ends: both futures are dropped, with the reader's hold of the codec, the
\* queue and the stream.
Ends(outcome) ==
  /\ task' = outcome
  /\ queue' = << >>
  /\ writing' = Nothing
  /\ codec' = IF codec = "reader" THEN "nobody" ELSE codec
  /\ UNCHANGED <<attempt, listed, reader, response, reads, told, size, permits, commands,
                 stop, registry>>

\* run_io is stopped.
Stopped == task = "running" /\ stop /\ Ends("terminal")

\* The peer closed the connection, between two reads.
ReadEof == task = "running" /\ reader = "read" /\ Ends("terminal")

\* A read or a write fails.
IoFails ==
  /\ task = "running"
  /\ reader = "read" \/ writing # Nothing
  /\ Ends("notice")

\* reader.read returns bytes; parsing will find out what they are.
Read ==
  /\ task = "running" /\ reader = "read" /\ reads < MaxReads
  /\ reader' = "lock"
  /\ reads' = reads + 1
  /\ UNCHANGED <<attempt, listed, task, response, writing, told, shared, commands, stop,
                 registry>>

\* The codec's mutex, then TelnetParser::parse: the replies may hold the window size.
ReaderParse ==
  /\ task = "running" /\ reader = "lock" /\ codec = "nobody"
  /\ codec' = "reader"
  /\ reader' = "append"
  /\ \E r \in {Nothing, Reply, SizeOf(size)} : response' = r
  /\ UNCHANGED <<attempt, listed, task, reads, writing, told, size, queue, permits, commands,
                 stop, registry>>

\* append_output and its event; without a reply the reader lets go of the codec.
ReaderAppend ==
  /\ task = "running" /\ reader = "append"
  /\ IF response = Nothing
     THEN reader' = "read" /\ codec' = "nobody"
     ELSE reader' = "send" /\ UNCHANGED codec
  /\ UNCHANGED <<attempt, listed, task, response, reads, writing, told, size, queue, permits,
                 commands, stop, registry>>

HasSlot == Len(queue) + Cardinality(permits) < QueueLimit

\* The reply is queued when there is a slot for it.
ReaderSend ==
  /\ task = "running" /\ reader = "send" /\ HasSlot
  /\ queue' = Append(queue, response)
  /\ response' = Nothing
  /\ reader' = "read"
  /\ codec' = "nobody"
  /\ UNCHANGED <<attempt, listed, task, reads, writing, told, size, permits, commands, stop,
                 registry>>

\* The writer takes the next request.
TakeRequest ==
  /\ task = "running" /\ writing = Nothing /\ queue # << >>
  /\ writing' = Head(queue)
  /\ queue' = Tail(queue)
  /\ UNCHANGED <<attempt, listed, task, reader, response, reads, told, codec, size, permits,
                 commands, stop, registry>>

\* write_all ends, as soon as the peer has read enough.
Written ==
  /\ task = "running" /\ writing # Nothing
  /\ told' = IF writing.kind = "naws" THEN writing.size ELSE told
  /\ writing' = Nothing
  /\ UNCHANGED <<attempt, listed, task, reader, response, reads, shared, commands, stop,
                 registry>>

\* capture_notice of the error.
Notice ==
  /\ task = "notice"
  /\ task' = "terminal"
  /\ UNCHANGED <<attempt, listed, reader, response, reads, writing, told, shared, commands,
                 stop, registry>>

MarkTerminal ==
  /\ task = "terminal"
  /\ task' = "workspace"
  /\ terminal' = "disconnected"
  /\ UNCHANGED <<attempt, listed, reader, response, reads, writing, told, shared, commands,
                 stop, workspace, log, logDue>>

MarkWorkspace ==
  /\ task = "workspace"
  /\ task' = "log"
  /\ workspace' = TRUE
  /\ UNCHANGED <<attempt, listed, reader, response, reads, writing, told, shared, commands,
                 stop, terminal, log, logDue>>

\* clear_session_logs.
Closed(l) == IF l = "none" THEN l ELSE "closed"

TaskClearsLog ==
  /\ task = "log"
  /\ task' = "remove"
  /\ log' = Closed(log)
  /\ UNCHANGED <<attempt, listed, reader, response, reads, writing, told, shared, commands,
                 stop, terminal, workspace, logDue>>

\* The event, then the removal from the map.
Unlist ==
  /\ task = "remove"
  /\ task' = "done"
  /\ listed' = FALSE
  /\ UNCHANGED <<attempt, reader, response, reads, writing, told, shared, commands, stop,
                 registry>>

\* Mutant of TaskEnd: the session leaves the map before it is finalized.
FinalizeUnlisted ==
  \/ Notice
  \/ /\ task = "terminal"
     /\ task' = "workspace" /\ listed' = FALSE /\ terminal' = "disconnected"
     /\ UNCHANGED <<attempt, reader, response, reads, writing, told, shared, commands, stop,
                    workspace, log, logDue>>
  \/ MarkWorkspace \/ TaskClearsLog \/ Unlist

\* What the task does after run_io.
TaskEnd == Notice \/ MarkTerminal \/ MarkWorkspace \/ TaskClearsLog \/ Unlist

Task ==
  \/ Stopped
  \/ ReaderParse \/ ReaderAppend \/ ReaderSend
  \/ TakeRequest
  \/ TaskEnd

-----------------------------------------------------------------------------
(* Commands.                                                               *)

\* resize looks the session up and clones its writer and its codec.
BeginResize(r) ==
  /\ resizer[r] = "new" /\ attempt = "completed"
  /\ resizer' = [resizer EXCEPT ![r] = IF listed THEN "lock" ELSE "ended"]
  /\ UNCHANGED <<attempt, listed, io, shared, inputs, caller, stop, registry>>

\* Mutant of ResizeStep: a slot is reserved before the codec is locked.
ReserveFirst(r) ==
  \/ /\ resizer[r] = "lock" /\ task = "running" /\ HasSlot
     /\ permits' = permits \cup {r}
     /\ resizer' = [resizer EXCEPT ![r] = "reserve"]
     /\ UNCHANGED <<attempt, listed, io, codec, size, queue, inputs, caller, stop, registry>>
  \/ /\ resizer[r] = "reserve" /\ codec = "nobody"
     /\ permits' = permits \ {r}
     /\ size' = r
     /\ queue' = IF task = "running" THEN Append(queue, SizeOf(r)) ELSE queue
     /\ resizer' = [resizer EXCEPT ![r] = "ended"]
     /\ UNCHANGED <<attempt, listed, io, codec, inputs, caller, stop, registry>>
  \/ /\ resizer[r] = "lock" /\ task \notin {"none", "running"}
     /\ resizer' = [resizer EXCEPT ![r] = "ended"]
     /\ UNCHANGED <<attempt, listed, io, shared, inputs, caller, stop, registry>>

LockCodec(r) ==
  /\ resizer[r] = "lock" /\ codec = "nobody"
  /\ codec' = r
  /\ resizer' = [resizer EXCEPT ![r] = "reserve"]
  /\ UNCHANGED <<attempt, listed, io, size, queue, permits, inputs, caller, stop, registry>>

\* Mutant of Resize: the window size is queued after the codec was let go of.
ResizeUnlocked(r) ==
  \/ /\ resizer[r] = "reserve" /\ codec = r /\ task = "running" /\ HasSlot
     /\ size' = r
     /\ permits' = permits \cup {r}
     /\ codec' = "nobody"
     /\ UNCHANGED <<attempt, listed, io, queue, commands, stop, registry>>
  \/ /\ resizer[r] = "reserve" /\ r \in permits
     /\ permits' = permits \ {r}
     /\ queue' = IF task = "running" THEN Append(queue, SizeOf(r)) ELSE queue
     /\ resizer' = [resizer EXCEPT ![r] = "ended"]
     /\ UNCHANGED <<attempt, listed, io, codec, size, inputs, caller, stop, registry>>

\* With the codec locked and a slot reserved, the parser's new size is queued.
Resize(r) ==
  /\ resizer[r] = "reserve" /\ codec = r /\ task = "running" /\ HasSlot
  /\ size' = r
  /\ queue' = Append(queue, SizeOf(r))
  /\ codec' = "nobody"
  /\ resizer' = [resizer EXCEPT ![r] = "ended"]
  /\ UNCHANGED <<attempt, listed, io, permits, inputs, caller, stop, registry>>

\* reserve fails once the queue is gone.
ResizeFails(r) ==
  /\ resizer[r] = "reserve" /\ codec = r /\ task # "running"
  /\ codec' = "nobody"
  /\ resizer' = [resizer EXCEPT ![r] = "ended"]
  /\ UNCHANGED <<attempt, listed, io, size, queue, permits, inputs, caller, stop, registry>>

ResizeStep(r) == LockCodec(r) \/ Resize(r) \/ ResizeFails(r)

\* write_data: the escaped input is queued, behind what is queued.
WriteData ==
  /\ listed /\ task = "running" /\ HasSlot /\ inputs < MaxInputs
  /\ inputs' = inputs + 1
  /\ queue' = Append(queue, Input)
  /\ UNCHANGED <<attempt, listed, io, codec, size, permits, resizer, caller, stop, registry>>

\* session::disconnect: stop the task and wait for the end of its finalization.
Disconnect(c) ==
  /\ caller[c] = "new" /\ attempt = "completed"
  /\ stop' = (stop \/ listed)
  /\ caller' = [caller EXCEPT ![c] = IF listed THEN "wait" ELSE "clear"]
  /\ UNCHANGED <<attempt, listed, io, shared, resizer, inputs, registry>>

Waited(c) ==
  /\ caller[c] = "wait" /\ task = "done"
  /\ caller' = [caller EXCEPT ![c] = "clear"]
  /\ UNCHANGED <<attempt, listed, io, shared, resizer, inputs, stop, registry>>

\* disconnect_session closes the log again: it may have started after the task's end.
CallerClearsLog(c) ==
  /\ caller[c] = "clear"
  /\ caller' = [caller EXCEPT ![c] = "returned"]
  /\ log' = Closed(log)
  /\ UNCHANGED <<attempt, listed, io, shared, resizer, inputs, stop, terminal, workspace, logDue>>

\* The GUI's finalization starts the automatic log, whatever became of the session
\* meanwhile: "late" when a disconnect has already got beyond its wait.
StartLog ==
  /\ attempt = "completed" /\ logDue
  /\ logDue' = FALSE
  /\ log' = IF \E c \in Caller : caller[c] \in {"clear", "returned"} THEN "late" ELSE "active"
  /\ UNCHANGED <<attempt, listed, io, shared, commands, stop, terminal, workspace>>

TelnetNext ==
  \/ CancelAttempt \/ Register
  \/ Task \/ ReadEof \/ IoFails \/ Read \/ Written
  \/ \E r \in Resizer : BeginResize(r) \/ ResizeStep(r)
  \/ WriteData
  \/ \E c \in Caller : Disconnect(c) \/ Waited(c) \/ CallerClearsLog(c)
  \/ StartLog

TelnetSpec == TelnetInit /\ [][TelnetNext]_telnetVars

\* The runtime polls tasks and futures that can go on; nothing is assumed of the peer
\* and of the user.
TelnetFairness ==
  /\ WF_telnetVars(Task)
  /\ \A r \in Resizer : WF_telnetVars(ResizeStep(r))
  /\ \A c \in Caller : WF_telnetVars(Waited(c)) /\ WF_telnetVars(CallerClearsLog(c))

-----------------------------------------------------------------------------
(* Properties.                                                             *)

\* The window sizes on their way to the peer, in order, after the one it knows.
SizesUnderWay ==
  <<told>> \o (IF writing.kind = "naws" THEN <<writing.size>> ELSE << >>)
    \o LET naws == {i \in DOMAIN queue : queue[i].kind = "naws"}
       IN  IF naws = {} THEN << >> ELSE <<queue[Max(naws)].size>>

\* The peer ends up with the latest window size: the last one it was or will be sent is
\* the codec's, whoever announced it, the reader's reply to an option or a resize, and
\* in whatever order they ran.
SizeInOrder ==
  task = "running" /\ codec = "nobody" => Last(SizesUnderWay) \in {NoSize, size}

\* A disconnect returns only when the session is gone: everybody was told once, no
\* log is recording, also one that was started after the session had ended by itself.
ReturnedMeansFinal ==
  \A c \in Caller : caller[c] = "returned" =>
    /\ ~listed /\ task = "done"
    /\ terminal = "disconnected" /\ workspace
    /\ log # "active"

\* The peer keeps reading.
PeerReads == []<>(writing = Nothing)

\* Liveness: a disconnect returns although the peer has stopped reading and the reader
\* waits for a slot with the codec locked; and with a peer that reads, no resize waits
\* for ever, whoever else waits for the codec and the queue.
CommandsEnd ==
  /\ \A c \in Caller : caller[c] # "new" ~> caller[c] = "returned"
  /\ PeerReads => \A r \in Resizer : resizer[r] # "new" ~> resizer[r] = "ended"
=============================================================================
