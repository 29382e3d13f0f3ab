--------------------------- MODULE SerialSession ---------------------------
(***************************************************************************)
(* One serial session of the Rust backend, from the opened port to the     *)
(* release of its last handle: the connect command and the reader (in      *)
(* serial.rs), the writer thread and how it is stopped (serial/writer.rs), *)
(* and the shutdown coordinator (serial/lifecycle.rs).                     *)
(*                                                                         *)
(* The connect future, the writer thread, the reader thread, the output    *)
(* task, the coordinator task and the disconnect commands are processes.   *)
(* What is written and read is abstracted to blocks; a block is one chunk  *)
(* of the writer.  Time advances only while somebody waits for it.         *)
(***************************************************************************)
EXTENDS Integers, FiniteSets

CONSTANTS
  Caller,      \* disconnect commands
  HasPolicy,   \* the port has a WritePolicy: it has on Windows
  Budget,      \* WritePolicy.timeout of a chunk
  MaxBlocks,   \* bound: blocks the user submits
  MaxReads     \* bound: blocks the device sends

ASSUME SerialAssumption ==
  /\ HasPolicy \in BOOLEAN
  /\ Budget \subseteq Nat \ {0}
  /\ MaxBlocks \in Nat
  /\ MaxReads \in Nat

VARIABLES
  connect,    \* where the connect command is
  handles,    \* handles of the port that are open: "reader", "writer", "control"
  terminal,   \* status in TerminalControlState, "none" until registered
  published,  \* the session is in SerialState.sessions
  running,    \* SerialShutdown.running
  requested,  \* the permit of SerialShutdown.requested
  completed,  \* SerialShutdown.completed
  caller,     \* where each disconnect command is
  sender,     \* the Sender of the write queue exists
  accepted,   \* blocks submitted so far
  queue,      \* blocks in the write queue
  writer,     \* where the writer thread is
  result,     \* what the last write returned
  failed,     \* the writer thread ends with an error
  deadline,   \* deadline of the writer's chunk, 0 for none
  active,     \* TransmissionDeadlines.active
  settle,     \* TransmissionDeadlines.settle_until
  reader,     \* where the reader thread is
  received,   \* blocks read so far
  output,     \* blocks for the output task, and whether an error follows
  outputTask, \* where the output task is
  asking,     \* spawned tasks that will call request_shutdown
  coord,      \* where the coordinator is
  cutoff,     \* deadline stop_serial_writer found active
  settleBy,   \* what it waits for before the port is released
  cancelled,  \* the pending write was told to stop
  recorded,   \* what was appended to the session's output and log
  log,        \* FALSE once clear_session_logs has run
  now,        \* the clock
  succeeded   \* history: deadlines of successful writes

connectVars == <<connect, terminal, published, sender>>
shutdownVars == <<running, requested, completed, caller>>
writerVars == <<accepted, queue, writer, result, failed, deadline, active, settle, succeeded>>
readerVars == <<reader, received, output, outputTask>>
coordVars == <<coord, cutoff, settleBy, cancelled, log>>
vars == <<connectVars, shutdownVars, writerVars, readerVars, coordVars,
          handles, asking, recorded, now>>

Latest(s, t) == IF s > t THEN s ELSE t

Init ==
  /\ connect = "opening" /\ handles = {} /\ terminal = "none" /\ published = FALSE
  /\ running = TRUE /\ requested = FALSE /\ completed = FALSE
  /\ caller = [c \in Caller |-> "idle"]
  /\ sender = FALSE /\ accepted = 0 /\ queue = 0
  /\ writer = "none" /\ result = "none" /\ failed = FALSE
  /\ deadline = 0 /\ active = 0 /\ settle = 0
  /\ reader = "none" /\ received = 0
  /\ output = [blocks |-> 0, error |-> FALSE] /\ outputTask = "none"
  /\ asking = {} /\ recorded = 0 /\ log = TRUE
  /\ coord = "none" /\ cutoff = 0 /\ settleBy = 0 /\ cancelled = FALSE
  /\ now = 0 /\ succeeded = {}

-----------------------------------------------------------------------------
(* The connect command.                                                    *)

\* run_with_attempt(open) and the clone of the control handle succeed.
Open ==
  /\ connect = "opening"
  /\ connect' = "opened"
  /\ handles' = {"reader", "writer", "control"}
  /\ UNCHANGED <<terminal, published, sender, shutdownVars, writerVars, readerVars,
                 coordVars, asking, recorded, now>>

\* The port cannot be opened, the attempt was cancelled before begin_completion,
\* or the writer thread cannot be spawned.
GiveUp ==
  /\ connect \in {"opening", "opened"}
  /\ connect' = "ended"
  /\ handles' = {}
  /\ UNCHANGED <<terminal, published, sender, shutdownVars, writerVars, readerVars,
                 coordVars, asking, recorded, now>>

\* The workers and the coordinator are spawned; the reader waits for its start.
SpawnWorkers ==
  /\ connect = "opened"
  /\ connect' = "spawned"
  /\ sender' = TRUE
  /\ writer' = "receiving" /\ reader' = "waiting"
  /\ outputTask' = "receiving" /\ coord' = "waiting"
  /\ UNCHANGED <<terminal, published, shutdownVars, accepted, queue, result, failed,
                 deadline, active, settle, succeeded, received, output, cutoff, settleBy,
                 cancelled, log, handles, asking, recorded, now>>

\* register_session_with_encoding: the session is listed.
RegisterTerminal ==
  /\ connect = "spawned"
  /\ connect' = "registered"
  /\ terminal' = "connected"
  /\ UNCHANGED <<published, sender, shutdownVars, writerVars, readerVars, coordVars,
                 handles, asking, recorded, now>>

\* The session accepts input and can be shut down; the reader starts.
Publish ==
  /\ connect = "registered"
  /\ connect' = "connected"
  /\ published' = TRUE
  /\ UNCHANGED <<terminal, sender, shutdownVars, writerVars, readerVars, coordVars,
                 handles, asking, recorded, now>>

\* SerialShutdown.request.
Request ==
  /\ running' = FALSE
  /\ requested' = (requested \/ running)

\* The command's future is dropped at one of these awaits: RegistrationGuard.
DropConnect ==
  /\ connect \in {"spawned", "registered"}
  /\ connect' = "ended"
  /\ Request
  /\ sender' = FALSE
  /\ UNCHANGED <<terminal, published, completed, caller, writerVars, readerVars, coordVars,
                 handles, asking, recorded, now>>

-----------------------------------------------------------------------------
(* Shutdown requests and disconnect commands.                              *)

\* Mutant of RequestShutdown: the write queue stays open.
RequestKeepsQueue ==
  IF published THEN Request /\ UNCHANGED sender ELSE UNCHANGED <<running, requested, sender>>

\* request_shutdown, under the lock of the sessions.
RequestShutdown ==
  IF published THEN Request /\ sender' = FALSE ELSE UNCHANGED <<running, requested, sender>>

\* A spawned task requests the shutdown.
TaskRequests(t) ==
  /\ t \in asking
  /\ asking' = asking \ {t}
  /\ RequestShutdown
  /\ UNCHANGED <<connect, terminal, published, completed, caller, writerVars, readerVars,
                 coordVars, handles, recorded, now>>

\* shutdown_session of a session that is listed.
Disconnect(c) ==
  /\ caller[c] = "idle"
  /\ terminal # "none"
  /\ caller' = [caller EXCEPT ![c] = IF published THEN "waiting" ELSE "notFound"]
  /\ RequestShutdown
  /\ UNCHANGED <<connect, terminal, published, completed, writerVars, readerVars,
                 coordVars, handles, asking, recorded, now>>

\* SerialShutdown.wait.
DisconnectReturns(c) ==
  /\ caller[c] = "waiting"
  /\ completed
  /\ caller' = [caller EXCEPT ![c] = "returned"]
  /\ UNCHANGED <<connectVars, running, requested, completed, writerVars, readerVars,
                 coordVars, handles, asking, recorded, now>>

-----------------------------------------------------------------------------
(* The writer thread.                                                      *)

\* enqueue_data: the user submits a block.
Enqueue ==
  /\ accepted < MaxBlocks
  /\ published /\ sender /\ running
  /\ accepted' = accepted + 1
  /\ queue' = queue + 1
  /\ UNCHANGED <<connectVars, shutdownVars, writer, result, failed, deadline, active, settle,
                 succeeded, readerVars, coordVars, handles, asking, recorded, now>>

\* The thread leaves its loop; its handle is dropped, and an error is reported next.
WriterStops(withError) ==
  /\ writer' = IF withError THEN "failing" ELSE "exited"
  /\ failed' = withError
  /\ handles' = handles \ {"writer"}
  /\ UNCHANGED <<accepted, queue, result, deadline, active, settle, succeeded>>

\* The thread moves on and touches nothing else.
WriterGoes(to) ==
  /\ writer' = to
  /\ UNCHANGED <<accepted, queue, result, failed, deadline, active, settle, succeeded, handles>>

\* Mutant of Receive: a second block is taken without a look at the queue.
ReceiveTwice ==
  /\ writer = "receiving" /\ queue > 0
  /\ queue' = queue - 2
  /\ writer' = "block"
  /\ UNCHANGED <<accepted, result, failed, deadline, active, settle, succeeded, handles>>

\* recv: a block, or the end of the queue.
Receive ==
  /\ writer = "receiving"
  /\ \/ /\ queue > 0
        /\ queue' = queue - 1
        /\ writer' = "block"
        /\ UNCHANGED <<accepted, result, failed, deadline, active, settle, succeeded, handles>>
     \/ /\ queue = 0 /\ ~sender
        /\ WriterStops(FALSE)

\* The deadlines a block that begins now can get; 0 is none.
DeadlineFromNow == IF HasPolicy THEN {now + b : b \in Budget} ELSE {0}

\* The deadline of the block is fixed before its first write.
StartBlock ==
  /\ writer = "block"
  /\ \/ ~running /\ WriterStops(FALSE)
     \/ /\ running
        /\ writer' = "chunk"
        /\ deadline' \in DeadlineFromNow
        /\ UNCHANGED <<accepted, queue, result, failed, active, settle, succeeded, handles>>

\* Before each write: the checks of running and of the deadline, and set_write_timeout.
PrepareWrite ==
  /\ writer = "chunk"
  /\ \/ ~running /\ WriterStops(FALSE)
     \/ HasPolicy /\ now >= deadline /\ WriterStops(running)
     \/ running /\ (HasPolicy => now < deadline) /\ WriterGoes("ready")
     \/ /\ HasPolicy /\ running /\ now < deadline
        /\ writer' = "after" /\ result' = "error"
        /\ UNCHANGED <<accepted, queue, failed, deadline, active, settle, succeeded, handles>>

\* Mutant of BeginWrite: running is not read again under the lock.
BeginUnchecked ==
  /\ writer = "ready"
  /\ writer' = "writing"
  /\ active' = deadline
  /\ UNCHANGED <<accepted, queue, result, failed, deadline, settle, succeeded, handles>>

\* write_if_running up to the write, under the lock of the deadlines.
BeginWrite ==
  /\ writer = "ready"
  /\ \/ ~running /\ WriterStops(FALSE)
     \/ /\ running
        /\ writer' = "writing"
        /\ active' = deadline
        /\ UNCHANGED <<accepted, queue, result, failed, deadline, settle, succeeded, handles>>

\* What the driver answers; a cancelled or expired write may still make progress.
Answers ==
  {"partial", "full", "zero", "interrupted", "error"}
    \union (IF HasPolicy /\ (cancelled \/ now >= deadline) THEN {"cancelled"} ELSE {})

\* Mutant of EndWrite: a later, shorter budget replaces the earlier one.
EndShortens ==
  /\ writer = "writing"
  /\ writer' = "after"
  /\ \E r \in Answers :
       /\ result' = r
       /\ settle' = IF r \in {"partial", "full"} THEN deadline ELSE settle
       /\ succeeded' = IF r \in {"partial", "full"} THEN succeeded \union {deadline} ELSE succeeded
  /\ active' = IF running THEN 0 ELSE active
  /\ UNCHANGED <<accepted, queue, failed, deadline, handles>>

\* write_if_running after the write, under the lock of the deadlines.
EndWrite ==
  /\ writer = "writing"
  /\ writer' = "after"
  /\ \E r \in Answers :
       /\ result' = r
       /\ settle' = IF r \in {"partial", "full"} THEN Latest(settle, deadline) ELSE settle
       /\ succeeded' = IF r \in {"partial", "full"} THEN succeeded \union {deadline} ELSE succeeded
  /\ active' = IF running THEN 0 ELSE active
  /\ UNCHANGED <<accepted, queue, failed, deadline, handles>>

\* The result of a write, read together with running.
AfterWrite ==
  /\ writer = "after"
  /\ \/ ~running /\ WriterStops(result = "error")
     \/ running /\ result \in {"zero", "error", "cancelled"} /\ WriterStops(TRUE)
     \/ running /\ result \in {"partial", "interrupted"} /\ WriterGoes("chunk")
     \/ running /\ result = "full" /\ WriterGoes("receiving")

\* on_error: the notice, then a task that requests the shutdown; the thread does not wait for it.
ReportError ==
  /\ writer = "failing"
  /\ writer' = "exited"
  /\ recorded' = recorded + 1
  /\ asking' = asking \union {"writer"}

WriterStep ==
  \/ /\ (Receive \/ StartBlock \/ PrepareWrite \/ BeginWrite \/ EndWrite \/ AfterWrite)
     /\ UNCHANGED <<connectVars, shutdownVars, readerVars, coordVars, asking, recorded, now>>
  \/ /\ ReportError
     /\ UNCHANGED <<connectVars, shutdownVars, accepted, queue, result, failed, deadline, active,
                    settle, succeeded, readerVars, coordVars, handles, now>>

-----------------------------------------------------------------------------
(* The reader thread and the output task.                                  *)

\* The reader starts once the session is published, or ends with its start sender.
StartReader ==
  /\ reader = "waiting"
  /\ \/ connect = "connected" /\ reader' = "checking" /\ UNCHANGED handles
     \/ connect = "ended" /\ reader' = "exited" /\ handles' = handles \ {"reader"}
  /\ UNCHANGED <<received, output, asking>>

CheckRunning ==
  /\ reader = "checking"
  /\ \/ running /\ reader' = "reading" /\ UNCHANGED handles
     \/ ~running /\ reader' = "exited" /\ handles' = handles \ {"reader"}
  /\ UNCHANGED <<received, output, asking>>

\* A read returns data, nothing within the read timeout, or an error.
Read ==
  /\ reader = "reading"
  /\ \/ /\ received < MaxReads
        /\ received' = received + 1
        /\ output' = [output EXCEPT !.blocks = @ + 1]
        /\ reader' = "checking"
        /\ UNCHANGED <<asking, handles>>
     \/ reader' = "checking" /\ UNCHANGED <<received, output, asking, handles>>
     \/ /\ reader' = "leaving"
        /\ \/ /\ running
              /\ output' = [output EXCEPT !.error = TRUE]
              /\ asking' = asking \union {"reader"}
           \/ ~running /\ UNCHANGED <<output, asking>>
        /\ UNCHANGED <<received, handles>>

\* The thread ends and drops its handle; the error it sent may be handled already.
LeaveReader ==
  /\ reader = "leaving"
  /\ reader' = "exited"
  /\ handles' = handles \ {"reader"}
  /\ UNCHANGED <<received, output, asking>>

ReaderStep ==
  /\ StartReader \/ CheckRunning \/ Read \/ LeaveReader
  /\ UNCHANGED <<connectVars, shutdownVars, writerVars, outputTask, coordVars, recorded, now>>

\* process_serial_output: data in order, then the error, which also requests the shutdown.
OutputStep ==
  /\ \/ /\ outputTask = "receiving" /\ output.blocks > 0
        /\ output' = [output EXCEPT !.blocks = @ - 1]
        /\ recorded' = recorded + 1
        /\ UNCHANGED <<outputTask, sender, running, requested>>
     \/ /\ outputTask = "receiving" /\ output.blocks = 0 /\ output.error
        /\ outputTask' = "requesting"
        /\ recorded' = recorded + 1
        /\ UNCHANGED <<output, sender, running, requested>>
     \/ /\ outputTask = "receiving" /\ output.blocks = 0 /\ ~output.error /\ reader = "exited"
        /\ outputTask' = "exited"
        /\ UNCHANGED <<output, recorded, sender, running, requested>>
     \/ /\ outputTask = "requesting"
        /\ RequestShutdown
        /\ outputTask' = "exited"
        /\ UNCHANGED <<output, recorded>>
  /\ UNCHANGED <<connect, terminal, published, completed, caller, writerVars, reader, received,
                 coordVars, handles, asking, now>>

-----------------------------------------------------------------------------
(* The shutdown coordinator.                                               *)

\* The request arrives; stop_serial_writer takes the deadlines it will respect.
CutOff ==
  /\ coord = "waiting" /\ requested
  /\ coord' = "stopping"
  /\ requested' = FALSE
  /\ cutoff' = active
  /\ settleBy' = Latest(settle, active)
  /\ UNCHANGED <<cancelled, log, handles, terminal, published, sender, completed>>

\* The pending write may be cancelled only after the deadline it began with.
Cancel ==
  /\ coord = "stopping" /\ writer # "exited" /\ ~cancelled
  /\ cutoff = 0 \/ now >= cutoff
  /\ cancelled' = TRUE
  /\ UNCHANGED <<coord, cutoff, settleBy, log, handles, terminal, published, sender, requested, completed>>

\* The coordinator goes on from one state to another.
CoordGoes(from, to) ==
  /\ coord = from
  /\ coord' = to
  /\ UNCHANGED <<cutoff, settleBy, cancelled>>

CoordOnly == UNCHANGED <<log, handles, terminal, published, sender, requested, completed>>

\* The writer is joined; after a success the budgets of its writes are waited for.
JoinWriter ==
  /\ writer = "exited"
  /\ CoordGoes("stopping", IF failed THEN "clearing" ELSE "settling")
  /\ CoordOnly

Settle == now >= settleBy /\ CoordGoes("settling", "clearing") /\ CoordOnly

\* clear_output drops the control handle.
Clear ==
  /\ CoordGoes("clearing", "joiningReader")
  /\ handles' = handles \ {"control"}
  /\ UNCHANGED <<log, terminal, published, sender, requested, completed>>

\* Mutant of JoinReader: the reader is left to end on its own.
SkipReader == CoordGoes("joiningReader", "joiningOutput") /\ CoordOnly

JoinReader == reader = "exited" /\ CoordGoes("joiningReader", "joiningOutput") /\ CoordOnly

\* Mutant of JoinOutput: queued output is not waited for.
SkipOutput == CoordGoes("joiningOutput", "marking") /\ CoordOnly

JoinOutput == outputTask = "exited" /\ CoordGoes("joiningOutput", "marking") /\ CoordOnly

\* TerminalControlState::mark_disconnected; a session that was not listed stays so.
MarkDisconnected ==
  /\ CoordGoes("marking", "clearingLogs")
  /\ terminal' = IF terminal = "connected" THEN "disconnected" ELSE terminal
  /\ UNCHANGED <<log, handles, published, sender, requested, completed>>

\* clear_session_logs.
ClearLogs ==
  /\ CoordGoes("clearingLogs", "completing")
  /\ log' = FALSE
  /\ UNCHANGED <<handles, terminal, published, sender, requested, completed>>

\* Completion is published and the entry removed under the lock of the sessions.
Complete ==
  /\ CoordGoes("completing", "done")
  /\ completed' = TRUE
  /\ published' = FALSE
  /\ sender' = FALSE
  /\ UNCHANGED <<log, handles, terminal, requested>>

CoordStep ==
  /\ \/ CutOff \/ Cancel \/ JoinWriter \/ Settle \/ Clear
     \/ JoinReader \/ JoinOutput \/ MarkDisconnected \/ ClearLogs \/ Complete
  /\ UNCHANGED <<connect, running, caller, writerVars, readerVars, asking, recorded, now>>

\* Bound: the clock moves only while somebody waits for a deadline.
Tick ==
  /\ now < deadline \/ now < settleBy
  /\ now' = now + 1
  /\ UNCHANGED <<connectVars, shutdownVars, writerVars, readerVars, coordVars, handles, asking, recorded>>

Next ==
  \/ Open \/ GiveUp \/ SpawnWorkers \/ RegisterTerminal \/ Publish \/ DropConnect
  \/ Enqueue \/ WriterStep \/ ReaderStep \/ OutputStep \/ CoordStep \/ Tick
  \/ \E t \in asking : TaskRequests(t)
  \/ \E c \in Caller : Disconnect(c) \/ DisconnectReturns(c)

Spec == Init /\ [][Next]_vars

\* Threads and tasks are scheduled, a driver call ends by its timeout, deadline or
\* cancellation, and time passes; no user disconnects or types for certain.
Fairness ==
  /\ WF_vars(SpawnWorkers \/ RegisterTerminal \/ Publish)
  /\ WF_vars(WriterStep) /\ WF_vars(ReaderStep) /\ WF_vars(OutputStep) /\ WF_vars(CoordStep)
  /\ WF_vars(Tick)
  /\ \A t \in {"writer", "reader"} : WF_vars(TaskRequests(t))
  /\ \A c \in Caller : WF_vars(DisconnectReturns(c))

FairSpec == Spec /\ Fairness

-----------------------------------------------------------------------------
(* Properties.                                                             *)

ConnectState == {"opening", "opened", "spawned", "registered", "connected", "ended"}
WriterState ==
  {"none", "receiving", "block", "chunk", "ready", "writing", "after", "failing", "exited"}
ReaderState == {"none", "waiting", "checking", "reading", "leaving", "exited"}
CoordState ==
  {"none", "waiting", "stopping", "settling", "clearing", "joiningReader", "joiningOutput",
   "marking", "clearingLogs", "completing", "done"}
Answer == {"none", "partial", "full", "zero", "interrupted", "cancelled", "error"}

\* Every variable keeps its type: blocks are never taken from an empty queue and every
\* deadline is a point in time.
TypeOK ==
  /\ connect \in ConnectState
  /\ handles \subseteq {"reader", "writer", "control"}
  /\ terminal \in {"none", "connected", "disconnected"}
  /\ published \in BOOLEAN /\ running \in BOOLEAN /\ requested \in BOOLEAN
  /\ completed \in BOOLEAN /\ sender \in BOOLEAN /\ failed \in BOOLEAN
  /\ cancelled \in BOOLEAN /\ log \in BOOLEAN
  /\ caller \in [Caller -> {"idle", "waiting", "returned", "notFound"}]
  /\ accepted \in Nat /\ queue \in Nat /\ received \in Nat /\ recorded \in Nat
  /\ writer \in WriterState /\ result \in Answer
  /\ deadline \in Nat /\ active \in Nat /\ settle \in Nat
  /\ cutoff \in Nat /\ settleBy \in Nat /\ now \in Nat
  /\ reader \in ReaderState
  /\ output \in [blocks : Nat, error : BOOLEAN]
  /\ outputTask \in {"none", "receiving", "requesting", "exited"}
  /\ asking \subseteq {"writer", "reader"}
  /\ coord \in CoordState
  /\ succeeded \subseteq Nat

\* Once the shutdown is complete, and so whenever a disconnect command that waited for it
\* returns, no handle of the port is open, the terminal is disconnected and the log closed.
ReturnedMeansReleased ==
  /\ completed => handles = {} /\ terminal # "connected" /\ ~log
  /\ \A c \in Caller : caller[c] = "returned" => completed

\* A healthy write is never cancelled before the deadline it began with: the coordinator
\* either saw that deadline or the write did not begin (ARCHITECTURE.md, Serial shutdown).
CancelOnlyExpired ==
  [][cancelled' /\ ~cancelled /\ writer = "writing" => now >= deadline]_vars

\* Unless the writer failed, the port is kept open until the deadline of every write that
\* succeeded, of the ones before the shutdown request too, however short later ones were.
SettledBeforeRelease ==
  handles # {} \/ failed \/ \A d \in succeeded : d <= now

\* What was read or reported is recorded while the session is still connected and its log
\* open: the shutdown never overtakes output on its way.
OutputBeforeTeardown ==
  [][recorded' # recorded => terminal = "connected" /\ log]_vars

\* A shutdown that was requested completes, whatever the writer, the reader and the device
\* do; a failure of either ends the session without anybody's help; a connect command
\* that does not finish leaves no handle behind; and disconnect commands return.
EndsReleased ==
  ~running \/ failed \/ output.error \/ connect = "ended"
    ~> /\ handles = {} /\ terminal # "connected"
       /\ \A c \in Caller : caller[c] # "waiting"

\* docs/CLI_GUIDE.en.md: a successful disconnect of a session means that its port has
\* been released.
SuccessMeansReleased ==
  \A c \in Caller : caller[c] \in {"returned", "notFound"} => handles = {}

=============================================================================
