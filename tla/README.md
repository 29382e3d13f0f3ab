# Verification of ExaTerm

ExaTerm is a desktop terminal (Tauri: a Rust backend and React windows) for SSH,
Telnet and serial sessions. This directory holds TLA+ models of its stateful
parts, TLC configurations that check them on small instances, and proofs, checked
by TLAPS, of their main properties for every instance. Paths below are relative
to the repository: `src-tauri/src/` is the backend, `src/` the frontend.

## 1. Inventory

| Component | State it keeps | Operations | Hard part | What makes it correct | Module |
|---|---|---|---|---|---|
| Workspace placement (`workspace/`) | windows with tab order and active tab, tabs with owner, focus history, drag session, revision | register, focus, close windows; register, activate, reorder, move, remove tabs; drag and drop; detach | window events run in spawned tasks; drop and detach take the lock several times; registration awaits under the lock | a tab is in one place, with that owner; no tab is lost; a window with tabs shows one | `Workspace` |
| SSH attempts (`connect_attempt.rs`, `ssh/connection.rs`, `ssh/shell.rs`, `ssh/jump.rs`) | pending attempts with a cancel flag, transports | register, run, cancel, complete, clean up | cancel against completion; future dropped at any await | a cancelled attempt registers no session; nothing is left open | `SshConnect` |
| SSH password cache (`ssh/password_cache.rs`, `ssh/password_auth.rs`) | generation, entries with revision | checkout, remember, reject, clear | leases outlive what they were taken from | only accepted passwords of live attempts, none from before a clear | `SshConnect` |
| SSH prompts (`ssh/authentication_prompt.rs`, `ssh/host_key_prompt.rs`, `ssh/prompt_cleanup.rs`) | pending prompts with a response channel | request, submit, cancel, time out | answer, cancellation, timeout and closing window race | each prompt ends once and is dismissed | `SshConnect`, `HostKeys` |
| Known hosts (`ssh_known_hosts.rs`, `ssh/host_key.rs`) | trust file | inspect, confirm, write | confirmation inside the handshake; several handshakes share the file | nothing is trusted without the user's consent | `HostKeys` |
| SSH session (`ssh/io.rs`) | sessions, bounded read queue, drop state | read, write, resize, disconnect | full queue; four sides that tear down | output is in order or announced as dropped; whoever tears down leaves nothing | `SshIo` |
| Serial session (`serial.rs`, `serial/`) | lifecycle, write queue, worker threads, deadlines | write, disconnect, worker exit | shutdown from several sides; pending native write | finalized once, after every handle is released | `SerialSession`, `WriteTiming` |
| Telnet (`telnet.rs`, `telnet/`) | codec state, session, request queue | parse, negotiate, resize, write, disconnect | input split anywhere; reader and resizes share codec and queue | the peer is understood however its bytes are cut; the last size wins; a disconnect returns after the end | `TelnetCodec`, `Telnet` |
| Retained output (`terminal_control.rs`) and restoration (`terminalOutputSyncController.ts`) | decoded tail, cursors, pending events | append, snapshot, delta; restore, recover a gap | events overtake the snapshot; truncation | every character at most once, in order | `TerminalOutput`, `OutputSync`, `OutputStream` |
| Logger (`logger.rs`, `logger/`) | capture per session, operation locks, index | start, pause, resume, stop, capture, flush, clear, bulk deletion | teardown against a late start; failing writes | a log holds what was to be recorded, once; the tab shows what the logger does | `Logger` |
| External control (`external_control/`) | pending focus, log and credential requests, launch lock | find or start the GUI, connect, focus, log, write, read, wait | acknowledgement against timeout and moved tabs; lost wakeups; two launchers | one truthful result per request, within permissions; one GUI | `Launch`, `Reading`, `ExternalRequests`, `ExternalControl` |
| CLI follow loop (`terminal_cli.rs`, `terminal_cli/follow.rs`) | cursor, tail for the marker, totals | read, wait, drain, list | marker cut by reads; session ends between steps | what is written accounts for the output | `Reading` |
| Settings (`config.rs`) | two files, written one after the other | load, merge, save, profiles, migrate | edits of two windows; a restart between the files | an edit is never lost to an older one; what is saved can be read | `Settings` |
| Connection history (`connection_history.rs`) | a list of recent destinations | record, delete, clear | switch read before the lock | the newest of each destination, within the limit | `ConnectionHistory` |

Interaction: windows call backend commands and receive events. Protocol sessions
publish output and status in `terminal_control.rs`; teardown marks that registry
first and the workspace second, and the workspace reads the registry while it
holds its own lock when a tab is registered. Output is captured for the log under
the registry's lock. Clients of external control read the registry and ask windows
through events.

`PROJECT.json` lists every component with its status, the map from definitions to
source lines, and the hazards, each at its line.

## 2. How the modules fit together

`HostKeys` is extended by `SshIo` (the connection that is verified becomes the
session), `Settings` by `ConnectionHistory` (the history obeys a setting),
`TerminalOutput` is used by `OutputSync`, which refines `OutputStream`, and
`Launch`, `Reading` and `ExternalRequests` are composed in `ExternalControl`. `MC*`
modules and `.cfg` files hold the instances, `*Proofs` modules the theorems.

| Run | Instance | Shows |
|---|---|---|
| `workspace` | 2 windows, 2 tabs (symmetric), 2 tasks or commands under way | placement, order, status of tabs while windows and tabs come and go |
| `workspace_close_moved` | 2 windows, 1 tab, 2 tasks or commands under way | finding: `KnownTabs` |
| `ssh` | 2 attempts whose jump hosts are each other's target, one of external control, 1 clear; fairness | cancellation against completion and storing; stale leases; the right password for each hop; every attempt and prompt ends |
| `ssh_transport` | 2 handshakes, 2 keys, then 1 session with a queue of 1, 3 chunks, 1 write, 1 disconnect, 1 failed write of the file; fairness | consent, saved keys, accounted output, teardown |
| `ssh_exit_early` | 1 connection | finding: `ExitFinalizes` |
| `serial` | budgets 1 and 2, 2 blocks, 1 read, 1 disconnect, baud rates 1 to 60 and six common ones; fairness | cutoff, settling, order of the teardown, shutdown completes; budgets against wire time |
| `serial_early` | 1 disconnect | finding: `SuccessMeansReleased` |
| `output_sync` | 4 events of 2 characters or a notice, limits 1 and 3, a read of 3, 2 initial deltas, 2 failures; fairness | each character once and in order, no lost wakeup, delivery, recovery, silence and release after closing |
| `telnet` | 2 disconnects, 2 resizes, a queue of 1, 2 reads, 1 input; endless streams of 2 data bytes, 2 options, 4 payload bytes, cut in reads of 1 or 2; subnegotiations of 2; 1 size, 1 input; fairness | sizes in order, finality of disconnect, no deadlock, transparent codec |
| `logger` | 2 sessions, 2 files, 2 operations at once, 3 characters, 1 failure | nothing lost or reordered in a log, truthful tab |
| `settings` | 2 windows, 4 settings, 2 profiles, 4 first files, 4 commands, 1 failure, 5 destinations | merge, loadability, profiles, history |
| `external` | 2 clients; 1 reader of 5 characters with 3 retained; 2 requests at once, 2 windows, 1 move | one GUI, waits that wake, accounted follow, truthful results |

Every property of a passing run has a mutant in `PROJECT.json`: a plausible bug
in a mapped definition with which TLC finds the property violated.
Each type invariant is one of a module's run where the module's proof needs it.

What can race in a property meets in its run: two attempts, handshakes, operations,
requests, launchers or commands under way, or one session with its threads, tasks and
callers where the code shares nothing between sessions. More of them are left to the
theorems.

## 3. Workspace

`Workspace.tla` models `workspace/model.rs`, `workspace/state.rs`,
`workspace/commands.rs`, the window events of `lib.rs` and `disconnectTab` of
`useTerminalTabLifecycle.ts`.

State. `windows`, `order`, `active`, `tabs`, `owner`, `connected`,
`lastFocused`, `focusOrder` and `drag` are the fields of `WorkspaceModel`. Around
them: `native`, the operating system's windows; `session`, the protocol session of
a tab and how far its teardown is; `registering`, the mutex held by
`register_session_tab` across its await; `focusing` and `unregistering`, the
spawned tasks of window events and the registrations of new windows; `closing`,
the close operations of the frontend; `move`, the drop or detach command and its
next step.

Actions. One per method of `WorkspaceState`, since each holds the mutex
throughout; `register_session_tab` is `ReadStatus` and `InsertTab`. The drop and
detach commands are `DropPrepare` or `DetachBegin`, then `CreateTarget`,
`RegisterTarget`, `MoveStep`, `CancelStep`. A delayed task is a set member that
any later step may consume. The frontend disables dragging, detaching and
dropping on a tab it is closing, and the guards on `closing` say so. Invalid
calls that only return an error are not steps.

Bounds. `MaxInFlight` bounds the tasks, close operations and commands under way.
With 2, a window closes or a tab is being closed while a drop, a detach or the registration
of a window is half way. More windows are left to the proofs, and so are hover indices
(`MaxIndex`) past the first place, with their clamping. Deadlock is not checked: the
program stops with its last window.

The finding is a state that `validate_invariants` reports as an error; debug builds
stop when a snapshot is taken (`debug_assert_invariants`), and the model is the
release build, which goes on. The model also reaches two neighbours of it: a tab
owned by a window that is not registered, when a move's target closes, and a tab
that is registered again after it was closed.

Proofs (`WorkspaceProofs.tla`). `Inv` conjoins `TypeOK`, `PlacedOnce`,
`OwnerAgrees`, `ActiveIsListed` and `FocusIsRegistered`; it is inductive. The
parts need each other: `OwnerAgrees` after a move needs that no third window lists
the tab, `PlacedOnce` after a rehoming needs that a closing window's tabs are not
in the destination, and `ActiveIsListed` needs that an unregistered window has an
empty order. There is one lemma per action or group of actions that leave the
placement alone, over lemmas on the sequences (`Without`, `InsertAt`, `Append`).
`StaysListed` follows step by step from `Inv`. `NeverRevived` needs in addition that
the status read by a registration still holds (`StatusHolds`): the second step of
a teardown waits for the mutex. The only assumption is `WorkspaceAssumption`.
Nothing about liveness is claimed of this module, because no window or task is
obliged to act.

## 4. SSH connection attempts

`SshConnect.tla` models one `ssh_connect` call per attempt, from its registration
to the registered session or its cleanup, with the cache and the prompts that
attempts share.

State. `pc` is where the attempt's future is and `hop` whether it talks to the jump
host or the target. `pending` and `cancelled` are `ConnectAttemptState` and the
watch channels; `cancelling` holds the cancel commands between the flag and the
prompts. `prompts`, `reply` and `dropping` are the pending prompts, their response
channels and the tasks `PromptCleanup` spawns. `generation` and `entry` are the
cache, `began` and `lease` what each attempt read from it. `accepted` and `refused`
record what servers answered; no action reads them.

Actions. A future that resumes from an await first meets `ConnectAttempt::run`,
which polls the cancellation: such an action has the guard `Live`, and `Abort`
takes its place otherwise. What follows in the same poll is not guarded.
`TypedAccepted` and `Remember` are apart because a cancellation on another thread
may come between them, and `InsertPrompt` because a cancellation may have looked
for prompts just before. `Complete` and `Cancel` exclude each other: both hold the
pending map's lock. Servers and users are nondeterministic. Attempts of external
control (`External`) carry no `ConnectAttempt` and cannot be cancelled. A key stands
for host, port, user and verified host key.

Bounds. `MaxRounds` is `MAX_AUTHENTICATION_STAGES`, 8 in the code; with 1 every hop
has a round of its own, which is also its last. `MaxClears` 1 separates two
generations; leases compare generations only for equality. Two leases of an entry
that a third attempt writes to are left to the proofs, which hold for any number of
attempts and rounds. Deadlock is not checked: nothing has to happen once every attempt
has ended.

Fairness. Every await of an attempt (handshake, authentication, prompt, channel, PTY,
shell, cleanup) has a deadline, so its future is resumed in the end, except one: the
disconnect of a jump host that refused (`ssh/jump.rs:95`) is awaited without one, and is
assumed to return. The runtime runs every spawned task: weak fairness of the attempt's steps, of `CancelPrompts`
and of `DropPrompt`. Users need not answer; `PromptTimeout` is what then ends the
prompt.

Proofs (the first part of `RemoteProofs.tla`). The invariant `Inv` adds to `TypeOK`:
`ControlInv` (cancelled and completed exclude each other), `StoredInv` (what is
stored was accepted for this key in this generation), `TriedInv` (the same of a
lease being tried), `LeaseInv` (a lease equals its entry, or the entry's revision
has moved on and it no longer holds the leased password) and `SpentInv` (a password that
is stored, leased or refused belongs to an authentication that is over). The last
one is why a refused password cannot return: nobody can store it a second time, and
`LeaseInv` says that a rejection that finds another revision finds another
password. Most actions are `Quiet` (they touch neither cache nor leases) and are
covered by one lemma; the others have one each. Proved from `SshAssumption` alone,
for any number of attempts, keys and clears: `TypeOK`, `CancelledNeverRegisters`,
`CacheIsTrue` and `EntriesChangeRightly`. `AttemptEnds` is only model-checked.

Left out: duplicate request ids, since ids are unique; key files. The host-key prompt
is in `HostKeys`, the session after its registration in `SshIo`. The code leaves the
keyboard-interactive loop after the last response without looking at the server's
answer to it, and so does `KeyboardResult`.

## 5. Host keys and SSH sessions

`HostKeys.tla` models the verifier of a handshake (`ssh/host_key.rs`), its
confirmation (`ssh/host_key_prompt.rs`, `ssh/prompt_cleanup.rs`) and the file
(`ssh_known_hosts.rs`). `SshIo.tla` continues with the session of one of these
connections: the end of `ssh/connection.rs`, and `ssh/io.rs`.

State. `known` is the file as a set of lines, `phase` where each handshake is,
`pending`, `reply` and `dialog` the map of prompts, their channels and the windows'
dialogs, `lines` what a handshake is about to write. `consent` (the keys a user has
accepted) and `overlapped` are history. In `SshIo`, `link` is the task of the transport,
`connect` the connecting command, `listed`, `terminal`, `jump` and `log` what a teardown
has to take away, `queue` the bounded read queue; `owner`, `writer` and `caller` are
where the teardowns by the handler, the writes and the disconnects are. Two owners:
a callback of the handler, and its drop.

Actions. Nothing locks the file, so reading it, removing the old one and renaming the
new one are three steps that other handshakes interleave with. `Submit` and `Cancel` race
with `Expire` and with `Abandon`, the drop of the attempt. Teardown has one action per
stretch between two awaits, since any of the four sides may have begun before.

Bounds. Two handshakes with one host, one of which may replace a key, make every
overlap; the file is empty or knows two hosts. `MaxWriteFailures` 1. `Alone` explores the
session where the other handshake has not begun: the two share no state. A queue of 1
(1024 in the code) and 3 chunks fill it and drop one with and one without a notice of its own
(`NoticeInterval` 2).

Fairness. Every step a task can take by itself, once it has begun; a prompt's deadline;
the transport's handling of messages. Nobody has to answer, disconnect, send output or end
the transport.

`SavedKeysStay` speaks of writes that neither overlap nor fail: the code can lose lines
otherwise (see 12). The finding `ExitFinalizes` is the case `Settles` excludes with `early`.

Proofs (`SshIoProofs.tla`). `ConsentInv` follows the user's "yes" from the channel of a
prompt to the file: an answer of yes, the phases after it and the lines about to be
written all name accepted keys. `SavedInv` carries `SavedKeysStay`: until two
writes overlap there is one writer, and once it has removed the old file its lines are still
what the old file would give (`NewLines`), so `Saved` changes at the removal alone; what it
then lacks is what the user was shown as a mismatch. `OutputInv` adds to `OutputAccounted`
that a processor that runs has its terminal registered. `Settles` is only model-checked.

## 6. Serial sessions

`SerialSession.tla` models one session: `serial.rs` from the opened port on,
`serial/writer.rs` and `serial/lifecycle.rs`. `WriteTiming.tla` is the arithmetic of
`serial/writer/timing.rs`.

State. `connect` is where the connect command is, `handles` the open handles of the
port. `published` and `sender` are the entry of `SerialState.sessions` and the
sender in it; `running`, `requested` and `completed` are `SerialShutdown`.
`writer`, `reader`, `outputTask` and `coord` are where the two threads and two tasks
are; `asking` holds the tasks spawned to request a shutdown. `deadline` is local to the
writer; `active` and `settle` are `TransmissionDeadlines`; `cutoff` and `settleBy` are
what `stop_serial_writer` took from it. `succeeded` is history.

Actions. A block stands for one chunk. The writer has one action per stretch of code
between two looks at shared state: the checks before a write, taking the deadline
under the lock, the write, publishing its result under the lock, and looking at
`running` again. A reader that fails sends its error, requests the shutdown and drops
its handle only then (`LeaveReader`). The coordinator's joins and marks are one action
each. On Windows (`HasPolicy`) a write has a deadline and can be cancelled; elsewhere
it returns by the port's own timeout. The runs have Windows, where serial ports are this
program's business; the proofs cover both.

Bounds. Two blocks of different budgets are what `settle_until.max` is about; one
block read and one error are what can be queued at a teardown. `Tick` lets time pass
only while a deadline lies ahead, so the clock needs no bound of its own. Two disconnects
are left to the proofs. `BudgetCoversWire` is evaluated where the port is being opened, for
data of up to 150 bytes.

Fairness. Threads and tasks are scheduled; a native write or read returns by its
timeout, its deadline or its cancellation, which `OverlappedPort::operation` waits
for; time passes. Nobody is obliged to connect, type or disconnect, but a connect
command whose future is not dropped goes on.

Proofs. `SerialSessionProofs.tla`: `Inv` says for each state of the coordinator what it
has joined (`Joined`), which handles are gone (`Handles`), what is marked and closed
(`Marked`); that before publication nothing can stop the session (`Connecting`) or
pass through it (`Unpublished`); that no write begins once the coordinator is at work
(`Stopped`); and that its `cutoff` is the deadline of the write in progress while
`settleBy` bounds every successful one (`Deadlines`). The last two carry
`CancelOnlyExpired` and `SettledBeforeRelease`: the first holds because `active` is
written under the lock that the check of `running` is made under. All safety
properties are proved for any budgets, callers and bounds, from `SerialAssumption`.
The last part of that module proves `BudgetCoversWire` for every positive baud rate: the chunk
size is a quotient rounded down and the transmission one rounded up, and the two
roundings together stay within the margin. `EndsReleased` is only model-checked.

## 7. Telnet

`TelnetCodec.tla` is `telnet/codec.rs` byte by byte: `ReadByte` is one turn of the loop of
`parse`, `EndRead` the end of the call, where data is appended and replies are queued before
the codec's mutex is free; a resize comes between calls, input at any time. Two things stand
beside the code. The peer's stream is cut where RFC 854 and 855 cut it (`piece`, `inside`,
`payload`), which any bytes can be, and `meant` says what it means; the reads cut it
anywhere else. And a `peer` with the same rules reads what the program writes, byte by
byte. `CodecIsTransparent` has two parts: `PeerIsUnderstood` compares what `parse` has
returned with `meant`, at every byte; `PeerUnderstands` compares what the peer has read at
the end of a message with what the user typed, or the size. `Telnet` and `TelnetCodec`
share no variable, so their run has the steps of each where the other has not begun; a
product of the two would show no more.

`Telnet.tla` models the session: `telnet.rs` and `telnet/session.rs`. The reader and the
writer are two futures of one task, which drops both when either ends: `Ends`.
`codec` is the holder of the codec's mutex, `queue` the writer's bounded queue, `size`
the resize the codec knows last and `told` the last one the peer got. A resize and the
reader lock the codec first and wait for a slot second, with the codec held; this order is
what `SizeInOrder` and `CommandsEnd` depend on, and their mutants change it. The task's
end is one action per await.

Bounds. A queue of 1 (64 in the code) is always close to full. Two reads, two resizes and one input
exceed it. For the codec, a subnegotiation may have 2 bytes (4096 in the code): the request for
the terminal type just fits and one for a size is too long. A read has 1 or 2 bytes, so that it
may end inside every command. `PeerLimit` is 5, the bytes that tell a size. The
size is 0 by 65536, which is clamped on both sides and has bytes to escape; the theorem
has any.

Fairness: the task's own steps, resizes and disconnects that have begun. The peer may stop
reading; `PeerReads` states where it may not.

Proofs (the second part of `RemoteProofs.tla`), from `TelnetAssumption`. `SizeInv`: the size the
peer will have been told last is the codec's, while the task runs. It is inductive with what
the reader knows at the await inside its lock (`ReaderHolds`): it has the codec, so the size it
is about to announce cannot change, and a resize can come neither between its reply and its
slot nor between another's new size and the queue. `FinalInv` says what each step of the
session's end has left behind, so that a caller that has waited for the end clears the last
log there can be. The session's definitions are named `TelnetInit`, `TelnetNext`, `TelnetSpec`
because the module of the proofs extends `SshConnect` too. `CommandsEnd` is only model-checked.

The third part proves `CodecIsTransparent`, from `CodecAssumption`: for any bytes,
any cut into reads, any limit, any input and any sizes. `ReadInv` says, for each place in a
command where a read may end (`ByteToCome`, `PairBegun`, `OptionNamed`...), what state the
parser is in, and that its data, replies and payload are those of the commands before.
`SpeakInv` does the same for the peer and the message that it reads: the input that is left
is the escaped rest of what the user typed (`TextLeft`), or a subnegotiation whose rest
completes a size (`PayloadLeft`). That needs `escape_iac_bytes` from the front, while
`FlattenSeq` builds it from the end: `FlattenUnfolds` is proved by induction over the number
of sequences. The library's induction theorems take an operator, so `AllNaturals` states it for a
set of naturals, from their well-foundedness. Every message in the queue has one of the
three forms of `Sayable`, and a size, once it is between 1 and 65535, is what its two bytes tell
(`SizeFits`), also where one of them is 255.

## 8. Retained output and restoration

`TerminalOutput.tla` models the retained output of one session in
`terminal_control.rs`; `OutputSync.tla` the worker that appends and emits, the events
in flight, and `terminalOutputSyncController.ts`; `OutputStream.tla` what a view
promises: every character at most once, in order, and none skipped that is retained.

State. A character is the number of those before it, so `cursor` and `dropped` are the
whole text. `emission` lies between `append_output` and `emit`, which are two steps;
`wire` holds the events on their way. `listener` is a channel's subscription in the
backend and in the controller. `phase`, `applied`, `pending` and `writing` are the
controller's own; `task` and `request` are the await it stands at. `heard` and
`retained` say whether `receivedVersion` and `retainedVersion` have moved since the
controller looked. `shown` is history.

Actions. The window has one thread: what the controller does between two awaits that
wait for something is one action. Its budgets of characters, events and deltas only
decide when it yields; here it may yield after every event and every part of a text,
so every schedule of the code is one of the model's. The channels are those of SSH,
where output arrives on either; on Telnet and serial sessions output has one of them
to itself, which is the case where `Emit` always picks the same.

Bounds. A gap needs an event that was missed, so a listener that failed; a recovery
that fails needs a second failure. With chunks of 2, limit 1 drops half a chunk and
limit 3 cuts one, so ranges overlap events in every way. Two initial deltas make the
loop both repeat and end at its limit. As in the code, one read can hold everything
that is retained (`RESTORE_MAX_CHARS` is `MAX_OUTPUT_LIMIT`).

Fairness. The worker emits what it appended, the backend registers listeners and
answers, and the event loop goes on. Nobody has to produce output or close the view.
`CatchesUp` joins two promises: `Delivered`, of behaviours without a failure, that the
view catches up again and again; and `Recovers`, the same of those whose failures are over.

Proofs. `OutputSyncProofs.tla` proves the type invariant, `NoLostWakeup`,
`SilentAfterDispose` and the refinement `RefinesStream`, for any chunks, limits,
channels and bounds, from `OutputAssumption` and `SyncAssumption`. `Inv` adds what
relates the two sides: the cursor is what follows the last character shown, or
everything between them has been dropped (`ShownUpToCursor`); a range that was read
starts at the cursor or in what was dropped (`AnswerFits`), which rests on the
retained text fitting into one read (`TailFits`); what is being written starts at the
cursor (`WritesNext`). A write then is `Show`, an append `Produce`, and every other
step a stutter. Liveness is only model-checked.

## 9. Logger

`Logger.tla` models `logger.rs`, `logger/operations.rs`, and the flush of `app_exit.rs`.

State. `log` is the entry of `LoggerState.sessions` with its capture: cursor, pause, the
text that could not be written yet (`pending`) and the line the sanitizer holds back
(`line`). `content`, `exists`, `history` and `readable` are the files, by what each session
has in them, the rows of `index.json` and whether it still parses; `flags` is what the
session's tab shows; `ops` the manual operations between their steps, under the operation
lock. History: `due` is what each file owes of each session, `torn` where a failed write
has left a part.

Actions. Output is captured under the registry's lock, so `Produce` appends and captures
at once. A manual operation is the check of the tab, the start, stop or pause, the
status and the synchronization with the workspace: a step each. A write that fails may have
written some of its text, and all of it stays pending (`WriteFails`), so that the retry
writes the part again. A start may fail at the file, before or after it was created or
emptied, or at the index, which a failed write may cut off (`CreateFails`). A chosen file is
any, also one another session logs to; an overwrite empties it for both.
`FinishAllLogs` flushes up to the first log that fails and forgets none unless all succeed.
A part ends between two characters; how two sessions' lines lie in one file is left out.

Bounds. Three characters, of which the second ends a line, are one written, one that ends
a held line and one held; two files let a log be chosen, appended to, replaced or deleted;
two operations are all that can race for one lock. The second session (`Bounded` in
`MCLogger`) outputs one character into an automatic log in the display format that runs
before the first session outputs anything and as long as the application does, which is
enough to share a file, to have it emptied and to make the flush at exit partial; what it
does beyond is left to the proofs. One write fails. No liveness: nobody owes an operation.

Proofs (`LoggerProofs.tla`), for any sessions, files and failures, from `LoggerAssumption`.
`LogInv` carries `LogsIntact`. Its heart is `Recording`: what a session has in a file,
followed by what its log still holds for it, is what the file owes, in order, and twice only
where a write was torn; all of it lies before the end of the output (`Bound`), so that what
comes next comes last. An active log's cursor is the end of the output (`Capturing`), its row
and file exist (`Guarded`), and `Fresh` keeps the automatic start from meeting a log. A
failed write keeps `Recording` because what is held increases: a part of it followed by all
of it repeats only what is there already (`Torn`). `MetaInv` carries `MetadataAgrees`: one
operation at a time has a session's lock (`Serialized`), and each step of it knows what the
tab shows or what it is about to tell it (`Knows`); before the tab there is, the capture is
as the automatic start left it (`Announced`).

## 10. Settings and history

`Settings.tla` models `config.rs`; `ConnectionHistory.tla` adds `connection_history.rs`.

State. `file` is `config.json`: its members, those under earlier names, the profiles an
earlier version kept in it. `profiles` is the file of the profiles, `view` what each
window works from, `job` the command that holds the lock with the writes it has left.

Actions. A command reads both files and computes its writes in one step, since no
other writer can come between; each write is an action, and `WriteFails` or `Restart` may
come before any. `MergeEditedConfig` is the three-way merge. A record of the history is
two steps, since the switch is read before the history is locked.

Bounds. Two shortcuts that can meet in one binding, one that normalizes, one unusable;
a switch with an earlier name; a file of each age. Four commands are two windows that load
and save. An edit changes up to two settings, which is what swaps two bindings.

Proofs (`SettingsProofs.tla`). `SettingsInv`: the file has values of each setting
(`FileOk`), what is stored can be read, and every write a job has left is good for what was
asked (`GoodSettings`, `GoodProfiles`), now that the earlier ones have been done. The
last part needs that reading gives the same profiles before and after they are copied, and
that a written, migrated configuration reads as itself (`Canonical` is idempotent, in
`SettingsAssumption`).

`HistoryInv` is `HistoryIsRecent` with the ranges of the identifiers. The work is in `Retain`,
`Vec::retain` as a list over the positions kept: there is one way to number a set of positions in
their order (`RetainIs`), so that the list is a bijection with what was kept and has as many
entries of each kind (`RetainKeeps`). A position that the limit drops has more than `MaxEntries`
of its kind up to it, of which the last one kept is the `MaxEntries`th; so the kind is full, and all its
entries are later (`LimitKeeps`). A destination recorded again takes its old place out first,
and every visit that was pushed out before stays pushed out, because the others only move up
in time (`UpsertKeeps`). From `HistoryAssumption` alone.

## 11. External control

Three modules without common state, composed by `ExternalControl.tla`, where `stage`
says which one a behaviour explores.

`Launch.tla`: `external_control/client.rs`, the check of `terminal_cli.rs`, the listener of
`server.rs`. Clients probe, take the launch lock, look again, spawn the GUI and wait. The
lock is a mutex on Windows, freed with its process, and elsewhere a file, which stays.
GUIs of another protocol version, without a control plane, started and closed by the
user are there too; `MaxUpsets` bounds clients killed and switches changed, `MaxStarts` the
GUIs. A client that has given up may be followed by another GUI, and `OneLaunch` says so.

`Reading.tla`: the wait of `external_control/service/terminal.rs`, `run_terminal_command`,
and the loop of `terminal_cli/follow.rs`. Here characters count, so the text is a sequence
over pieces `a`, `b` and `aa`, with marker `aa`: it overlaps itself and is cut by reads,
by retention and by the total limit. The waiter arms its future, reads, looks at the status
and sleeps; a notification wakes the futures that exist. One client at a time: clients share
nothing that they write.

`ExternalRequests.tla`: focus with acknowledgement and retry, log control through the
window that owns the tab, disconnect, and connecting with permissions, prompts, automatic
log and tab. `pending` and `inbox` are the entries of `focus.rs` and `protocol.rs` and the
events windows have not dealt with; answers come late, twice or never, and `TimesOut` leaves the
event with its window. A request to focus is heard by every window, whose listener takes any
target, so windows that were not asked answer it as well; `EntryFor` is what refuses them. A
prompt is open in all windows, each of which shows its oldest first. The session may be a
serial one that is listed before its map has it (`opened`); a disconnect is then answered
with success and does nothing, which is the finding of `serial_early`.
`ResultsHold` compares an answer with the history of the log and of the switches while the
request ran (`seen`, `granted`), since a state may change again before the answer is read,
and demands that an answer that is taken comes from a window that was asked.

Bounds. `MaxMoves` is what the users of the windows do meanwhile. In `MCExternal` two
requests about the session run beside each other, or two that connect, whose prompts are open
together (`OfOneSort`). One of each would share no state but the numbers of the requests; the
specification and the proof have them all.

Proofs (`ExternalControlProofs.tla`). `LaunchInv`: who looks again or spawns holds the lock
(`Locked`), and the client that started a GUI which is not up yet waits under the lock or
has left (`Launched`); so a second client that looks finds it. `WaitInv`: a waiter that
has read and has no notification, arrived or on its way, would find nothing if it read
again. From `LaunchAssumption`; `WaiterAwake` needs no assumption.

`FollowInv` carries `FollowAccounts`, from `ReadingAssumption`. What has been shown is a chain of
events up to the cursor, each the text of its range, and a gap is always followed by output
(`ShownFits`). The tail is the end of the text, shown in one piece, and is shorter than a
marker only where something was missed before it (`TailFitsIn`): therefore a marker that
ends in what is read next lies within the tail and the reading, or has not been shown whole. The
first end found there is the first in the text (`MarkersFit`), and the cut by the total limit
drops it only if it drops characters before its end. `Chars` is there to give the text a type.

`RequestsInv` carries `ResultsHold`, from `RequestsAssumption`. A pending entry belongs to a caller
that waits for just this answer (`EntriesFit`), a message with that entry asks for what the
caller waits for (`MessagesMatch`), and a window that says it has done something did it while
the request ran (`MessagesFit`); identifiers are never used twice, so a late answer finds no
entry. `RequestFits` says which switches a connecting caller has passed at each of its steps, and that
a reply it has is from a window it asked.
No liveness is claimed: every call has a deadline that ends it.

## 12. What the model shows beyond the properties

States the models reach, which no document of the repository excludes and no property
forbids:

- Known hosts: two handshakes that write at once lose a line, which is asked about again.
  Where a rename does not replace, a failed rename loses the file, and a reader in the gap
  takes every host for unknown.
- A prompt that was cancelled stays in the other windows until its cleanup; the deadline is
  what ends it if its attempt goes on.
- An SSH chunk that is processed after a teardown cleared the log is shown but not logged. A
  disconnect waits for the eof and close of its channel without a deadline of its own, and a
  second caller may return before the first has closed.
- A log whose flush fails at its session's teardown stays active until exit; a Telnet log that
  starts after a disconnect got beyond its wait does too.
- A log write that fails half way leaves its part, and the retry writes the part again; the
  test of retries (`logger/tests.rs:1088`) has a write that fails as a whole.
- A start of a log that fails at the index leaves the file created or emptied, without a log;
  an index that was cut off makes every later start and deletion fail. An overwrite may empty
  a file another session logs to.
- A profile upsert whose second write fails has already stored the profile. A history write
  that stops half way makes recording fail until the history is cleared. A connection
  may be recorded just after the switch was turned off.
- Where the launch lock is a file, a killed client leaves it, and later clients wait and give
  up. A client that finds a GUI of another version starts one more.
- `run_terminal_command` may report a match whose text its second read no longer contains.
  Output that arrives after a session's status was published may be missed by a follow that
  was drained. A timed-out log request may still be carried out by its window.
- Permissions are read when a request begins, and a credential prompt may keep it for minutes.
- A credential prompt that timed out or was answered in another window stays before the later
  ones of its window, whatever the user answers, until the window reloads.
- A disconnect of a just-listed serial session is answered `disconnected: true` and leaves it
  connected.

## 13. Not modelled

`PROJECT.json` names, for each component, what is left out and why.

- The projection of the workspace in React keeps the newest snapshot by its revision and
  nothing the backend depends on; the GUI's connection-attempt and settings controllers
  mirror what `SshConnect` and `Settings` decide.
- Windows' overlapped I/O is a wrapper around system calls; `SerialSession` has its outcomes.
- The MCP adapter, error mapping and SSH option lists translate and keep no state; AI
  providers build requests. Argument parsing and printing of the CLI likewise.
- Titles, encodings, pointer positions, log headers and the framing of the control
  protocol are data that no property depends on.

## 14. What is proved and what is not

Every invariant and every action property of the passing runs is a theorem, and the
refinement of `OutputStream` is. The facts about sequences, sets of positions and quotients
that the proofs rest on are lemmas beside the theorems that use them; where one needs the
least of some naturals, or induction over them, it takes it from the well-foundedness of the
naturals (`LeastNatural`, `LeastIn`, `AllNaturals`), since the library's own induction theorems take
an operator that the provers cannot instantiate.

Only model-checked: the liveness properties `AttemptEnds`, `Settles`,
`EndsReleased`, `CommandsEnd`, `CatchesUp` and `Released`; and the statements of the three runs that show a
finding, which are false. Each theorem has no other hypothesis than the `ASSUME` of the modules
it is about, and the constants that only bound a run (failures, starts, chunks) are arbitrary in
it.
