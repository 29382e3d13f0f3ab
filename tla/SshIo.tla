------------------------------- MODULE SshIo -------------------------------
(***************************************************************************)
(* An SSH session after the handshake: its registration, the bounded read  *)
(* queue, writes and resizes, and the teardown, which the server's close,  *)
(* the end of the transport, the drop of its handler and the user may all  *)
(* begin (src-tauri/src/ssh/io.rs and the end of ssh/connection.rs).       *)
(*                                                                         *)
(* Talker is the connection of HostKeys that becomes this session; the     *)
(* authentication between them is SshConnect's.  Output arrives in chunks, *)
(* numbered in the order the server sent them on either stream.            *)
(***************************************************************************)
EXTENDS HostKeys, Sequences

CONSTANTS
  Talker,
  QueueCapacity,   \* SSH_READ_QUEUE_CAPACITY
  NoticeInterval,  \* SSH_READ_DROP_NOTICE_INTERVAL_CHUNKS
  MaxChunks,       \* bound: chunks the server sends
  Writer,          \* writes and resizes, one each
  Caller           \* disconnects by the user or a client, one each

ASSUME SshIoAssumption ==
  /\ Talker \in Conn
  /\ QueueCapacity \in Nat \ {0} /\ NoticeInterval \in Nat \ {0} /\ MaxChunks \in Nat
  /\ Writer \cap Caller = {}

VARIABLES
  link,      \* the task of the transport, which owns the handler and runs its callbacks
  channel,   \* the server has not closed the channel
  connect,   \* where the connecting command is
  listed,    \* SshState.sessions has the session
  terminal,  \* its status in the terminal registry
  jump,      \* the connection to the jump host
  log,       \* a log of the session is active
  received,  \* chunks received
  queue,     \* the chunks in the read queue
  dropped,   \* chunks that found it full
  notices,   \* how often that was announced
  recorded,  \* chunks in the retained output
  owner,     \* where the teardown by a callback, and that by the handler's drop, are
  writer,    \* where each write is
  caller,    \* where each disconnect is
  early      \* the transport had begun to end before the session was registered

reading == <<received, queue, dropped, notices, recorded>>
session == <<listed, terminal, jump, log>>
ioVars == <<link, channel, connect, session, reading, owner, writer, caller, early>>
vars == <<hostKeyVars, ioVars>>

Owner == {"callback", "drop"}

IoInit ==
  /\ link = "none" /\ channel = "open" /\ connect = "handshake"
  /\ listed = FALSE /\ terminal = "absent" /\ jump = "open" /\ log = FALSE
  /\ received = 0 /\ queue = << >> /\ dropped = {} /\ notices = 0 /\ recorded = << >>
  /\ owner = [o \in Owner |-> "idle"]
  /\ writer = [w \in Writer |-> "idle"]
  /\ caller = [d \in Caller |-> "idle"]
  /\ early = FALSE

Init == HostKeyInit /\ IoInit

-----------------------------------------------------------------------------
(* Connecting.                                                             *)

\* Bound: the session is explored where the other handshakes have not begun, and they
\* stop there; a session and another connection's handshake share no state.
Alone == \A c \in Conn \ {Talker} : phase[c] = "inspect"

\* The server's key is accepted, and authentication and the shell succeed.
StartShell ==
  /\ connect = "handshake" /\ phase[Talker] = "verified" /\ Alone
  /\ connect' = "shell" /\ link' = "open"
  /\ UNCHANGED <<channel, session, reading, owner, writer, caller, early>>

\* The key is refused, or a later step of the setup fails: the handles go.
SetupFails ==
  /\ connect = "handshake" /\ phase[Talker] \in {"verified", "refused"} /\ Alone
  /\ connect' = "failed" /\ link' = "gone" /\ jump' = "closed"
  /\ owner' = [owner EXCEPT !["drop"] = "remove"]
  /\ UNCHANGED <<channel, listed, terminal, log, reading, writer, caller, early>>

\* The transport has begun to end.
Ending == link \in {"leaving", "gone"} \/ channel = "closed"

\* register_connected_session: first the map of sessions ...
InsertSession ==
  /\ connect = "shell"
  /\ connect' = "inserted" /\ listed' = TRUE
  /\ early' = Ending
  /\ UNCHANGED <<link, channel, terminal, jump, log, reading, owner, writer, caller>>

\* ... and then the terminal registry.
RegisterTerminal ==
  /\ connect = "inserted"
  /\ connect' = "registered" /\ terminal' = "connected"
  /\ early' = (early \/ Ending)
  /\ UNCHANGED <<link, channel, listed, jump, log, reading, owner, writer, caller>>

\* Mutant of SpawnReadProcessor: the task does not wait for the registration.
SpawnEarly ==
  /\ connect = "shell"
  /\ connect' = "running"
  /\ UNCHANGED <<link, channel, session, reading, owner, writer, caller, early>>

SpawnReadProcessor ==
  /\ connect = "registered"
  /\ connect' = "running"
  /\ UNCHANGED <<link, channel, session, reading, owner, writer, caller, early>>

\* A log of the session starts, while its tab is connected.
StartLog ==
  /\ connect = "running" /\ terminal = "connected"
  /\ log' = TRUE
  /\ UNCHANGED <<link, channel, connect, listed, terminal, jump, reading, owner, writer,
                 caller, early>>

-----------------------------------------------------------------------------
(* Output.                                                                 *)

\* record_ssh_read_drop: the notices after the n-th drop.
RecordDrop(n) == notices + IF n = 1 \/ n % NoticeInterval = 0 THEN 1 ELSE 0

\* data and extended_data of the handler, with enqueue_ssh_read.
Receive ==
  /\ link = "open" /\ channel = "open"
  /\ received < MaxChunks
  /\ received' = received + 1
  /\ IF Len(queue) < QueueCapacity
     THEN queue' = Append(queue, received') /\ UNCHANGED <<dropped, notices>>
     ELSE /\ dropped' = dropped \cup {received'}
          /\ notices' = RecordDrop(Cardinality(dropped'))
          /\ UNCHANGED queue
  /\ UNCHANGED <<link, channel, connect, session, recorded, owner, writer, caller, early>>

\* process_ssh_output: a session that the registry does not know has no output.
ProcessOutput ==
  /\ connect = "running" /\ queue # << >>
  /\ queue' = Tail(queue)
  /\ recorded' = IF terminal = "absent" THEN recorded ELSE Append(recorded, Head(queue))
  /\ UNCHANGED <<link, channel, connect, session, received, dropped, notices, owner, writer,
                 caller, early>>

-----------------------------------------------------------------------------
(* The mutex of a session, and its channel's.                              *)

\* Who has taken the session out of the map locks it until its connections are closed.
SessionLocked ==
  \/ \E o \in Owner : owner[o] \in {"jump", "mark"}
  \/ \E d \in Caller : caller[d] \in {"channel", "close", "target", "jump"}

ChannelLocked ==
  \/ \E w \in Writer : writer[w] = "sending"
  \/ \E d \in Caller : caller[d] = "close"

At(w, step) == writer' = [writer EXCEPT ![w] = step]

\* write_data and ssh_resize find the session, then lock it for a moment to get its
\* channel, and send under a timeout that covers the wait for the channel's mutex.
WriteStep(w) ==
  /\ \/ writer[w] = "idle" /\ (IF listed THEN At(w, "found") ELSE At(w, "done"))
     \/ writer[w] = "found" /\ ~SessionLocked /\ At(w, "queued")
     \/ writer[w] = "queued" /\ ~ChannelLocked /\ At(w, "sending")
     \/ writer[w] \in {"queued", "sending"} /\ At(w, "done")
  /\ UNCHANGED <<link, channel, connect, session, reading, owner, caller, early>>

-----------------------------------------------------------------------------
(* Teardown.                                                               *)

Marked == IF terminal = "connected" THEN "disconnected" ELSE terminal

OwnerAt(o, step) == owner' = [owner EXCEPT ![o] = step]

\* mark_disconnected_impl: only who finds the session goes on to close it.
OwnerRemoves(o) ==
  /\ owner[o] = "remove"
  /\ listed' = FALSE
  /\ OwnerAt(o, IF listed THEN "jump" ELSE "clear")
  /\ UNCHANGED <<link, channel, connect, terminal, jump, log, reading, writer, caller, early>>

OwnerClosesJump(o) ==
  /\ owner[o] = "jump"
  /\ jump' = "closed"
  /\ OwnerAt(o, "mark")
  /\ UNCHANGED <<link, channel, connect, listed, terminal, log, reading, writer, caller, early>>

\* Mutant of OwnerMarks: the terminal keeps its status.
OwnerForgets(o) ==
  /\ owner[o] = "mark"
  /\ OwnerAt(o, "clear")
  /\ UNCHANGED <<link, channel, connect, session, reading, writer, caller, early>>

OwnerMarks(o) ==
  /\ owner[o] = "mark"
  /\ terminal' = Marked
  /\ OwnerAt(o, "clear")
  /\ UNCHANGED <<link, channel, connect, listed, jump, log, reading, writer, caller, early>>

\* clear_session_logs, and with it the callback returns to its transport.
OwnerClears(o) ==
  /\ owner[o] = "clear"
  /\ log' = FALSE
  /\ IF o = "callback" /\ link = "closing"
     THEN OwnerAt(o, "idle") /\ link' = "open"
     ELSE OwnerAt(o, "done") /\ UNCHANGED link
  /\ UNCHANGED <<channel, connect, listed, terminal, jump, reading, writer, caller, early>>

\* channel_close: the transport waits for the callback.
ChannelCloses ==
  /\ link = "open" /\ channel = "open"
  /\ channel' = "closed" /\ link' = "closing"
  /\ OwnerAt("callback", "remove")
  /\ UNCHANGED <<connect, session, reading, writer, caller, early>>

\* The transport ends, by the server, an error or a disconnect of ours: disconnected()
\* is called, or skipped as the comment in drop says.
TransportEnds ==
  /\ link = "open"
  /\ \/ link' = "leaving" /\ OwnerAt("callback", "remove")
     \/ link' = "gone" /\ OwnerAt("drop", "remove")
  /\ UNCHANGED <<channel, connect, session, reading, writer, caller, early>>

\* The task is over and drops the handler, whose drop spawns the teardown again.
HandlerDropped ==
  /\ link = "leaving" /\ owner["callback"] = "done"
  /\ link' = "gone" /\ OwnerAt("drop", "remove")
  /\ UNCHANGED <<channel, connect, session, reading, writer, caller, early>>

CallerAt(d, step) == caller' = [caller EXCEPT ![d] = step]

\* disconnect, of a session that the terminal registry lists.
CallDisconnect(d) ==
  /\ caller[d] = "idle" /\ terminal # "absent"
  /\ listed' = FALSE
  /\ CallerAt(d, IF listed THEN "channel" ELSE "mark")
  /\ UNCHANGED <<link, channel, connect, terminal, jump, log, reading, owner, writer, early>>

\* The mutex of the channel, then eof and close.
LockChannel(d) ==
  /\ caller[d] = "channel" /\ ~ChannelLocked
  /\ CallerAt(d, "close")
  /\ UNCHANGED <<link, channel, connect, session, reading, owner, writer, early>>

CloseChannel(d) ==
  /\ caller[d] = "close"
  /\ CallerAt(d, "target")
  /\ UNCHANGED <<link, channel, connect, session, reading, owner, writer, early>>

\* disconnect of the target's handle, which ends its transport unless it is ending.
DisconnectTarget(d) ==
  /\ caller[d] = "target"
  /\ CallerAt(d, "jump")
  /\ UNCHANGED <<link, channel, connect, session, reading, owner, writer, early>>

DisconnectJump(d) ==
  /\ caller[d] = "jump"
  /\ jump' = "closed"
  /\ CallerAt(d, "mark")
  /\ UNCHANGED <<link, channel, connect, listed, terminal, log, reading, owner, writer, early>>

CallerMarks(d) ==
  /\ caller[d] = "mark"
  /\ terminal' = Marked
  /\ CallerAt(d, "clear")
  /\ UNCHANGED <<link, channel, connect, listed, jump, log, reading, owner, writer, early>>

CallerClears(d) ==
  /\ caller[d] = "clear"
  /\ log' = FALSE
  /\ CallerAt(d, "returned")
  /\ UNCHANGED <<link, channel, connect, listed, terminal, jump, reading, owner, writer, early>>

DisconnectStep(d) ==
  \/ LockChannel(d) \/ CloseChannel(d) \/ DisconnectTarget(d)
  \/ DisconnectJump(d) \/ CallerMarks(d) \/ CallerClears(d)

OwnerStep(o) ==
  OwnerRemoves(o) \/ OwnerClosesJump(o) \/ OwnerMarks(o) \/ OwnerClears(o)

ConnectStep == StartShell \/ InsertSession \/ RegisterTerminal \/ SpawnReadProcessor

IoNext ==
  \/ ConnectStep
  \/ SetupFails \/ StartLog
  \/ Receive \/ ProcessOutput
  \/ \E w \in Writer : WriteStep(w)
  \/ \E o \in Owner : OwnerStep(o)
  \/ ChannelCloses \/ TransportEnds \/ HandlerDropped
  \/ \E d \in Caller : CallDisconnect(d) \/ DisconnectStep(d)

Next ==
  \/ connect = "handshake" /\ HostKeyNext /\ UNCHANGED ioVars
  \/ IoNext /\ UNCHANGED hostKeyVars

Spec == Init /\ [][Next]_vars

\* The runtime goes on with every task that can; a prompt and a write have deadlines,
\* and the transport takes a message or has ended.  The user, the server and the
\* network owe nothing.

Fairness ==
  /\ \A c \in Conn : WF_vars(connect = "handshake" /\ Verify(c) /\ UNCHANGED ioVars)
  /\ WF_vars(ConnectStep /\ UNCHANGED hostKeyVars)
  /\ WF_vars(ProcessOutput /\ UNCHANGED hostKeyVars)
  /\ \A w \in Writer : WF_vars(WriteStep(w) /\ UNCHANGED hostKeyVars)
  /\ \A o \in Owner : WF_vars(OwnerStep(o) /\ UNCHANGED hostKeyVars)
  /\ WF_vars(HandlerDropped /\ UNCHANGED hostKeyVars)
  /\ \A d \in Caller : WF_vars(DisconnectStep(d) /\ UNCHANGED hostKeyVars)

FairSpec == Spec /\ Fairness

-----------------------------------------------------------------------------
(* Properties.                                                             *)

\* Every chunk the server sent is in the retained output or in the queue, in its
\* order, or was dropped at a full queue; and a drop is never silent.
OutputAccounted ==
  /\ LET kept == recorded \o queue IN
     /\ \A i, j \in 1..Len(kept) : i < j => kept[i] < kept[j]
     /\ {kept[i] : i \in 1..Len(kept)} = (1..received) \ dropped
  /\ dropped # {} => notices > 0

\* What a teardown leaves of the session.
Finalized == ~listed /\ terminal = "disconnected" /\ jump = "closed" /\ ~log

\* Every prompt goes away; a disconnect returns, whatever writes are under way; and a
\* transport that ends after the registration has its session finalized by one of the
\* owners, also when russh skips disconnected() (the comment in drop of io.rs).
Settles ==
  /\ \A c \in Conn : c \in dialog ~> c \notin dialog
  /\ \A d \in Caller : caller[d] # "idle" ~> caller[d] = "returned"
  /\ (link = "gone" /\ connect = "running" /\ ~early) ~> Finalized

\* The comment in drop of io.rs: the end of the transport still finalizes the session,
\* whenever it comes.
ExitFinalizes == (link = "gone" /\ connect = "running") ~> Finalized
=============================================================================
