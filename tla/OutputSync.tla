----------------------------- MODULE OutputSync -----------------------------
(***************************************************************************)
(* One view of a terminal and the session it shows: the worker that        *)
(* appends output and emits it, the events and replies in flight, and      *)
(* createTerminalOutputSyncController (terminalOutputSyncController.ts).   *)
(* The controller runs on the window's only thread: what it does between   *)
(* two awaits that really wait (a reply, a scheduled task) is one action.  *)
(* Its budgets (characters, events and deltas per task) only say when it   *)
(* yields; here it may yield after every event and every written part.     *)
(***************************************************************************)
EXTENDS TerminalOutput, Sequences

CONSTANTS
  Channel,       \* the events it listens to, those of SSH: both carry retained output
  ErrorChannel,  \* the one of them that carries notices too
  DrainLimit,    \* maxInitialDeltaDrains
  MaxEvents,     \* bound: events the session emits
  MaxFailures    \* bound: subscriptions and requests that fail

ASSUME SyncAssumption ==
  /\ ErrorChannel \in Channel
  /\ DrainLimit \in Nat
  /\ MaxEvents \in Nat
  /\ MaxFailures \in Nat

VARIABLES
  emission,   \* the event of what was appended last, until it is emitted
  emitted,    \* how many events there have been
  wire,       \* events on their way to the window
  listener,   \* per channel: none, asked, active, held, failed or released
  phase,      \* phase of the controller
  applied,    \* appliedCursor, or NoCursor for null
  pending,    \* pending
  heard,      \* receivedVersion has moved since the controller looked at it
  retained,   \* the same of retainedVersion
  task,       \* what the controller is in the middle of
  drains,     \* initial delta reads so far
  writing,    \* the characters that writeText still has to write
  request,    \* the request under way, or NoRequest
  failures,   \* how many subscriptions and requests have failed
  shown       \* history: the characters written, in order

sessionVars == <<cursor, dropped, limit, emission, emitted, wire>>
viewVars == <<listener, phase, applied, pending, heard, retained, task, drains,
              writing, request, failures, shown>>
vars == <<cursor, dropped, limit, emission, emitted, wire, listener, phase,
          applied, pending, heard, retained, task, drains, writing, request,
          failures, shown>>

Stream == INSTANCE OutputStream WITH produced <- cursor, lost <- dropped

NoCursor == -1
NoEvent == [kind |-> "none"]
Notice == [kind |-> "notice"]
Output(from, to) == [kind |-> "output", start |-> from, cursor |-> to]
NoRequest == [state |-> "none"]
Nothing == [from |-> 0, to |-> 0]

Init ==
  /\ InitOutput
  /\ emission = NoEvent /\ emitted = 0 /\ wire = <<>>
  /\ listener = [c \in Channel |-> "none"]
  /\ phase = "idle" /\ applied = NoCursor /\ pending = <<>>
  /\ heard = FALSE /\ retained = FALSE
  /\ task = "none" /\ drains = 0 /\ writing = Nothing
  /\ request = NoRequest /\ failures = 0 /\ shown = <<>>

------------------------------------------------------------------------------
(* The session. *)

\* append_output, called by the only worker of the session's output.
Produce(n) ==
  /\ emission = NoEvent /\ emitted < MaxEvents
  /\ AppendOutput(n)
  /\ emission' = Output(cursor, cursor + n)
  /\ emitted' = emitted + 1
  /\ UNCHANGED <<wire, viewVars>>

\* An event goes to the window if the window listens.
Send(event, c) ==
  wire' = IF listener[c] \in {"active", "held"} THEN Append(wire, event) ELSE wire

\* The worker emits what append_output returned, on either channel.
Emit(c) ==
  /\ emission # NoEvent
  /\ Send(emission, c)
  /\ emission' = NoEvent
  /\ UNCHANGED <<outputVars, emitted, viewVars>>

\* An error message or the notice of an overflow, text that is not retained; it is
\* emitted by another task than the worker.
EmitNotice ==
  /\ emitted < MaxEvents
  /\ Send(Notice, ErrorChannel)
  /\ emitted' = emitted + 1
  /\ UNCHANGED <<outputVars, emission, viewVars>>

SetLimit(l) ==
  /\ SetOutputLimit(l)
  /\ UNCHANGED <<emission, emitted, wire, viewVars>>

\* terminal_output_snapshot_get and terminal_output_delta_get.  The controller
\* waits: its cursor is still the one it asked from.
Answer ==
  /\ request.state = "asked"
  /\ request' = [state |-> "answered",
                 range |-> IF task = "snapshot" THEN ReadOutput ELSE ReadOutputDelta(applied)]
  /\ UNCHANGED <<sessionVars, listener, phase, applied, pending, heard,
                 retained, task, drains, writing, failures, shown>>

Refuse ==
  /\ request.state = "asked" /\ failures < MaxFailures
  /\ request' = [state |-> "failed"]
  /\ failures' = failures + 1
  /\ UNCHANGED <<sessionVars, listener, phase, applied, pending, heard,
                 retained, task, drains, writing, shown>>

------------------------------------------------------------------------------
(* The controller: subscriptions. *)

\* Mutant of GoLive: what arrived before is left for the next event.
GoLiveOnly ==
  /\ phase' = "live"
  /\ task' = "none"

\* enterLive.
GoLive ==
  /\ phase' = "live"
  /\ task' = IF pending = <<>> THEN "none" ELSE "pump"

Start ==
  /\ phase = "idle"
  /\ phase' = "subscribing"
  /\ listener' = [c \in Channel |-> "asked"]
  /\ UNCHANGED <<sessionVars, applied, pending, heard, retained, task, drains, writing,
                 request, failures, shown>>

\* The backend registers the listener: events are sent from here on.
Register(c) ==
  /\ listener[c] = "asked"
  /\ listener' = [listener EXCEPT ![c] = "active"]
  /\ UNCHANGED <<sessionVars, phase, applied, pending, heard, retained, task, drains,
                 writing, request, failures, shown>>

\* run, after Promise.allSettled.
AfterSubscribing ==
  IF phase = "disposed" \/ \E c \in Channel : listener'[c] \in {"asked", "active"}
  THEN UNCHANGED <<phase, task, request>>
  ELSE IF \E c \in Channel : listener'[c] = "failed"
  THEN GoLive /\ UNCHANGED request
  ELSE /\ phase' = "syncing"
       /\ task' = "snapshot"
       /\ request' = [state |-> "asked"]

\* Mutant of Subscribed: the disposed controller keeps the listener.
SubscribedKeeps(c) ==
  /\ listener[c] = "active"
  /\ listener' = [listener EXCEPT ![c] = "held"]
  /\ AfterSubscribing
  /\ UNCHANGED <<sessionVars, applied, pending, heard, retained, drains, writing, failures,
                 shown>>

\* The promise of listen resolves.
Subscribed(c) ==
  /\ listener[c] = "active"
  /\ listener' = [listener EXCEPT ![c] = IF phase = "disposed" THEN "released" ELSE "held"]
  /\ AfterSubscribing
  /\ UNCHANGED <<sessionVars, applied, pending, heard, retained, drains, writing, failures,
                 shown>>

SubscriptionFails(c) ==
  /\ listener[c] = "asked" /\ failures < MaxFailures
  /\ listener' = [listener EXCEPT ![c] = "failed"]
  /\ failures' = failures + 1
  /\ AfterSubscribing
  /\ UNCHANGED <<sessionVars, applied, pending, heard, retained, drains, writing, shown>>

------------------------------------------------------------------------------
(* The controller: events. *)

\* receive, and the schedulePump it ends with.  The task "pump" stands for a
\* scheduled pump and for one that runs.
Receive ==
  /\ wire # <<>>
  /\ wire' = Tail(wire)
  /\ IF phase = "disposed"
     THEN UNCHANGED <<pending, heard, retained, task>>
     ELSE /\ pending' = Append(pending, Head(wire))
          /\ heard' = TRUE
          /\ retained' = (retained \/ Head(wire).kind = "output")
          /\ task' = IF phase = "live" /\ task = "none" THEN "pump" ELSE task
  /\ UNCHANGED <<outputVars, emission, emitted, listener, phase, applied, drains, writing,
                 request, failures, shown>>

\* Mutant of Apply: a range that ends before the cursor is written again.
ApplyAgain(range, gap) ==
  /\ applied' = IF applied = NoCursor \/ (gap /\ applied < range.start)
                THEN range.start ELSE applied
  /\ writing' = IF range.start < range.cursor
                THEN [from |-> range.start, to |-> range.cursor] ELSE Nothing

\* applyRange: what lies beyond the cursor, from the start of the range if there
\* is no cursor yet or a gap is allowed.  Of a range that starts beyond the
\* cursor splitText leaves nothing.
Apply(range, gap) ==
  /\ applied' = IF applied = NoCursor \/ (gap /\ applied < range.start)
                THEN range.start ELSE applied
  /\ writing' = IF applied' \in range.start..(range.cursor - 1)
                THEN [from |-> applied', to |-> range.cursor] ELSE Nothing

\* writeText: a part at a time, with a yield between two parts.
Write ==
  /\ writing # Nothing
  /\ \E to \in (writing.from + 1)..writing.to :
       /\ shown' = shown \o Stream!Run(writing.from, to)
       /\ applied' = applied + (to - writing.from)
       /\ writing' = IF to = writing.to THEN Nothing ELSE [writing EXCEPT !.from = to]
  /\ UNCHANGED <<sessionVars, listener, phase, pending, heard, retained, task, drains,
                 request, failures>>

\* An event that the cursor has reached, or a notice.
Reached(event) ==
  event.kind = "output" => applied = NoCursor \/ event.start <= applied

\* Mutant of TakeEvent: a gap is passed over.
TakeAcrossGap ==
  /\ task = "pump" /\ writing = Nothing
  /\ pending # <<>>
  /\ pending' = Tail(pending)
  /\ IF Head(pending).kind = "notice"
     THEN UNCHANGED <<applied, writing>>
     ELSE Apply(Head(pending), TRUE)
  /\ UNCHANGED <<sessionVars, listener, phase, heard, retained, task, drains, request,
                 failures, shown>>

\* pump, with the next event.
TakeEvent ==
  /\ task = "pump" /\ writing = Nothing
  /\ pending # <<>> /\ Reached(Head(pending))
  /\ pending' = Tail(pending)
  /\ IF Head(pending).kind = "notice"
     THEN UNCHANGED <<applied, writing>>
     ELSE Apply(Head(pending), FALSE)
  /\ UNCHANGED <<sessionVars, listener, phase, heard, retained, task, drains, request,
                 failures, shown>>

\* pump, with nothing left.
StopPump ==
  /\ task = "pump" /\ writing = Nothing /\ pending = <<>>
  /\ task' = "none"
  /\ UNCHANGED <<sessionVars, listener, phase, applied, pending, heard, retained, drains,
                 writing, request, failures, shown>>

\* pump, with a gap before the next event.
AskGap ==
  /\ task = "pump" /\ writing = Nothing
  /\ pending # <<>> /\ ~Reached(Head(pending))
  /\ task' = "gap"
  /\ request' = [state |-> "asked"]
  /\ heard' = FALSE
  /\ UNCHANGED <<sessionVars, listener, phase, applied, pending, retained, drains, writing,
                 failures, shown>>

\* Mutant of Blocked: the pump stops even if another event has arrived.
BlockedAlways == task' = "none"

\* The recovery has failed or brought nothing: wait for an event that was not
\* there yet when it was asked for.
Blocked == task' = IF heard THEN "pump" ELSE "none"

\* Mutant of GapAnswered: the answer is used whatever happened meanwhile.
GapAnsweredLate ==
  /\ task = "gap" /\ request.state \in {"answered", "failed"}
  /\ request' = NoRequest
  /\ IF request.state = "failed"
     THEN Blocked /\ UNCHANGED <<applied, writing>>
     ELSE /\ Apply(request.range, request.range.truncated)
          /\ IF applied' = applied /\ writing' = Nothing THEN Blocked ELSE task' = "pump"
  /\ UNCHANGED <<sessionVars, listener, phase, pending, heard, retained, drains, failures,
                 shown>>

\* pump, with the answer.
GapAnswered ==
  /\ task = "gap" /\ phase # "disposed" /\ request.state \in {"answered", "failed"}
  /\ request' = NoRequest
  /\ IF request.state = "failed"
     THEN Blocked /\ UNCHANGED <<applied, writing>>
     ELSE /\ Apply(request.range, request.range.truncated)
          /\ IF applied' = applied /\ writing' = Nothing THEN Blocked ELSE task' = "pump"
  /\ UNCHANGED <<sessionVars, listener, phase, pending, heard, retained, drains, failures,
                 shown>>

------------------------------------------------------------------------------
(* The controller: restoration. *)

\* run, with the snapshot or an initial delta.
RestoreAnswered ==
  /\ task \in {"snapshot", "draining"} /\ phase # "disposed"
  /\ request.state \in {"answered", "failed"}
  /\ request' = NoRequest
  /\ IF request.state = "failed"
     THEN GoLive /\ UNCHANGED <<applied, writing>>
     ELSE /\ Apply(request.range, task = "snapshot" \/ request.range.truncated)
          /\ task' = "drain"
          /\ UNCHANGED phase
  /\ UNCHANGED <<sessionVars, listener, pending, heard, retained, drains, failures, shown>>

\* The loop of initial deltas: once, and again while output arrives.
MoreDrains == drains < DrainLimit /\ (drains = 0 \/ retained)

AskDrain ==
  /\ task = "drain" /\ writing = Nothing /\ MoreDrains
  /\ task' = "draining"
  /\ drains' = drains + 1
  /\ request' = [state |-> "asked"]
  /\ retained' = FALSE
  /\ UNCHANGED <<sessionVars, listener, phase, applied, pending, heard, writing, failures,
                 shown>>

StopDraining ==
  /\ task = "drain" /\ writing = Nothing /\ ~MoreDrains
  /\ GoLive
  /\ UNCHANGED <<sessionVars, listener, applied, pending, heard, retained, drains, writing,
                 request, failures, shown>>

------------------------------------------------------------------------------
(* The controller: disposal. *)

\* dispose: cancels what is scheduled, ends what yields, releases what it has.
Dispose ==
  /\ phase # "disposed"
  /\ phase' = "disposed"
  /\ pending' = <<>>
  /\ writing' = Nothing
  /\ task' = IF request = NoRequest THEN "none" ELSE task
  /\ listener' = [c \in Channel |-> IF listener[c] = "held" THEN "released" ELSE listener[c]]
  /\ UNCHANGED <<sessionVars, applied, heard, retained, drains, request, failures, shown>>

\* An answer that comes after the disposal is dropped.
AnsweredLate ==
  /\ phase = "disposed" /\ request.state \in {"answered", "failed"}
  /\ request' = NoRequest
  /\ task' = "none"
  /\ UNCHANGED <<sessionVars, listener, phase, applied, pending, heard, retained, drains,
                 writing, failures, shown>>

------------------------------------------------------------------------------
Session ==
  \/ \E n \in Chunk : Produce(n)
  \/ \E c \in Channel : Emit(c)
  \/ EmitNotice
  \/ \E l \in Limits : SetLimit(l)
  \/ Answer \/ Refuse

Controller ==
  \/ \E c \in Channel : Subscribed(c)
  \/ Start \/ Receive \/ Write
  \/ TakeEvent \/ StopPump \/ AskGap \/ GapAnswered
  \/ RestoreAnswered \/ AskDrain \/ StopDraining
  \/ AnsweredLate

Next ==
  \/ Session \/ Controller \/ Dispose
  \/ \E c \in Channel : Register(c) \/ SubscriptionFails(c)

Spec == Init /\ [][Next]_vars

\* The worker emits what it has appended, the backend registers listeners and
\* answers requests, and the window's event loop goes on.  The session need not
\* produce anything and nobody has to close the view.
FairSpec ==
  /\ Spec
  /\ WF_vars(\E c \in Channel : Emit(c))
  /\ \A c \in Channel : WF_vars(Register(c)) /\ WF_vars(Subscribed(c))
  /\ WF_vars(Answer) /\ WF_vars(Receive)
  /\ WF_vars(Controller)

------------------------------------------------------------------------------
(* Properties. *)

\* An event, and a range that was read, never past the output.
Event == [kind : {"notice"}] \cup [kind : {"output"}, start : 0..cursor, cursor : 0..cursor]
ReadRange == [start : 0..cursor, cursor : 0..cursor, truncated : BOOLEAN]

TypeSession ==
  /\ emission \in {NoEvent} \cup Event
  /\ emitted \in 0..MaxEvents
  /\ wire \in Seq(Event)

TypeView ==
  /\ listener \in [Channel -> {"none", "asked", "active", "held", "failed", "released"}]
  /\ phase \in {"idle", "subscribing", "syncing", "live", "disposed"}
  /\ applied \in {NoCursor} \cup 0..cursor
  /\ pending \in Seq(Event)
  /\ heard \in BOOLEAN /\ retained \in BOOLEAN
  /\ task \in {"none", "snapshot", "drain", "draining", "pump", "gap"}
  /\ drains \in 0..DrainLimit
  /\ writing \in [from : 0..cursor, to : 0..cursor]
  /\ request \in {NoRequest} \cup [state : {"asked", "failed"}]
                \cup [state : {"answered"}, range : ReadRange]
  /\ failures \in 0..MaxFailures
  /\ shown \in Seq(Nat)

\* A request is under way exactly in the tasks that await one, and only a live
\* controller pumps.
TaskMatches ==
  /\ request # NoRequest <=> task \in {"snapshot", "draining", "gap"}
  /\ task \in {"pump", "gap"} => phase \in {"live", "disposed"}

\* Types, with every position within the output, and what the controller waits for.
TypeOK == TypeOutput /\ TypeSession /\ TypeView /\ TaskMatches

\* A pump that has given up on a gap is started again by the event that arrives
\* while it gives up: a live controller with events and no task has seen no event
\* since it asked for the recovery that failed.
NoLostWakeup == phase = "live" /\ task = "none" /\ pending # <<>> => ~heard

\* The view writes every character at most once and in order, and passes over
\* only what the backend has dropped, whatever was split, delayed or restored.
RefinesStream == Stream!Spec

\* A view that has been closed writes nothing, whichever answer or event was
\* still on its way.
SilentAfterDispose == [][phase = "disposed" => shown' = shown]_vars

\* The first character that the view has not reached.
Unseen == IF shown = <<>> THEN 0 ELSE shown[Len(shown)] + 1

\* Without failures the view catches up again and again: it has written all
\* output that is retained and no event waits, however the restoration ended.
Delivered ==
  []<>(\/ failures > 0 \/ phase = "disposed"
       \/ pending = <<>> /\ Unseen >= cursor)

\* A recovery that failed is retried when another event arrives: with no failure
\* left to happen, such an event gets everything that waits written.
Recovers ==
  (phase = "live" /\ failures = MaxFailures /\ pending # <<>> /\ heard)
    ~> (pending = <<>> \/ phase = "disposed")

\* Output is shown in the end, also after a recovery that failed.
CatchesUp == Delivered /\ Recovers

\* A closed view lets go of its listeners, those too that were registered only
\* after it was closed.
Released ==
  phase = "disposed" ~> \A c \in Channel : listener[c] \in {"none", "failed", "released"}
=============================================================================
