---------------------------- MODULE ExternalRequests ----------------------------
(***************************************************************************)
(* The operations of external_control/service that go through the GUI or   *)
(* make a session: focusing a terminal, controlling its log, disconnecting *)
(* it, and connecting.  A request that needs a window leaves a pending     *)
(* entry, sends an event and waits for the answer (focus.rs, protocol.rs); *)
(* windows answer late, twice or never, and the tab may move meanwhile.    *)
(* The tab, its log and the settings are those of one session, which may   *)
(* be connecting still; transports and the logger have modules of their    *)
(* own.                                                                    *)
(***************************************************************************)
EXTENDS Integers, Sequences, FiniteSets

CONSTANTS
  Windows,
  Callers,      \* connections to the control plane, one request each
  Kinds,        \* what callers may ask for
  NoWindow,     \* no tab shows the session
  AnyWindow,    \* the recipient of an event sent to all windows
  MaxMoves      \* bound: what the users of the GUI do meanwhile

LogKinds == {"start", "stop", "pause", "resume"}
ConnectKinds == {"saved", "direct", "serial"}
Switches == {"connect", "direct", "profile", "jump"}

ASSUME RequestsAssumption ==
  /\ NoWindow \notin Windows /\ AnyWindow \notin Windows
  /\ Kinds \subseteq LogKinds \cup ConnectKinds \cup {"focus", "disconnect"}

VARIABLES
  opened,    \* how far the session has come: listed, mapped or shown
  owner,     \* the window whose tab shows the session, or NoWindow
  active,    \* whether the tab is its owner's active tab
  focused,   \* last_focused_window
  live,      \* whether the session is connected
  log,       \* inactive, active or paused
  settings,  \* the switches that are on
  made,      \* tabs registered for callers, with is_manual_logging
  req,       \* the request of each caller
  pending,   \* entries that wait for a window
  inbox,     \* events a window has not finished with
  ids,       \* request identifiers given out
  moves,
  seen,      \* history: the states of the log while a request ran
  granted    \* history: the switches that were on while it ran

guiVars == <<opened, owner, active, focused, live, log, settings, made>>
requestVars == <<guiVars, req, pending, inbox, ids, moves, seen, granted>>

NewRequest == [kind |-> "none", pc |-> "idle", id |-> 0, attempt |-> 0,
               window |-> NoWindow, reply |-> <<>>, from |-> NoWindow, prompts |-> <<>>,
               got |-> {}, logging |-> FALSE, result |-> "none"]

\* A session in its tab, or a serial one that terminals lists already while
\* SerialState does not know it yet (serial.rs:375-389).
InitRequests ==
  /\ \/ opened = "shown" /\ owner \in Windows /\ active = TRUE
        /\ log \in {"inactive", "active"}
     \/ opened = "listed" /\ owner = NoWindow /\ active = FALSE
        /\ log = "inactive"
  /\ focused \in Windows /\ live = TRUE
  /\ settings = Switches /\ made = {}
  /\ req = [c \in Callers |-> NewRequest]
  /\ pending = {} /\ inbox = {} /\ ids = 0 /\ moves = 0
  /\ seen = [c \in Callers |-> {log}]
  /\ granted = [c \in Callers |-> settings]

Set(c, r) == req' = [req EXCEPT ![c] = r]
Says(c) == Head(req[c].reply)
Goto(c, pc) == Set(c, [req[c] EXCEPT !.pc = pc])
Done(c, result) == Set(c, [req[c] EXCEPT !.pc = "done", !.result = result])
Quiet == UNCHANGED <<pending, inbox, ids, moves>>

\* Any request, on a connection of its own.
Begin(c, kind) ==
  /\ req[c].pc = "idle"
  /\ Set(c, [NewRequest EXCEPT
       !.kind = kind,
       !.pc = CASE kind = "focus" -> "activate"
                [] kind = "disconnect" -> "look"
                [] kind \in LogKinds -> "check"
                [] OTHER -> "enabled"])
  /\ UNCHANGED guiVars /\ Quiet
-----------------------------------------------------------------------------
(* Events and answers *)

\* A pending entry and its event: to one window, or to all of them.  An event
\* about the focus is for one window too, but its listeners hear all of them.
Send(c, window, what) ==
  LET id == ids + 1
      to == IF window = AnyWindow \/ what = "focus" THEN Windows ELSE {window}
  IN  /\ ids' = id
      /\ pending' = pending \cup {[id |-> id, caller |-> c, window |-> window]}
      /\ inbox' = inbox \cup
           {[id |-> id, caller |-> c, asked |-> window, window |-> w, what |-> what,
             stage |-> "sent", says |-> "none"] : w \in to}
      /\ Set(c, [req[c] EXCEPT !.pc = "await", !.id = id, !.window = window,
                               !.reply = <<>>, !.from = NoWindow])
      /\ UNCHANGED moves

\* Mutants of EntryFor: whatever waits for that window is answered; and the
\* request is, whichever window the answer comes from.
EntryAny(id, window) == {p \in pending : p.window \in {window, AnyWindow}}
EntryOfId(id, window) == {p \in pending : p.id = id}

\* The entry an answer is for: that request, asked of that window.
EntryFor(id, window) ==
  {p \in pending : p.id = id /\ p.window \in {window, AnyWindow}}

\* submit: without such an entry the window gets an error, and nothing else.
\* An answer is "yes" or "no", of the request and the matter the event names.
Submit(m, says) ==
  /\ inbox' = inbox \ {m}
  /\ \/ /\ EntryFor(m.id, m.window) = {}
        /\ UNCHANGED <<pending, req>>
     \/ \E p \in EntryFor(m.id, m.window) :
          /\ pending' = pending \ {p}
          /\ Set(p.caller, [req[p.caller] EXCEPT !.reply = <<says, m.caller, m.what>>,
                                                 !.from = m.window])
  /\ UNCHANGED <<ids, moves>>

\* The deadline of the answer; the guard of the entry removes it.
TimesOut(c) ==
  /\ req[c].pc = "await" /\ req[c].reply = <<>>
  /\ pending' = {p \in pending : p.id # req[c].id}
  /\ Done(c, "error")
  /\ UNCHANGED <<guiVars, inbox, ids, moves>>

\* A window closes or reloads with what it had to answer.
WindowLost(w) ==
  /\ moves < MaxMoves /\ moves' = moves + 1
  /\ inbox' = {m \in inbox : m.window # w}
  /\ UNCHANGED <<guiVars, req, pending, ids>>
-----------------------------------------------------------------------------
(* The GUI meanwhile *)

\* A session that was only listed gets its place in the map, and then its tab.
SerialMapped ==
  /\ opened = "listed"
  /\ opened' = "mapped"
  /\ UNCHANGED <<owner, active, focused, live, log, settings, made>>

TabShown(w) ==
  /\ opened = "mapped"
  /\ opened' = "shown" /\ owner' = w /\ active' = TRUE
  /\ UNCHANGED <<focused, live, log, settings, made>>

Opens ==
  /\ SerialMapped \/ \E w \in Windows : TabShown(w)
  /\ UNCHANGED <<req, pending, inbox, ids, moves>>

MoveTab(w) ==
  /\ owner # NoWindow /\ w # owner
  /\ owner' = w /\ active' = TRUE
  /\ UNCHANGED <<opened, focused, live, log, settings, made>>

CloseTab ==
  /\ owner # NoWindow
  /\ owner' = NoWindow /\ active' = FALSE
  /\ live' = FALSE /\ log' = "inactive"
  /\ UNCHANGED <<opened, focused, settings, made>>

SelectOtherTab ==
  /\ active
  /\ active' = FALSE
  /\ UNCHANGED <<opened, owner, focused, live, log, settings, made>>

SessionEnds ==
  /\ live /\ opened # "listed"
  /\ live' = FALSE /\ log' = "inactive"
  /\ UNCHANGED <<opened, owner, active, focused, settings, made>>

\* The user of a window starts, stops, pauses or resumes the log; before there
\* is a tab, it can only be started, as the session's automatic log.
UserLogs(l) ==
  /\ live /\ log # l /\ opened # "listed"
  /\ opened = "mapped" => l = "active" /\ log = "inactive"
  /\ l = "paused" => log = "active"
  /\ log' = l
  /\ UNCHANGED <<opened, owner, active, focused, live, settings, made>>

Toggle(s) ==
  /\ settings' = IF s \in settings THEN settings \ {s} ELSE settings \cup {s}
  /\ UNCHANGED <<opened, owner, active, focused, live, log, made>>

Gui ==
  /\ moves < MaxMoves /\ moves' = moves + 1
  /\ \/ \E w \in Windows : MoveTab(w)
     \/ CloseTab \/ SelectOtherTab \/ SessionEnds
     \/ \E l \in {"inactive", "active", "paused"} : UserLogs(l)
     \/ \E s \in Switches : Toggle(s)
  /\ UNCHANGED <<req, pending, inbox, ids>>
-----------------------------------------------------------------------------
(* focus_terminal_session *)

\* activate_session selects the tab in its window, which is then asked to show it.
FocusActivate(c) ==
  /\ req[c].pc = "activate"
  /\ \/ /\ owner = NoWindow
        /\ Done(c, "error")
        /\ UNCHANGED active /\ Quiet
     \/ /\ owner # NoWindow
        /\ active' = TRUE
        /\ Send(c, owner, "focus")
  /\ UNCHANGED <<opened, owner, focused, live, log, settings, made>>

\* The window answers by what React has committed, which may lag the backend.
\* A window that was not asked answers too, and always that it has not.
WindowSelects(m) ==
  /\ m.what = "focus"
  /\ \E says \in {"yes", "no"} :
       /\ m.window # m.asked => says = "no"
       /\ Submit(m, says)
  /\ UNCHANGED guiVars

\* A tab that moved is tried once more, unless the five seconds are over.
Retry(c) ==
  \/ req[c].attempt = 0 /\ Set(c, [req[c] EXCEPT !.attempt = 1, !.pc = "activate"])
  \/ Done(c, "error")

FocusAnswered(c) ==
  /\ req[c].kind = "focus" /\ req[c].pc = "await" /\ req[c].reply # <<>>
  /\ \/ owner = NoWindow /\ Done(c, "error")
     \/ owner \notin {NoWindow, req[c].window} /\ Retry(c)
     \/ owner = req[c].window /\ Says(c) = "no" /\ Done(c, "error")
     \/ owner = req[c].window /\ Says(c) = "yes" /\ Goto(c, "show")
  /\ UNCHANGED guiVars /\ Quiet

\* The test of focus_session_window, under the lock of the placement.
MayShow(c) == owner = req[c].window /\ active

\* focus_session_window: the native focus happens before the lock is released.
FocusShow(c) ==
  /\ req[c].pc = "show"
  /\ \/ /\ MayShow(c)
        /\ focused' = req[c].window
        /\ Done(c, "ok")
     \/ /\ MayShow(c)                          \* the native call fails
        /\ Done(c, "error")
        /\ UNCHANGED focused
     \/ /\ ~MayShow(c)
        /\ IF owner \notin {NoWindow, req[c].window} THEN Retry(c) ELSE Done(c, "error")
        /\ UNCHANGED focused
  /\ UNCHANGED <<opened, owner, active, live, log, settings, made>> /\ Quiet
-----------------------------------------------------------------------------
(* Log control and disconnection *)

\* The checks before a window is asked, and the answers that need none.
LogCheck(c) ==
  /\ req[c].pc = "check"
  /\ CASE req[c].kind = "start" ->
            \/ ~live /\ Done(c, "error")
            \/ live /\ Goto(c, "send")
            \/ log # "inactive" /\ Done(c, "error")   \* another file is asked for
       [] req[c].kind = "stop" -> Goto(c, "send")
       [] OTHER ->
            IF ~live \/ log = "inactive" THEN Done(c, "error")
            ELSE IF log = (IF req[c].kind = "pause" THEN "paused" ELSE "active")
                 THEN Done(c, "ok")
                 ELSE Goto(c, "send")
  /\ UNCHANGED guiVars /\ Quiet

\* The owner window of that moment is asked; a disconnection stops the log first.
LogSend(c) ==
  /\ req[c].pc = "send"
  /\ \/ owner = NoWindow /\ Done(c, "error") /\ Quiet
     \/ /\ owner # NoWindow
        /\ Send(c, owner, IF req[c].kind = "disconnect" THEN "stop" ELSE req[c].kind)
  /\ UNCHANGED guiVars

\* manualLogController: one operation of the session at a time in a window,
\* whose tabs may lag; the status of the log is read before it is changed.
Refuses(m) == \E n \in inbox : n.window = m.window /\ n.stage = "working"

WindowBegins(m) ==
  /\ m.what \in LogKinds /\ m.stage = "sent"
  /\ \E stage \in {"working", "ready"} :
       /\ stage = "working" =>
            ~Refuses(m) /\ (m.what \in {"pause", "resume"} => log # "inactive")
       /\ inbox' = (inbox \ {m}) \cup
            {[m EXCEPT !.stage = stage, !.says = IF stage = "ready" THEN "no" ELSE "none"]}
  /\ UNCHANGED <<guiVars, req, pending, ids, moves>>

\* The log after the operation of a message, which the logger may refuse.
LogAfter(what) ==
  CASE what = "start" -> {log, IF log = "inactive" THEN "active" ELSE log}
    [] what = "stop" -> {"inactive"}
    [] what = "pause" /\ log # "inactive" -> {"paused"}
    [] what = "resume" /\ log # "inactive" -> {"active"}
    [] OTHER -> {log}

WindowActs(m) ==
  /\ m.stage = "working"
  /\ \E l \in LogAfter(m.what) :
       /\ log' = l
       /\ inbox' = (inbox \ {m}) \cup
            {[m EXCEPT !.stage = "ready",
                       !.says = IF m.what # "stop" /\ l = "inactive" THEN "no" ELSE "yes"]}
  /\ UNCHANGED <<opened, owner, active, focused, live, settings, made, req, pending, ids, moves>>

WindowSubmits(m) ==
  /\ m.stage = "ready"
  /\ Submit(m, m.says)
  /\ UNCHANGED guiVars

LogAnswered(c) ==
  /\ req[c].kind \in LogKinds \cup {"disconnect"}
  /\ req[c].pc = "await" /\ req[c].reply # <<>>
  /\ CASE Says(c) = "no" -> Done(c, "error")
       [] Says(c) = "yes" /\ req[c].kind = "start" -> Goto(c, "verify")
       [] Says(c) = "yes" /\ req[c].kind = "disconnect" -> Goto(c, "close")
       [] OTHER -> Done(c, "ok")
  /\ UNCHANGED guiVars /\ Quiet

\* A start reads the logger once more.
StartVerify(c) ==
  /\ req[c].pc = "verify"
  /\ Done(c, IF log = "inactive" THEN "error" ELSE "ok")
  /\ UNCHANGED guiVars /\ Quiet

\* disconnect_terminal_session; a serial session that has ended is disconnected
\* once more, which tells of a cleanup that failed.
DisconnectLook(c) ==
  /\ req[c].pc = "look"
  /\ IF ~live THEN Done(c, "ok") \/ Done(c, "error")
     ELSE Goto(c, IF log # "inactive" THEN "send" ELSE "close")
  /\ UNCHANGED guiVars /\ Quiet

\* The transport's disconnect is answered as it comes: that of a serial session
\* which is not in its map finds nothing to do, and that is no error.
DisconnectClose(c) ==
  /\ req[c].pc = "close"
  /\ \/ /\ IF opened = "listed" THEN UNCHANGED <<live, log>>
           ELSE live' = FALSE /\ log' = "inactive"
        /\ Done(c, "ok")
     \/ Done(c, "error") /\ UNCHANGED <<live, log>>
  /\ UNCHANGED <<opened, owner, active, focused, settings, made>> /\ Quiet
-----------------------------------------------------------------------------
(* Connecting *)

\* ensure_connect_enabled and ensure_direct_connect_enabled read the settings
\* for themselves, and so does the preparation.
ConnectEnabled(c) ==
  /\ req[c].pc = "enabled"
  /\ IF "connect" \notin settings THEN Done(c, "error")
     ELSE Goto(c, IF req[c].kind = "direct" THEN "direct" ELSE "prepare")
  /\ UNCHANGED guiVars /\ Quiet

DirectEnabled(c) ==
  /\ req[c].pc = "direct"
  /\ IF "direct" \notin settings THEN Done(c, "error") ELSE Goto(c, "prepare")
  /\ UNCHANGED guiVars /\ Quiet

\* prepare_*_connection: arguments or a profile that will not do are refused;
\* a key that is locked is one to ask a passphrase for.
MayUse(c, throughJump) ==
  CASE req[c].kind = "saved" -> "profile" \in settings
    [] req[c].kind = "direct" -> throughJump => "jump" \in settings
    [] OTHER -> ~throughJump

Prompts(c, throughJump) ==
  IF req[c].kind = "serial" THEN {<<>>}
  ELSE {<<>>, <<"profile">>} \cup
       (IF throughJump THEN {<<"jump">>, <<"jump", "profile">>} ELSE {})

Prepare(c) ==
  /\ req[c].pc = "prepare"
  /\ \/ Done(c, "error")
     \/ \E throughJump \in BOOLEAN :
          /\ MayUse(c, throughJump)
          /\ \E prompts \in Prompts(c, throughJump) :
               Set(c, [req[c] EXCEPT !.pc = "prompt", !.prompts = prompts])
  /\ UNCHANGED guiVars /\ Quiet

\* request_ssh_credential: every window shows the prompt.
AskCredential(c) ==
  /\ req[c].pc = "prompt" /\ req[c].prompts # <<>>
  /\ Send(c, AnyWindow, Head(req[c].prompts))
  /\ UNCHANGED guiVars

\* A window shows the oldest prompt it has.
Shown(m) ==
  \A n \in inbox : n.window = m.window /\ n.what \in {"jump", "profile"} => m.id <= n.id

\* A user types the secret of the endpoint the prompt names, or cancels.  A
\* prompt whose request is over gets an error and stays, before those behind it.
UserAnswers(m) ==
  /\ m.what \in {"jump", "profile"}
  /\ Shown(m) /\ EntryFor(m.id, m.window) # {}
  /\ \E says \in {"yes", "no"} : Submit(m, says)
  /\ UNCHANGED guiVars

CredentialAnswered(c) ==
  /\ req[c].kind \in ConnectKinds
  /\ req[c].pc = "await" /\ req[c].reply # <<>>
  /\ IF Says(c) = "no" THEN Done(c, "error")
     ELSE Set(c, [req[c] EXCEPT !.pc = "prompt", !.prompts = Tail(@),
                                !.got = @ \cup {<<Head(req[c].prompts), Tail(req[c].reply)>>}])
  /\ UNCHANGED guiVars /\ Quiet

\* The transport connects or fails; SshConnect, HostKeys, Telnet and
\* SerialSession have what it does.
Connect(c) ==
  /\ req[c].pc = "prompt" /\ req[c].prompts = <<>>
  /\ Done(c, "error") \/ Goto(c, "finish")
  /\ UNCHANGED guiVars /\ Quiet

\* finish_created_session: the automatic log, which may fail, then the tab.
AutoLog(c) ==
  /\ req[c].pc = "finish"
  /\ \E logging \in BOOLEAN :
       Set(c, [req[c] EXCEPT !.pc = "register", !.logging = logging])
  /\ UNCHANGED guiVars /\ Quiet

RegisterTab(c) ==
  /\ req[c].pc = "register"
  /\ made' = made \cup {<<c, req[c].logging>>}
  /\ Done(c, "ok")
  /\ UNCHANGED <<opened, owner, active, focused, live, log, settings>> /\ Quiet
-----------------------------------------------------------------------------
Step ==
  \/ Gui \/ Opens
  \/ \E w \in Windows : WindowLost(w)
  \/ \E c \in Callers :
       \/ \E kind \in Kinds : Begin(c, kind)
       \/ TimesOut(c)
       \/ FocusActivate(c) \/ FocusAnswered(c) \/ FocusShow(c)
       \/ LogCheck(c) \/ LogSend(c) \/ LogAnswered(c) \/ StartVerify(c)
       \/ DisconnectLook(c) \/ DisconnectClose(c)
       \/ ConnectEnabled(c) \/ DirectEnabled(c) \/ Prepare(c)
       \/ AskCredential(c) \/ CredentialAnswered(c)
       \/ Connect(c) \/ AutoLog(c) \/ RegisterTab(c)
  \/ \E m \in inbox :
       \/ WindowSelects(m)
       \/ WindowBegins(m) \/ WindowActs(m) \/ WindowSubmits(m)
       \/ UserAnswers(m)

\* The histories follow the log and the settings while a request runs.
While(c, past, now) ==
  CASE req'[c].pc = "idle" -> now
    [] req[c].pc = "done" -> {}
    [] OTHER -> past \cup now

RequestsNext ==
  /\ Step
  /\ seen' = [c \in Callers |-> While(c, seen[c], {log'})]
  /\ granted' = [c \in Callers |-> While(c, granted[c], settings')]
-----------------------------------------------------------------------------
(* Properties *)

\* The window brought to the front is the one that shows the session.
FocusHolds(c) ==
  req[c].kind = "focus" => /\ owner = req[c].window
                           /\ active
                           /\ focused = owner

\* The log has been, while the request ran, what the answer says it is, and a
\* session that is to be disconnected has ended or was not in its map yet.
LogHolds(c) ==
  /\ req[c].kind = "start" => seen[c] \cap {"active", "paused"} # {}
  /\ req[c].kind = "stop" => "inactive" \in seen[c]
  /\ req[c].kind = "pause" => "paused" \in seen[c]
  /\ req[c].kind = "resume" => "active" \in seen[c]
  /\ req[c].kind = "disconnect" => ~live \/ opened = "listed"

\* The switches it needs were on, each secret is the one asked for that
\* endpoint of that request, and the session has its tab.
ConnectHolds(c) ==
  req[c].kind \in ConnectKinds =>
    /\ "connect" \in granted[c]
    /\ req[c].kind = "direct" => "direct" \in granted[c]
    /\ req[c].kind = "saved" => "profile" \in granted[c]
    /\ \A g \in req[c].got : g[2] = <<c, g[1]>>
    /\ <<c, req[c].logging>> \in made

\* An answer a caller takes came from a window it had asked.
AnswerHolds(c) ==
  req[c].pc = "await" /\ req[c].reply # <<>> => req[c].window \in {req[c].from, AnyWindow}

\* A caller that is told of success is told what has happened, however the tab
\* moved, the log changed and windows answered meanwhile (ARCHITECTURE.md:136,
\* 159, 163), and no other window's refusal is taken for the one it waits for.
ResultsHold ==
  [][\A c \in Callers :
       /\ AnswerHolds(c)'
       /\ req'[c].result = "ok" /\ req[c].result # "ok" =>
            FocusHolds(c)' /\ LogHolds(c)' /\ ConnectHolds(c)']_requestVars
=============================================================================
