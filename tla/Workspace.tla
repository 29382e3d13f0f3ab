----------------------------- MODULE Workspace -----------------------------
(***************************************************************************)
(* The workspace model of the Rust backend (workspace/model.rs and         *)
(* workspace/state.rs), the Tauri commands that call it                    *)
(* (workspace/commands.rs), the native window events that reach it         *)
(* (lib.rs) and the frontend close operation that ends in it.              *)
(*                                                                         *)
(* Every method of WorkspaceState holds the placement mutex from its first *)
(* read to its last write, so each is one action.  The one exception is    *)
(* register_session_tab, which holds the mutex while it awaits the         *)
(* terminal registry: it is two actions, and `registering' is the held     *)
(* mutex.  The drop and detach commands take the mutex several times: they *)
(* are processes whose program counter is `move.step'.  Window events run  *)
(* in spawned tasks, so a task may run long after the event it reports.    *)
(*                                                                         *)
(* Titles, encodings, connection information, pointer positions, log       *)
(* metadata and the revision counter are left out.                         *)
(***************************************************************************)
EXTENDS Integers, FiniteSets, SequencesExt

CONSTANTS
  Window,       \* window labels; a label is used by one native window, once
  Tab,          \* tab ids; a tab's id is its session's id
  Main,         \* the label "main"
  NoWindow,     \* None where a window id is optional
  NoTab,        \* None where a tab id is optional
  MaxIndex,     \* bound: largest hover index a pointer reports
  MaxInFlight   \* bound: tasks, close operations and commands under way

ASSUME WorkspaceAssumption ==
  /\ Main \in Window
  /\ NoWindow \notin Window
  /\ NoTab \notin Tab
  /\ MaxIndex \in Nat
  /\ MaxInFlight \in Nat

VARIABLES
  native,         \* the operating system's window of each label
  session,        \* the protocol session and retained status of each tab
  windows,        \* keys of WorkspaceModel.windows
  order,          \* WindowWorkspace.tab_order, empty when not registered
  active,         \* WindowWorkspace.active_tab_id
  tabs,           \* keys of WorkspaceModel.tabs
  owner,          \* WorkspaceTab.owner_window_id
  connected,      \* WorkspaceTab.is_connected
  lastFocused,    \* WorkspaceModel.last_focused_window
  focusOrder,     \* WorkspaceModel.focused_window_order
  drag,           \* WorkspaceModel.drag
  registering,    \* register_session_tab between its read and its insert
  focusing,       \* focus or registration requests under way, by window
  unregistering,  \* Destroyed tasks under way, by window
  closing,        \* frontend close operations under way: window and tab
  move            \* the drop or detach command under way

model == <<windows, order, active, tabs, owner, connected, lastFocused,
           focusOrder>>
tasks == <<focusing, unregistering, closing>>
vars == <<native, session, model, drag, registering, tasks, move>>

NoDrag == [tab |-> NoTab, source |-> NoWindow, target |-> NoWindow, index |-> 0]
NoRegistration == [tab |-> NoTab, window |-> NoWindow, connected |-> FALSE]
Idle == [kind |-> "idle", step |-> "none", tab |-> NoTab, source |-> NoWindow,
         target |-> NoWindow, index |-> 0]

LockFree == registering = NoRegistration
AppRunning == \E w \in Window : native[w] = "open"
InFlight == Cardinality(focusing) + Cardinality(unregistering)
              + Cardinality(closing) + (IF move = Idle THEN 0 ELSE 1)

Init ==
  /\ native = [w \in Window |-> IF w = Main THEN "open" ELSE "absent"]
  /\ session = [t \in Tab |-> "absent"]
  /\ windows = {}
  /\ order = [w \in Window |-> << >>]
  /\ active = [w \in Window |-> NoTab]
  /\ tabs = {}
  /\ owner = [t \in Tab |-> NoWindow]
  /\ connected = [t \in Tab |-> FALSE]
  /\ lastFocused = NoWindow
  /\ focusOrder = << >>
  /\ drag = NoDrag
  /\ registering = NoRegistration
  /\ focusing = {Main}
  /\ unregistering = {}
  /\ closing = {}
  /\ move = Idle

-----------------------------------------------------------------------------
(* Helpers of workspace/model.rs.                                          *)

IndexIn(s, e) == CHOOSE i \in DOMAIN s : s[i] = e

\* retain, and position followed by remove: no order has a duplicate.
Without(s, e) == IF e \in Range(s) THEN RemoveAt(s, IndexIn(s, e)) ELSE s

\* The subsequences of s that list exactly the elements of S it contains:
\* one, when s has no duplicate.
OrderedParts(s, S) ==
  LET kept == Range(s) \cap S IN
  {r \in [1..Cardinality(kept) -> kept] :
     /\ Range(r) = kept
     /\ \A i, j \in DOMAIN r : i < j => IndexIn(s, r[i]) < IndexIn(s, r[j])}

\* remove_tab_from_window: the right neighbour becomes active, else the left.
ActiveWithout(w, t) ==
  LET i == IndexIn(order[w], t)
      rest == Without(order[w], t)
  IN  IF active[w] # t \/ t \notin Range(order[w]) THEN active[w]
      ELSE IF i <= Len(rest) THEN rest[i]
      ELSE IF i > 1 THEN rest[i - 1]
      ELSE NoTab

\* last_focused_existing_window: the latest registered entry of the focus
\* order, else the last focused window when it is registered.
LastFocusedExisting(wins, focused, last) ==
  LET live == {i \in DOMAIN focused : focused[i] \in wins} IN
  IF live # {} THEN focused[Max(live)]
  ELSE IF last \in wins THEN last
  ELSE NoWindow

\* choose_rehome_window: identifiers are random, so the smallest of the
\* remaining ones is any of them.
RehomeCandidates(wins, focused, last) ==
  LET recent == LastFocusedExisting(wins, focused, last) IN
  IF recent # NoWindow THEN {recent}
  ELSE IF Main \in wins THEN {Main}
  ELSE wins

\* Mutant of EnsureFocused: the window is not registered.
FocusedOnly(w) ==
  /\ lastFocused' = w
  /\ focusOrder' = Append(Without(focusOrder, w), w)
  /\ UNCHANGED windows

\* ensure_window and set_focused_window.
EnsureFocused(w) ==
  /\ windows' = windows \cup {w}
  /\ lastFocused' = w
  /\ focusOrder' = Append(Without(focusOrder, w), w)

-----------------------------------------------------------------------------
(* Native windows and the tasks their events spawn.                        *)

\* workspace_window_create: the webview of the new window will register it.
CreateWindow(w) ==
  /\ native[w] = "absent"
  /\ InFlight < MaxInFlight
  /\ native' = [native EXCEPT ![w] = "open"]
  /\ focusing' = focusing \cup {w}
  /\ UNCHANGED <<session, model, drag, registering, unregistering, closing, move>>

\* WindowEvent::Focused(true), or the frontend's focus listener.
FocusEvent(w) ==
  /\ native[w] = "open"
  /\ w \notin focusing
  /\ InFlight < MaxInFlight
  /\ focusing' = focusing \cup {w}
  /\ UNCHANGED <<native, session, model, drag, registering, unregistering, closing, move>>

\* focus_window, and register_window with focused = true.
FocusWindow(w) ==
  /\ w \in focusing
  /\ LockFree
  /\ focusing' = focusing \ {w}
  /\ EnsureFocused(w)
  /\ UNCHANGED <<native, session, order, active, tabs, owner, connected, drag,
                 registering, unregistering, closing, move>>

\* WindowEvent::Destroyed.  The window's script dies with it: of its close
\* operations, only those that may already have sent the removal survive.
DestroyWindow(w) ==
  /\ native[w] = "open"
  /\ InFlight < MaxInFlight
  /\ native' = [native EXCEPT ![w] = "gone"]
  /\ unregistering' = unregistering \cup {w}
  /\ closing' = {c \in closing : c[1] # w \/ session[c[2]] = "ended"}
  /\ UNCHANGED <<session, model, drag, registering, focusing, move>>

\* unregister_window when a registered window remains to take the tabs.
Rehome(w, wins, focused, last) ==
  \E dest \in RehomeCandidates(wins, focused, last),
     moved \in OrderedParts(order[w], tabs) :
    \E kept \in OrderedParts(moved, Tab \ Range(order[dest])) :
      /\ w \in windows
      /\ moved # << >>
      /\ order' = [order EXCEPT ![w] = << >>, ![dest] = @ \o kept]
      /\ active' = [active EXCEPT ![w] = NoTab,
                                  ![dest] = IF @ = NoTab THEN moved[1] ELSE @]
      /\ owner' = [t \in Tab |-> IF t \in Range(moved) THEN dest ELSE owner[t]]

\* Mutant of DropWindow: the window's tabs are dropped with it.
DropWindowAndTabs(w, wins) ==
  /\ order' = [order EXCEPT ![w] = << >>]
  /\ active' = [active EXCEPT ![w] = NoTab]
  /\ UNCHANGED owner

\* unregister_window when there is nothing to move or nowhere to move it:
\* the tabs stay in the model, owned by the window that is gone.
DropWindow(w, wins) ==
  /\ \/ wins = {}
     \/ Range(order[w]) \cap tabs = {}
  /\ order' = [order EXCEPT ![w] = << >>]
  /\ active' = [active EXCEPT ![w] = NoTab]
  /\ UNCHANGED owner

UnregisterWindow(w) ==
  LET wins == windows \ {w}
      focused == Without(focusOrder, w)
      last == LastFocusedExisting(wins, focused, lastFocused)
  IN  /\ w \in unregistering
      /\ LockFree
      /\ unregistering' = unregistering \ {w}
      /\ windows' = wins
      /\ focusOrder' = focused
      /\ lastFocused' = last
      /\ \/ Rehome(w, wins, focused, last)
         \/ DropWindow(w, wins)
      /\ UNCHANGED <<native, session, tabs, connected, drag, registering,
                     focusing, closing, move>>

-----------------------------------------------------------------------------
(* Sessions: the protocol's registration and teardown, and the tab.        *)

\* A protocol publishes the session in the terminal registry.
Connect(t) ==
  /\ session[t] = "absent"
  /\ session' = [session EXCEPT ![t] = "connected"]
  /\ UNCHANGED <<native, model, drag, registering, tasks, move>>

\* Teardown, first step: terminals.mark_disconnected.
MarkTerminal(t) ==
  /\ session[t] = "connected"
  /\ session' = [session EXCEPT ![t] = "marked"]
  /\ UNCHANGED <<native, model, drag, registering, tasks, move>>

\* Teardown, second step: workspace.mark_disconnected.
MarkDisconnected(t) ==
  /\ session[t] = "marked"
  /\ LockFree
  /\ session' = [session EXCEPT ![t] = "ended"]
  /\ connected' = [connected EXCEPT ![t] = FALSE]
  /\ UNCHANGED <<native, windows, order, active, tabs, owner, lastFocused,
                 focusOrder, drag, registering, tasks, move>>

\* Mutant of ReadStatus: the tab is registered as connected.
ReadNothing(t, w) ==
  /\ session[t] \in {"connected", "marked", "ended"}
  /\ t \notin tabs
  /\ w \in {NoWindow} \cup {v \in Window : native[v] # "absent"}
  /\ LockFree
  /\ registering' = [tab |-> t, window |-> w, connected |-> TRUE]
  /\ UNCHANGED <<native, session, model, drag, tasks, move>>

\* register_session_tab takes the mutex, then reads the retained status.
\* Whoever connected a session registers it once: the GUI with its own window,
\* which may be gone by the time the mutex is free, external control with none.
ReadStatus(t, w) ==
  /\ session[t] \in {"connected", "marked", "ended"}
  /\ t \notin tabs
  /\ w \in {NoWindow} \cup {v \in Window : native[v] # "absent"}
  /\ LockFree
  /\ registering' = [tab |-> t, window |-> w, connected |-> session[t] = "connected"]
  /\ UNCHANGED <<native, session, model, drag, tasks, move>>

\* register_tab_locked, with choose_owner_window.
InsertTab ==
  LET t == registering.tab
      requested == registering.window
      recent == LastFocusedExisting(windows, focusOrder, lastFocused)
      dest == IF requested # NoWindow THEN requested
              ELSE IF recent # NoWindow THEN recent
              ELSE Main
  IN  /\ ~LockFree
      /\ registering' = NoRegistration
      /\ \/ requested # NoWindow /\ EnsureFocused(requested)
         \/ /\ requested = NoWindow
            /\ windows' = windows \cup {dest}
            /\ UNCHANGED <<lastFocused, focusOrder>>
      /\ order' = [w \in Window |->
                     IF w = dest THEN Append(Without(order[w], t), t)
                     ELSE Without(order[w], t)]
      /\ active' = [w \in Window |-> IF w = dest THEN t ELSE ActiveWithout(w, t)]
      /\ tabs' = tabs \cup {t}
      /\ owner' = [owner EXCEPT ![t] = dest]
      /\ connected' = [connected EXCEPT ![t] = registering.connected]
      /\ UNCHANGED <<native, session, drag, tasks, move>>

\* disconnectTab of the frontend: the window is the one the tab was shown in
\* when the user closed it.
BeginClose(w, t) ==
  /\ native[w] = "open"
  /\ t \in Range(order[w]) \cap tabs
  /\ <<w, t>> \notin closing
  /\ InFlight < MaxInFlight
  /\ closing' = closing \cup {<<w, t>>}
  /\ UNCHANGED <<native, session, model, drag, registering, focusing, unregistering, move>>

\* remove_tab, which the frontend calls once the disconnect has returned.
RemoveTab(w, t) ==
  /\ <<w, t>> \in closing
  /\ session[t] \in {"ended", "closed"}
  /\ LockFree
  /\ closing' = closing \ {<<w, t>>}
  /\ \/ /\ w \in windows
        /\ tabs' = tabs \ {t}
        /\ owner' = [owner EXCEPT ![t] = NoWindow]
        /\ order' = [order EXCEPT ![w] = Without(@, t)]
        /\ active' = [active EXCEPT ![w] = ActiveWithout(w, t)]
        /\ session' = [session EXCEPT ![t] = "closed"]
     \/ /\ w \notin windows
        /\ UNCHANGED <<tabs, owner, order, active, session>>
  /\ UNCHANGED <<native, windows, connected, lastFocused, focusOrder, drag,
                 registering, focusing, unregistering, move>>

\* Stopping the manual log or disconnecting failed: the tab stays.
CloseFails(w, t) ==
  /\ <<w, t>> \in closing
  /\ closing' = closing \ {<<w, t>>}
  /\ UNCHANGED <<native, session, model, drag, registering, focusing, unregistering, move>>

-----------------------------------------------------------------------------
(* Selecting and reordering.  A window's strip does not let a tab that is  *)
(* being closed there be dragged, detached or dropped on.                  *)

ActivateTab(w, t) ==
  /\ native[w] = "open"
  /\ LockFree
  /\ w \in windows
  /\ t \in Range(order[w])
  /\ active' = [active EXCEPT ![w] = t]
  /\ lastFocused' = w
  /\ UNCHANGED <<native, session, windows, order, tabs, owner, connected,
                 focusOrder, drag, registering, tasks, move>>

\* activate_session: external control selects a tab in its owner window.
ActivateSession(t) ==
  /\ LockFree
  /\ t \in tabs
  /\ owner[t] \in windows
  /\ t \in Range(order[owner[t]])
  /\ active' = [active EXCEPT ![owner[t]] = t]
  /\ UNCHANGED <<native, session, windows, order, tabs, owner, connected,
                 lastFocused, focusOrder, drag, registering, tasks, move>>

\* focus_session_window: the native focus call fails for a window that is gone.
FocusSessionWindow(w, t) ==
  /\ LockFree
  /\ t \in tabs
  /\ owner[t] = w
  /\ w \in windows
  /\ active[w] = t
  /\ native[w] = "open"
  /\ EnsureFocused(w)
  /\ UNCHANGED <<native, session, order, active, tabs, owner, connected, drag,
                 registering, tasks, move>>

\* reorder_tab: t goes before or after u.
ReorderTab(w, t, u, side) ==
  LET rest == Without(order[w], t)
      at == IndexIn(rest, u)
  IN  /\ native[w] = "open"
      /\ LockFree
      /\ w \in windows
      /\ t # u
      /\ {t, u} \subseteq Range(order[w])
      /\ closing \cap {<<w, t>>, <<w, u>>} = {}
      /\ order' = [order EXCEPT ![w] = InsertAt(rest, IF side = "after" THEN at + 1 ELSE at, t)]
      /\ UNCHANGED <<native, session, windows, active, tabs, owner, connected,
                     lastFocused, focusOrder, drag, registering, tasks, move>>

-----------------------------------------------------------------------------
(* Cross-window drag, and the two commands that move a tab.                *)

DragStart(w, t) ==
  /\ native[w] = "open"
  /\ LockFree
  /\ w \in windows
  /\ t \in Range(order[w])
  /\ t \in tabs
  /\ owner[t] = w
  /\ <<w, t>> \notin closing
  /\ drag' = [tab |-> t, source |-> w, target |-> NoWindow, index |-> 0]
  /\ UNCHANGED <<native, session, model, registering, tasks, move>>

DragHover(w, i) ==
  /\ native[w] = "open"
  /\ LockFree
  /\ drag # NoDrag
  /\ w \in windows
  /\ drag' = [drag EXCEPT !.target = w, !.index = i]
  /\ UNCHANGED <<native, session, model, registering, tasks, move>>

\* drag_hover without an index: the pointer left the window's strip.
DragLeave(w) ==
  /\ native[w] = "open"
  /\ LockFree
  /\ drag # NoDrag
  /\ drag.target = w
  /\ drag' = [drag EXCEPT !.target = NoWindow, !.index = 0]
  /\ UNCHANGED <<native, session, model, registering, tasks, move>>

DragCancel ==
  /\ LockFree
  /\ drag # NoDrag
  /\ drag' = NoDrag
  /\ UNCHANGED <<native, session, model, registering, tasks, move>>

\* drag_drop_prepare: the intent is read and the drag session cleared.
DropPrepare ==
  /\ move = Idle
  /\ InFlight < MaxInFlight
  /\ LockFree
  /\ drag # NoDrag
  /\ \/ /\ drag.tab \in tabs
        /\ drag.source \in windows
        /\ drag' = NoDrag
        /\ move' = [kind |-> "drop", tab |-> drag.tab, source |-> drag.source,
                    target |-> drag.target, index |-> drag.index,
                    step |-> IF drag.target = NoWindow THEN "create" ELSE "move"]
     \/ /\ drag.tab \notin tabs \/ drag.source \notin windows
        /\ UNCHANGED drag
        /\ move' = [Idle EXCEPT !.kind = "drop", !.step = "cancel"]
  /\ UNCHANGED <<native, session, model, registering, tasks>>

\* workspace_tab_detach_to_new_window, after validate_tab_move_source.
DetachBegin(w, t) ==
  /\ move = Idle
  /\ InFlight < MaxInFlight
  /\ native[w] = "open"
  /\ LockFree
  /\ w \in windows
  /\ t \in Range(order[w])
  /\ t \in tabs
  /\ owner[t] = w
  /\ <<w, t>> \notin closing
  /\ move' = [kind |-> "detach", step |-> "create", tab |-> t, source |-> w,
              target |-> NoWindow, index |-> 0]
  /\ UNCHANGED <<native, session, model, drag, registering, tasks>>

\* create_workspace_window, in either command.
CreateTarget(w) ==
  /\ move.step = "create"
  /\ native[w] = "absent"
  /\ native' = [native EXCEPT ![w] = "open"]
  /\ focusing' = focusing \cup {w}
  /\ move' = [move EXCEPT !.step = "register", !.target = w]
  /\ UNCHANGED <<session, model, drag, registering, unregistering, closing>>

\* The drop command cancels the drag when it fails or when it is done.
AfterMove == IF move.kind = "drop" THEN [move EXCEPT !.step = "cancel"] ELSE Idle

CreateTargetFails ==
  /\ move.step = "create"
  /\ move' = AfterMove
  /\ UNCHANGED <<native, session, model, drag, registering, tasks>>

RegisterTarget ==
  /\ move.step = "register"
  /\ LockFree
  /\ EnsureFocused(move.target)
  /\ move' = [move EXCEPT !.step = "move"]
  /\ UNCHANGED <<native, session, order, active, tabs, owner, connected, drag,
                 registering, tasks>>

\* The checks of move_tab.
CanMove(t, from, to) ==
  /\ to \in windows
  /\ from \in windows
  /\ t \in Range(order[from])
  /\ t \in tabs
  /\ owner[t] = from

\* Mutant of MoveTab: the owner is updated only within a window.
MoveKeepsOwner(t, from, to, index) ==
  LET rest == Without(order[to], t)
      at == IF index < Len(rest) THEN index ELSE Len(rest)
  IN  /\ order' = [order EXCEPT ![from] = Without(@, t), ![to] = InsertAt(rest, at + 1, t)]
      /\ active' = [active EXCEPT ![from] = ActiveWithout(from, t), ![to] = t]
      /\ UNCHANGED owner

\* move_tab: the index is clamped to the destination's length.
MoveTab(t, from, to, index) ==
  LET rest == Without(order[to], t)
      at == IF index < Len(rest) THEN index ELSE Len(rest)
      placed == InsertAt(rest, at + 1, t)
  IN  /\ owner' = [owner EXCEPT ![t] = to]
      /\ \/ /\ from = to
            /\ order' = [order EXCEPT ![to] = placed]
            /\ UNCHANGED active
         \/ /\ from # to
            /\ order' = [order EXCEPT ![from] = Without(@, t), ![to] = placed]
            /\ active' = [active EXCEPT ![from] = ActiveWithout(from, t), ![to] = t]

MoveStep ==
  /\ move.step = "move"
  /\ LockFree
  /\ move' = AfterMove
  /\ \/ /\ CanMove(move.tab, move.source, move.target)
        /\ MoveTab(move.tab, move.source, move.target, move.index)
     \/ /\ ~CanMove(move.tab, move.source, move.target)
        /\ UNCHANGED <<owner, order, active>>
  /\ UNCHANGED <<native, session, windows, tabs, connected, lastFocused,
                 focusOrder, drag, registering, tasks>>

CancelStep ==
  /\ move.step = "cancel"
  /\ LockFree
  /\ drag' = NoDrag
  /\ move' = Idle
  /\ UNCHANGED <<native, session, model, registering, tasks>>

-----------------------------------------------------------------------------
WindowStep(w) ==
  \/ CreateWindow(w)
  \/ FocusEvent(w)
  \/ FocusWindow(w)
  \/ DestroyWindow(w)
  \/ UnregisterWindow(w)
  \/ CreateTarget(w)
  \/ DragLeave(w)
  \/ \E i \in 0..MaxIndex : DragHover(w, i)

SessionStep(t) ==
  \/ Connect(t)
  \/ MarkTerminal(t)
  \/ MarkDisconnected(t)
  \/ \E w \in Window \cup {NoWindow} : ReadStatus(t, w)
  \/ ActivateSession(t)

TabStep(w, t) ==
  \/ BeginClose(w, t)
  \/ RemoveTab(w, t)
  \/ CloseFails(w, t)
  \/ ActivateTab(w, t)
  \/ FocusSessionWindow(w, t)
  \/ \E u \in Tab, side \in {"before", "after"} : ReorderTab(w, t, u, side)
  \/ DragStart(w, t)
  \/ DetachBegin(w, t)

CommandStep ==
  \/ InsertTab
  \/ DragCancel
  \/ DropPrepare
  \/ CreateTargetFails
  \/ RegisterTarget
  \/ MoveStep
  \/ CancelStep

\* The process exits with its last native window.
Next ==
  /\ AppRunning
  /\ \/ \E w \in Window : WindowStep(w)
     \/ \E t \in Tab : SessionStep(t)
     \/ \E w \in Window, t \in Tab : TabStep(w, t)
     \/ CommandStep

Spec == Init /\ [][Next]_vars
-----------------------------------------------------------------------------
(* Invariants.                                                             *)

DragSession ==
  [tab : Tab, source : Window, target : Window \cup {NoWindow}, index : 0..MaxIndex]
Registration ==
  [tab : Tab, window : Window \cup {NoWindow}, connected : BOOLEAN]
Command ==
  [kind : {"idle", "drop", "detach"},
   step : {"none", "create", "register", "move", "cancel"},
   tab : Tab \cup {NoTab}, source : Window \cup {NoWindow},
   target : Window \cup {NoWindow}, index : 0..MaxIndex]

\* Every variable has the type its field has in the code; a window that is
\* not registered has no order and no active tab.
TypeOK ==
  /\ native \in [Window -> {"absent", "open", "gone"}]
  /\ session \in [Tab -> {"absent", "connected", "marked", "ended", "closed"}]
  /\ windows \subseteq Window
  /\ order \in [Window -> Seq(Tab)]
  /\ active \in [Window -> Tab \cup {NoTab}]
  /\ tabs \subseteq Tab
  /\ owner \in [Tab -> Window \cup {NoWindow}]
  /\ connected \in [Tab -> BOOLEAN]
  /\ lastFocused \in Window \cup {NoWindow}
  /\ focusOrder \in Seq(Window)
  /\ drag \in DragSession \cup {NoDrag}
  /\ registering \in Registration \cup {NoRegistration}
  /\ focusing \subseteq Window
  /\ unregistering \subseteq Window
  /\ closing \subseteq Window \X Tab
  /\ move \in Command
  /\ move.step = "register" => move.target \in Window
  /\ \A w \in Window \ windows : order[w] = << >> /\ active[w] = NoTab

\* No window lists a tab twice and no two windows list the same tab,
\* whatever moves, rehomings and registrations interleave.
PlacedOnce ==
  /\ \A w \in Window : IsInjective(order[w])
  /\ \A v, w \in Window : v # w => Range(order[v]) \cap Range(order[w]) = {}

\* The owner recorded in a tab is the window that lists it.
OwnerAgrees ==
  \A w \in Window : \A t \in Range(order[w]) \cap tabs : owner[t] = w

\* A window that lists tabs shows one of them, also after its active tab was
\* moved away, closed or brought in by a closing window.
ActiveIsListed ==
  \A w \in Window :
    IF order[w] = << >> THEN active[w] = NoTab ELSE active[w] \in Range(order[w])

\* The focus history names registered windows only, each at most once.
FocusIsRegistered ==
  /\ Range(focusOrder) \subseteq windows
  /\ IsInjective(focusOrder)
  /\ lastFocused \in windows \cup {NoWindow}

\* What validate_invariants requires of lists, owners, active tabs and focus history,
\* after any interleaving of window events, commands and registrations.  Two of its
\* requirements do not hold: a listed tab may be unknown (KnownTabs), and an owner
\* may be unregistered, when the last window closes before the next one registers.
Consistent == PlacedOnce /\ OwnerAgrees /\ ActiveIsListed /\ FocusIsRegistered

\* A tab of a session whose teardown is complete is shown as disconnected,
\* even if it was registered while the teardown ran.
NeverRevived ==
  \A t \in tabs : session[t] \in {"ended", "closed"} => ~connected[t]

\* The status a registration read under the placement mutex is still true when
\* the tab is inserted: the teardown's second step cannot overtake it.
StatusHolds ==
  ~LockFree /\ registering.connected => session[registering.tab] \in {"connected", "marked"}

Listed(t) == t \in tabs /\ \E w \in windows : t \in Range(order[w])

ListedStays ==
  \A t \in Tab : Listed(t) /\ t \in tabs' /\ windows' # {} => Listed(t)'

\* Action property: a tab a window lists stays listed by some window unless
\* it is closed or no registered window is left.
StaysListed == [][ListedStays]_vars

\* validate_invariants: "A window references an unknown tab".
KnownTabs == \A w \in windows : Range(order[w]) \subseteq tabs

=============================================================================
