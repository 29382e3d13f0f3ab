--------------------------------- MODULE Launch ---------------------------------
(***************************************************************************)
(* How clients of the control plane find the GUI or start it               *)
(* (external_control/client.rs), from exaterm-cli's check that it may      *)
(* (terminal_cli.rs) to the call itself (external_control/protocol.rs),    *)
(* and the GUI's listener (external_control/server.rs).  Time is the order *)
(* of steps: a client gives up at a probe that fails, after which its      *)
(* thirty seconds may be over.                                             *)
(***************************************************************************)
EXTENDS Integers, FiniteSets

CONSTANTS
  Clients,
  NoClient,
  MaxStarts,     \* bound: how often a GUI is started
  MaxUpsets      \* bound: clients killed and switches changed

ASSUME LaunchAssumption == NoClient \notin Clients

VARIABLES
  platform,   \* windows: a mutex; other: a lock file
  switches,   \* which of external_control.enabled and the adapter's flag are on
  gui,        \* none, starting, listening, or deaf: without a control plane
  version,    \* whether the GUI speaks the client's protocol version
  launcher,   \* history: the client that spawned this GUI, or NoClient
  lock,       \* who created the mutex or the file, or NoClient
  pc,         \* where each client is
  doctor,     \* whether the client is `doctor`
  read,       \* the switches a client has read
  starts, upsets

processVars == <<gui, version, launcher>>
launchVars == <<platform, switches, processVars, lock, pc, doctor, read, starts, upsets>>

Both == {"external_control", "adapter"}

InitLaunch ==
  /\ platform \in {"windows", "other"}
  /\ switches = Both
  /\ gui = "none" /\ version = "same" /\ launcher = NoClient
  /\ lock = NoClient
  /\ pc = [p \in Clients |-> "begin"]
  /\ doctor \in [Clients -> BOOLEAN]
  /\ read = [p \in Clients |-> {}]
  /\ starts = 0 /\ upsets = 0

Enter(p, state) == pc' = [pc EXCEPT ![p] = state]
Steady == UNCHANGED <<platform, switches, processVars, doctor, starts, upsets>>
Over == {"called", "failed", "refused", "gave_up", "killed", "healthy", "unhealthy"}

\* run_terminal_cli, run_stdio_proxy: both switches, or nothing is done; doctor
\* keeps what it read for its report.
ReadSettings(p) ==
  /\ pc[p] = "begin"
  /\ read' = [read EXCEPT ![p] = switches]
  /\ Enter(p, IF doctor[p] \/ switches = Both THEN "discover" ELSE "refused")
  /\ Steady /\ UNCHANGED lock

\* probe_control_plane_state: the handshake of control_probe_over_stream fails
\* on another version.
Probe == CASE gui # "listening" -> "unavailable"
           [] gui = "listening" /\ version = "same" -> "compatible"
           [] OTHER -> "incompatible"

\* What ends the waiting: a GUI that speaks the version; for doctor, any.
Reached(p) == Probe = "compatible" \/ (doctor[p] /\ Probe = "incompatible")
Found == IF Probe = "compatible" THEN "reached" ELSE "other_version"

\* wait_for_control_plane before anything is started; doctor probes once.
Discover(p) ==
  /\ pc[p] = "discover"
  /\ Enter(p, IF Reached(p) THEN Found ELSE "acquire")
  /\ Steady /\ UNCHANGED <<lock, read>>

\* LaunchLock::acquire never waits: who does not get the lock only waits for
\* the GUI.  It may also fail.
Acquire(p) ==
  /\ pc[p] = "acquire"
  /\ \/ lock = NoClient /\ lock' = p /\ Enter(p, "recheck")
     \/ lock # NoClient /\ UNCHANGED lock /\ Enter(p, "wait")
     \/ UNCHANGED lock /\ Enter(p, "failed")
  /\ Steady /\ UNCHANGED read

\* Mutant of Recheck: the owner of the lock launches.
RecheckNothing(p) ==
  /\ pc[p] = "recheck"
  /\ Enter(p, "spawn")
  /\ Steady /\ UNCHANGED <<lock, read>>

\* launch_gui_if_needed: the control plane is probed again under the lock.
Recheck(p) ==
  /\ pc[p] = "recheck"
  /\ Enter(p, IF Reached(p) THEN "wait" ELSE "spawn")
  /\ Steady /\ UNCHANGED <<lock, read>>

\* Drop of the lock, on every way out.
Unlock(p) == IF lock = p THEN NoClient ELSE lock

\* A GUI reads the switch when it starts (lib.rs).
GuiStarts(by, v) ==
  /\ starts < MaxStarts /\ starts' = starts + 1
  /\ gui' = IF "external_control" \in switches THEN "starting" ELSE "deaf"
  /\ version' = v /\ launcher' = by

\* start_gui_process.  A second GUI of a user hands over to the first one and
\* exits (tauri_plugin_single_instance).
Spawn(p) ==
  /\ pc[p] = "spawn"
  /\ \/ /\ Enter(p, "wait")
        /\ IF gui = "none" THEN GuiStarts(p, "same") ELSE UNCHANGED <<processVars, starts>>
        /\ UNCHANGED lock
     \/ /\ Enter(p, "failed")                 \* no executable, or it fails
        /\ lock' = Unlock(p)
        /\ UNCHANGED <<processVars, starts>>
  /\ UNCHANGED <<platform, switches, doctor, read, upsets>>

\* wait_for_control_plane after the launch: it comes up, or time is over.
WaitForGui(p) ==
  /\ pc[p] = "wait"
  /\ Enter(p, IF Reached(p) THEN Found ELSE "gave_up")
  /\ lock' = Unlock(p)
  /\ Steady /\ UNCHANGED read

\* The request, on a connection of its own: handshake, nonce, answer.
Call(p) ==
  /\ pc[p] = "reached" /\ ~doctor[p]
  /\ Enter(p, IF Probe = "compatible" THEN "called" ELSE "failed")
  /\ Steady /\ UNCHANGED <<lock, read>>

\* build_doctor_report.
Report(p) ==
  /\ doctor[p] /\ pc[p] \in {"reached", "other_version", "failed", "gave_up"}
  /\ Enter(p, IF pc[p] = "reached" /\ read[p] = Both THEN "healthy" ELSE "unhealthy")
  /\ Steady /\ UNCHANGED <<lock, read>>

\* The process is killed: Windows abandons the mutex, a lock file stays.
ClientDies(p) ==
  /\ pc[p] \notin Over \cup {"begin"}
  /\ upsets < MaxUpsets /\ upsets' = upsets + 1
  /\ Enter(p, "killed")
  /\ lock' = IF platform = "windows" THEN Unlock(p) ELSE lock
  /\ UNCHANGED <<platform, switches, processVars, doctor, read, starts>>

\* run_local_control_server: the pipe is created, retried until it can be; a
\* port that is taken leaves the GUI without a control plane.
GuiListens ==
  /\ gui = "starting"
  /\ \/ gui' = "listening"
     \/ gui' = "deaf" /\ platform = "other"
  /\ UNCHANGED <<platform, switches, version, launcher, lock, pc, doctor, read, starts, upsets>>

\* The user starts a GUI, of this version or another, closes it, or changes a
\* switch.
UserStarts ==
  /\ gui = "none"
  /\ \E v \in {"same", "other"} : GuiStarts(NoClient, v)
  /\ UNCHANGED <<platform, switches, lock, pc, doctor, read, upsets>>

GuiExits ==
  /\ gui # "none"
  /\ gui' = "none" /\ launcher' = NoClient /\ version' = "same"
  /\ UNCHANGED <<platform, switches, lock, pc, doctor, read, starts, upsets>>

UserSwitches(s) ==
  /\ upsets < MaxUpsets /\ upsets' = upsets + 1
  /\ switches' = IF s \in switches THEN switches \ {s} ELSE switches \cup {s}
  /\ UNCHANGED <<platform, processVars, lock, pc, doctor, read, starts>>

LaunchNext ==
  \/ \E p \in Clients :
       \/ ReadSettings(p) \/ Discover(p) \/ Acquire(p) \/ Recheck(p) \/ Spawn(p)
       \/ WaitForGui(p) \/ Call(p) \/ Report(p) \/ ClientDies(p)
  \/ GuiListens \/ UserStarts \/ GuiExits
  \/ \E s \in Both : UserSwitches(s)
-----------------------------------------------------------------------------
(* Properties *)

\* A client that has looked under the lock never starts a GUI beside the one
\* another client started: unless that client gave up on it or was killed, or
\* the GUI has no control plane that could be seen (ARCHITECTURE.md:154).
OneLaunch ==
  [][\A p \in Clients :
       pc[p] = "recheck" /\ pc'[p] = "spawn" /\ launcher # NoClient /\ gui # "deaf" =>
         pc[launcher] \in {"gave_up", "killed", "unhealthy"}]_launchVars
=============================================================================
