---------------------------- MODULE ExternalControl ----------------------------
(***************************************************************************)
(* External control as a whole: an invocation of exaterm-cli or of the MCP *)
(* adapter finds or starts the GUI (Launch), and then reads a terminal     *)
(* (Reading) or has an operation done (ExternalRequests).  The three touch *)
(* no state in common, so that interleaving them shows nothing new:        *)
(* `stage` says which of them a behaviour explores, and the other two stay *)
(* where they begin.                                                       *)
(***************************************************************************)
EXTENDS Launch, Reading, ExternalRequests

VARIABLE stage      \* launch, read or request

externalVars == <<stage, launchVars, readingVars, requestVars>>

\* The parts a behaviour does not explore begin in one way only.
InitExternal ==
  /\ InitLaunch /\ InitReading /\ InitRequests
  /\ stage \in {"launch", "read", "request"}
  /\ stage # "launch" =>
       platform = "windows" /\ doctor = [p \in Clients |-> FALSE]
  /\ stage # "request" =>
       /\ opened = "shown" /\ focused = owner
       /\ log = "inactive"

ExternalNext ==
  \/ /\ stage = "launch" /\ LaunchNext
     /\ UNCHANGED <<stage, readingVars, requestVars>>
  \/ /\ stage = "read" /\ ReadingNext
     /\ UNCHANGED <<stage, launchVars, requestVars>>
  \/ /\ stage = "request" /\ RequestsNext
     /\ UNCHANGED <<stage, launchVars, readingVars>>

Spec == InitExternal /\ [][ExternalNext]_externalVars
=============================================================================
