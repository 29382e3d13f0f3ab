------------------------------ MODULE HostKeys ------------------------------
(***************************************************************************)
(* The verification of an SSH server's key: the known-hosts file, the      *)
(* prompt in a window, its answer, cancellation and deadline, and the      *)
(* recording of a key that the user accepts                                *)
(* (src-tauri/src/ssh/host_key.rs, ssh/host_key_prompt.rs,                 *)
(* ssh_known_hosts.rs).                                                    *)
(*                                                                         *)
(* Nothing locks the file: handshakes read and rewrite it side by side.    *)
(* Its lines are a set; comments and lines for several hosts are left out. *)
(***************************************************************************)
EXTENDS Naturals, FiniteSets

CONSTANTS
  Conn,         \* handshakes, of targets and of jump hosts
  HostOf,       \* the endpoint of each
  Prompts,      \* what each may ask the user about: {}, {"unknown"} or both
  Key,
  FirstKnown,   \* the contents the file may have at first
  MaxWriteFailures  \* bound: writes of the file that fail

VARIABLES
  known,       \* the lines of the file, {} when there is none
  phase,       \* where each handshake is
  shown,       \* the key its server presented
  status,      \* how the key compared with the file when it was first inspected
  pending,     \* the prompts in SshHostKeyPromptState.pending
  reply,       \* what came through each prompt's channel
  dialog,      \* the prompts a window shows
  lines,       \* what each handshake is about to write
  consent,     \* the keys the user has ever accepted
  overlapped,  \* two writes of the file have overlapped, or one failed
  writeFailures

prompting == <<pending, reply, dialog>>
hostKeyVars == <<known, phase, shown, status, prompting, lines, consent, overlapped,
                 writeFailures>>

Line(c) == [host |-> HostOf[c], key |-> shown[c]]

HostKeyInit ==
  /\ known \in FirstKnown
  /\ phase = [c \in Conn |-> "inspect"]
  /\ shown \in [Conn -> Key]
  /\ status = [c \in Conn |-> "unknown"]
  /\ pending = {} /\ reply = [c \in Conn |-> "none"] /\ dialog = {}
  /\ lines = [c \in Conn |-> {}]
  /\ consent = known
  /\ overlapped = FALSE /\ writeFailures = 0

Goto(c, p) == phase' = [phase EXCEPT ![c] = p]

\* inspect_host_key_with_path: a line with the key is enough, also among others.
Inspected(c) ==
  IF Line(c) \in known THEN "trusted"
  ELSE IF \E l \in known : l.host = HostOf[c] THEN "mismatch"
  ELSE "unknown"

\* verify_server_key, up to the prompt.
Inspect(c) ==
  /\ phase[c] = "inspect"
  /\ status' = [status EXCEPT ![c] = Inspected(c)]
  /\ Goto(c, IF Inspected(c) = "trusted" THEN "verified"
             ELSE IF Inspected(c) \in Prompts[c] THEN "ask" ELSE "refused")
  /\ UNCHANGED <<known, shown, prompting, lines, consent, overlapped, writeFailures>>

\* confirm: the prompt is pending before its window hears of it.
Ask(c) ==
  /\ phase[c] = "ask"
  /\ pending' = pending \cup {c}
  /\ dialog' = dialog \cup {c}
  /\ Goto(c, "wait")
  /\ UNCHANGED <<known, shown, status, reply, lines, consent, overlapped, writeFailures>>

\* Whatever takes a prompt out of the map sends through its channel; the send fails
\* when the waiting has ended.
Send(c, r) ==
  /\ c \in pending
  /\ pending' = pending \ {c}
  /\ reply' = IF phase[c] = "wait" THEN [reply EXCEPT ![c] = r] ELSE reply

\* submit, by the window that shows the prompt.
Submit(c, accept) ==
  /\ Send(c, IF accept THEN "yes" ELSE "no")
  /\ consent' = IF accept /\ phase[c] = "wait" THEN consent \cup {Line(c)} ELSE consent
  /\ UNCHANGED <<known, phase, shown, status, dialog, lines, overlapped, writeFailures>>

\* cancel_window and cancel_connect_attempt.
Cancel(c) ==
  /\ Send(c, "no")
  /\ UNCHANGED <<known, phase, shown, status, dialog, lines, consent, overlapped, writeFailures>>

\* wait_for_response has the answer, also one that came with the deadline.
Answered(c) ==
  /\ phase[c] = "wait" /\ reply[c] # "none"
  /\ Goto(c, "answered")
  /\ UNCHANGED <<known, shown, status, prompting, lines, consent, overlapped, writeFailures>>

\* The deadline passes, and the channel is gone.
Expire(c) ==
  /\ phase[c] = "wait" /\ reply[c] = "none"
  /\ Goto(c, "expired")
  /\ UNCHANGED <<known, shown, status, prompting, lines, consent, overlapped, writeFailures>>

\* The future is dropped with the attempt: PromptCleanup::drop clears up.
Abandon(c) ==
  /\ phase[c] = "wait"
  /\ Goto(c, "dropped")
  /\ UNCHANGED <<known, shown, status, prompting, lines, consent, overlapped, writeFailures>>

\* Mutant of Finish: a prompt that nobody refused is taken as accepted.
FinishUnlessRefused(c) ==
  /\ phase[c] \in {"answered", "expired", "dropped"}
  /\ pending' = pending \ {c}
  /\ dialog' = dialog \ {c}
  /\ Goto(c, IF reply[c] # "no" THEN "recheck" ELSE "refused")
  /\ UNCHANGED <<known, shown, status, reply, lines, consent, overlapped, writeFailures>>

\* PromptCleanup: the prompt leaves the map and the window.
Finish(c) ==
  /\ phase[c] \in {"answered", "expired", "dropped"}
  /\ pending' = pending \ {c}
  /\ dialog' = dialog \ {c}
  /\ Goto(c, IF phase[c] = "answered" /\ reply[c] = "yes" THEN "recheck" ELSE "refused")
  /\ UNCHANGED <<known, shown, status, reply, lines, consent, overlapped, writeFailures>>

\* write_trusted_host_with_path inspects the file again: a key that was saved while the
\* user was asked is replaced only if the user was told of a mismatch.
Recheck(c) ==
  /\ phase[c] = "recheck"
  /\ Goto(c, CASE Inspected(c) = "trusted" -> "verified"
               [] Inspected(c) = "mismatch" /\ status[c] # "mismatch" -> "refused"
               [] OTHER -> "read")
  /\ UNCHANGED <<known, shown, status, prompting, lines, consent, overlapped, writeFailures>>

\* Mutant of NewLines: the other lines of the host go in any case.
NewLinesReplacing(c) == {l \in known : l.host # HostOf[c]} \cup {Line(c)}

\* The lines read for writing, with the host's own replaced or a new one appended.
NewLines(c) ==
  {l \in known : status[c] = "mismatch" => l.host # HostOf[c]} \cup {Line(c)}

Writing(c) == phase[c] \in {"remove", "rename"}

ReadLines(c) ==
  /\ phase[c] = "read"
  /\ lines' = [lines EXCEPT ![c] = NewLines(c)]
  /\ overlapped' = (overlapped \/ \E d \in Conn \ {c} : Writing(d))
  /\ Goto(c, "remove")
  /\ UNCHANGED <<known, shown, status, prompting, consent, writeFailures>>

\* write_known_hosts_lines: the temporary file is written and the old file removed.
RemoveOld(c) ==
  /\ phase[c] = "remove"
  /\ known' = {}
  /\ Goto(c, "rename")
  /\ UNCHANGED <<shown, status, prompting, lines, consent, overlapped, writeFailures>>

\* The temporary file takes its place.
Rename(c) ==
  /\ phase[c] = "rename"
  /\ known' = lines[c]
  /\ Goto(c, "verified")
  /\ UNCHANGED <<shown, status, prompting, lines, consent, overlapped, writeFailures>>

\* A step of the writing fails; after the removal the file is lost.
HostKeyWriteFails(c) ==
  /\ Writing(c)
  /\ writeFailures < MaxWriteFailures /\ writeFailures' = writeFailures + 1
  /\ overlapped' = TRUE
  /\ Goto(c, "refused")
  /\ UNCHANGED <<known, shown, status, prompting, lines, consent>>

\* What the handshake does by itself.
Verify(c) ==
  \/ Inspect(c) \/ Ask(c) \/ Answered(c) \/ Expire(c) \/ Finish(c)
  \/ Recheck(c) \/ ReadLines(c) \/ RemoveOld(c) \/ Rename(c)

HostKeyNext ==
  \E c \in Conn :
    \/ Verify(c)
    \/ \E accept \in BOOLEAN : Submit(c, accept)
    \/ Cancel(c)
    \/ Abandon(c)
    \/ HostKeyWriteFails(c)

-----------------------------------------------------------------------------
(* Properties.                                                             *)

\* A key is in the file, and a connection goes on with it, only if the user accepted
\* it, then or earlier: not by a prompt that expired, was cancelled or was answered too
\* late, nor by what another handshake was asked.
TrustNeedsConsent ==
  /\ known \subseteq consent
  /\ \A c \in Conn : phase[c] = "verified" => Line(c) \in consent

\* What the file holds, or will once the write under way has ended.
Saved == IF \E c \in Conn : phase[c] = "rename"
         THEN lines[CHOOSE c \in Conn : phase[c] = "rename"] ELSE known

\* A saved key disappears only for another key of its host that was shown to the user
\* as a mismatch (ARCHITECTURE.md: direct external connections reject a mismatch), and
\* the keys of the other hosts stay; two writes that overlap may lose lines, though.
SavedKeysStay ==
  [][~overlapped' =>
       \A l \in Saved \ Saved' :
         \E c \in Conn : HostOf[c] = l.host /\ status[c] = "mismatch" /\ "mismatch" \in Prompts[c]
                           /\ Line(c) \in Saved']_hostKeyVars
=============================================================================
