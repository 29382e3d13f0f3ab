----------------------------- MODULE SshConnect -----------------------------
(***************************************************************************)
(* SSH connection attempts of the Rust backend: the pending attempts and   *)
(* their cancellation (connect_attempt.rs), the connect command from the   *)
(* handshake with a jump host to the registered session (ssh/mod.rs,       *)
(* connection.rs, jump.rs, shell.rs), authentication (auth.rs,             *)
(* password_auth.rs), its prompts (authentication_prompt.rs,               *)
(* prompt_cleanup.rs) and the password cache they share                    *)
(* (password_cache.rs).                                                    *)
(*                                                                         *)
(* Each attempt is a process; an action is what its future does between    *)
(* two awaits, or a shorter piece where another task can come in between.  *)
(* ConnectAttempt::run polls the cancellation before the future, so a step *)
(* that resumes from an await has the guard Live(a), and a step that goes  *)
(* on within one poll has not.                                             *)
(*                                                                         *)
(* A password is identified by the attempt and the hop it was typed for.   *)
(* Whether a server accepts one is not known in advance.  The host key is  *)
(* part of a cache key; its confirmation is a handshake that takes long.   *)
(***************************************************************************)
EXTENDS Integers, FiniteSets

CONSTANTS
  Attempt,      \* connection attempts: request ids, each used once
  External,     \* attempts of external control, which have no request id
  Key,          \* host, port, user and verified host key
  NoKey,        \* no jump host
  JumpKey,      \* the jump host of each attempt, or NoKey
  TargetKey,    \* the target of each attempt
  NoPassword,   \* None where a password is optional
  MaxRounds,    \* MAX_AUTHENTICATION_STAGES
  MaxClears     \* bound: how often the cache is cleared

Hop == {"jump", "target"}
Password == Attempt \X Hop

ASSUME SshAssumption ==
  /\ External \subseteq Attempt
  /\ NoKey \notin Key
  /\ JumpKey \in [Attempt -> Key \cup {NoKey}]
  /\ TargetKey \in [Attempt -> Key]
  /\ NoPassword \notin Password
  /\ MaxRounds \in Nat \ {0}
  /\ MaxClears \in Nat

VARIABLES
  pc,          \* where the attempt's future is
  hop,         \* the server it is talking to
  pending,     \* ConnectAttemptState.pending
  cancelled,   \* the value of each attempt's cancellation channel
  cancelling,  \* ssh_connect_cancel between the flag and the prompts
  sessions,    \* SshState.sessions
  method,      \* what the attempt asks, or last asked, the user for
  round,       \* keyboard-interactive rounds on this hop
  prompts,     \* attempts with an entry in SshAuthenticationPromptState
  reply,       \* the response channel of the attempt's prompt
  dropping,    \* PromptCleanup tasks spawned by a dropped future
  generation,  \* CacheState.generation
  entry,       \* CacheState.entries; an absent entry is the default one
  began,       \* SshAuthenticationPrompter.cache_generation
  lease,       \* PasswordLease of the current hop
  accepted,    \* history: typed passwords a server accepted
  refused      \* history: cached passwords that failed

attemptVars == <<pc, hop, pending, cancelled, cancelling, sessions>>
promptVars == <<method, round, prompts, reply, dropping>>
cacheVars == <<generation, entry, began, lease, accepted, refused>>
vars == <<attemptVars, promptVars, cacheVars>>

EmptyEntry == [revision |-> 0, password |-> NoPassword]

Init ==
  /\ pc = [a \in Attempt |-> "idle"]
  /\ hop = [a \in Attempt |-> "target"]
  /\ pending = {}
  /\ cancelled = [a \in Attempt |-> FALSE]
  /\ cancelling = {}
  /\ sessions = {}
  /\ method = [a \in Attempt |-> "password"]
  /\ round = [a \in Attempt |-> 0]
  /\ prompts = {}
  /\ reply = [a \in Attempt |-> "none"]
  /\ dropping = {}
  /\ generation = 0
  /\ entry = [k \in Key |-> EmptyEntry]
  /\ began = [a \in Attempt |-> 0]
  /\ lease = [a \in Attempt |-> EmptyEntry]
  /\ accepted = {}
  /\ refused = {}

-----------------------------------------------------------------------------
(* Control of an attempt.                                                  *)

\* Where the attempt's future can be dropped by ConnectAttempt::run.
Awaiting == {"connecting", "methods", "password", "cached", "supplied",
             "prompting", "waiting", "trying", "responding", "forwarding", "shell"}

Live(a) == ~cancelled[a]
KeyOf(a, h) == IF h = "jump" THEN JumpKey[a] ELSE TargetKey[a]
Typed(a) == <<a, hop[a]>>

Goto(a, next) == pc' = [pc EXCEPT ![a] = next]
Fail(a) == Goto(a, "cleanup")
Authenticated(a) == Goto(a, IF hop[a] = "jump" THEN "forwarding" ELSE "shell")

\* ssh_connect: the attempt is registered and its prompter reads the cache's
\* generation.
Begin(a) ==
  /\ pc[a] = "idle"
  /\ Goto(a, "connecting")
  /\ hop' = [hop EXCEPT ![a] = IF JumpKey[a] = NoKey THEN "target" ELSE "jump"]
  /\ pending' = pending \cup ({a} \ External)
  /\ began' = [began EXCEPT ![a] = generation]
  /\ UNCHANGED <<cancelled, cancelling, sessions, promptVars, generation, entry,
                 lease, accepted, refused>>

\* The handshake with the jump host or the target, within its deadline.
Handshake(a) ==
  /\ pc[a] = "connecting"
  /\ Live(a)
  /\ Goto(a, "methods") \/ Fail(a)
  /\ UNCHANGED <<hop, pending, cancelled, cancelling, sessions, promptVars, cacheVars>>

\* open_jump_direct_tcpip: the handshake with the target runs through it.
Forward(a) ==
  /\ pc[a] = "forwarding"
  /\ Live(a)
  /\ \/ Goto(a, "connecting") /\ hop' = [hop EXCEPT ![a] = "target"]
     \/ Fail(a) /\ UNCHANGED hop
  /\ round' = [round EXCEPT ![a] = 0]
  /\ UNCHANGED <<pending, cancelled, cancelling, sessions, method, prompts, reply,
                 dropping, cacheVars>>

\* open_and_start_shell: channel, PTY and shell, each within its deadline.
StartShell(a) ==
  /\ pc[a] = "shell"
  /\ Live(a)
  /\ Goto(a, "started") \/ Fail(a)
  /\ UNCHANGED <<hop, pending, cancelled, cancelling, sessions, promptVars, cacheVars>>

\* Mutant of Complete: the attempt stays pending.
CompleteKeepsPending(a) ==
  /\ pc[a] = "started"
  /\ \/ a \in pending \cup External /\ Live(a) /\ Goto(a, "registering")
     \/ ~(a \in pending \cup External /\ Live(a)) /\ Fail(a)
  /\ UNCHANGED <<hop, pending, cancelled, cancelling, sessions, promptVars, cacheVars>>

\* Mutant of Complete: the cancellation flag is not read.
CompleteAnyway(a) ==
  /\ pc[a] = "started"
  /\ Goto(a, "registering")
  /\ pending' = pending \ {a}
  /\ UNCHANGED <<hop, cancelled, cancelling, sessions, promptVars, cacheVars>>

\* begin_completion, under the lock that cancel takes.
Complete(a) ==
  /\ pc[a] = "started"
  /\ \/ a \in pending \cup External /\ Live(a) /\ Goto(a, "registering")
     \/ ~(a \in pending \cup External /\ Live(a)) /\ Fail(a)
  /\ pending' = pending \ {a}
  /\ UNCHANGED <<hop, cancelled, cancelling, sessions, promptVars, cacheVars>>

\* register_connected_session.
RegisterSession(a) ==
  /\ pc[a] = "registering"
  /\ Goto(a, "done")
  /\ sessions' = sessions \cup {a}
  /\ UNCHANGED <<hop, pending, cancelled, cancelling, promptVars, cacheVars>>

\* cleanup_failed_connection, within its deadline; the attempt is then dropped.
Cleanup(a) ==
  /\ pc[a] = "cleanup"
  /\ Goto(a, "ended")
  /\ pending' = pending \ {a}
  /\ UNCHANGED <<hop, cancelled, cancelling, sessions, promptVars, cacheVars>>

\* ConnectAttempt::run sees the cancellation and drops the future, which
\* spawns the cleanup of a prompt that was inserted.
Abort(a) ==
  /\ pc[a] \in Awaiting
  /\ cancelled[a]
  /\ Fail(a)
  /\ dropping' = IF pc[a] = "waiting" THEN dropping \cup {a} ELSE dropping
  /\ UNCHANGED <<hop, pending, cancelled, cancelling, sessions, method, round,
                 prompts, reply, cacheVars>>

\* ssh_connect_cancel, first step.
Cancel(a) ==
  /\ a \in pending
  /\ cancelled' = [cancelled EXCEPT ![a] = TRUE]
  /\ cancelling' = cancelling \cup {a}
  /\ UNCHANGED <<pc, hop, pending, sessions, promptVars, cacheVars>>

-----------------------------------------------------------------------------
(* Prompts.                                                                *)

\* A pending prompt is removed and answered; without a receiver the answer
\* is lost.
Answer(S, response) ==
  /\ prompts' = prompts \ S
  /\ reply' = [a \in Attempt |->
                 IF a \in S \cap prompts /\ pc[a] = "waiting" THEN response ELSE reply[a]]

\* ssh_connect_cancel, second step: cancel_connect_attempt.
CancelPrompts(a) ==
  /\ a \in cancelling
  /\ cancelling' = cancelling \ {a}
  /\ Answer({a}, "cancel")
  /\ UNCHANGED <<pc, hop, pending, cancelled, sessions, method, round, dropping, cacheVars>>

\* cancel_window: the window that shows the prompts of S was destroyed.
CancelWindow(S) ==
  /\ S # {}
  /\ S \subseteq prompts
  /\ Answer(S, "cancel")
  /\ UNCHANGED <<attemptVars, method, round, dropping, cacheVars>>

\* submit_with_remember: only a password prompt may be remembered.
Submit(a, response) ==
  /\ a \in prompts
  /\ response = "remember" => method[a] = "password"
  /\ Answer({a}, response)
  /\ UNCHANGED <<attemptVars, method, round, dropping, cacheVars>>

\* request: the prompt becomes pending, unless it cannot be shown.  The future
\* may have been resumed before a cancellation that has scanned the prompts.
InsertPrompt(a) ==
  /\ pc[a] = "prompting"
  /\ \/ Goto(a, "waiting") /\ prompts' = prompts \cup {a}
     \/ Fail(a) /\ UNCHANGED prompts
  /\ reply' = [reply EXCEPT ![a] = "none"]
  /\ UNCHANGED <<hop, pending, cancelled, cancelling, sessions, method, round,
                 dropping, cacheVars>>

\* wait_for_response returns and finish removes the prompt.
PromptReturns(a) ==
  /\ pc[a] = "waiting"
  /\ Live(a)
  /\ reply[a] # "none"
  /\ \/ reply[a] = "cancel" /\ Fail(a)
     \/ reply[a] # "cancel" /\ method[a] = "password" /\ Goto(a, "trying")
     \/ reply[a] # "cancel" /\ method[a] = "keyboard" /\ Goto(a, "responding")
  /\ prompts' = prompts \ {a}
  /\ UNCHANGED <<hop, pending, cancelled, cancelling, sessions, method, round,
                 reply, dropping, cacheVars>>

\* Mutant of PromptTimeout: a prompt waits for ever.
NoTimeout(a) == FALSE /\ UNCHANGED vars

\* wait_for_response reaches AUTHENTICATION_PROMPT_TIMEOUT.
PromptTimeout(a) ==
  /\ pc[a] = "waiting"
  /\ Live(a)
  /\ reply[a] = "none"
  /\ Fail(a)
  /\ prompts' = prompts \ {a}
  /\ UNCHANGED <<hop, pending, cancelled, cancelling, sessions, method, round,
                 reply, dropping, cacheVars>>

\* The task spawned by the Drop of PromptCleanup.
DropPrompt(a) ==
  /\ a \in dropping
  /\ dropping' = dropping \ {a}
  /\ prompts' = prompts \ {a}
  /\ UNCHANGED <<attemptVars, method, round, reply, cacheVars>>

-----------------------------------------------------------------------------
(* Authentication without the cache.                                       *)

\* No authentication or a public key: accepted, refused for good, or followed
\* by the password in automatic mode.
OtherMethod(a) ==
  /\ pc[a] = "methods"
  /\ Live(a)
  /\ Authenticated(a) \/ Fail(a) \/ Goto(a, "password")
  /\ UNCHANGED <<hop, pending, cancelled, cancelling, sessions, promptVars, cacheVars>>

\* authenticate_keyboard_interactive: the server's first request, answered at
\* once when it has no question.
AskKeyboard(a) ==
  /\ pc[a] = "methods"
  /\ Live(a)
  /\ Goto(a, "prompting") \/ Goto(a, "responding")
  /\ method' = [method EXCEPT ![a] = "keyboard"]
  /\ round' = [round EXCEPT ![a] = 1]
  /\ UNCHANGED <<hop, pending, cancelled, cancelling, sessions, prompts, reply,
                 dropping, cacheVars>>

\* The server accepts, refuses (automatic mode goes on with the password) or
\* asks again.  Whatever it says to the last round's answer, the loop is over.
KeyboardResult(a) ==
  /\ pc[a] = "responding"
  /\ Live(a)
  /\ \/ Fail(a) /\ UNCHANGED round
     \/ /\ round[a] < MaxRounds
        /\ Authenticated(a) \/ Goto(a, "password")
        /\ UNCHANGED round
     \/ /\ round[a] < MaxRounds
        /\ Goto(a, "prompting") \/ Goto(a, "responding")
        /\ round' = [round EXCEPT ![a] = @ + 1]
  /\ UNCHANGED <<hop, pending, cancelled, cancelling, sessions, method, prompts,
                 reply, dropping, cacheVars>>

-----------------------------------------------------------------------------
(* The password cache, and authentication with it.                         *)

\* checkout: a lease of an older generation is empty.
Lease(a) == IF generation = began[a] THEN entry[KeyOf(a, hop[a])] ELSE EmptyEntry

\* Mutant of MayWrite: a lease from before a clear may write.
MayWriteLate(a) == entry[KeyOf(a, hop[a])].revision = lease[a].revision

\* The checks of remember and reject.
MayWrite(a) ==
  /\ generation = began[a]
  /\ entry[KeyOf(a, hop[a])].revision = lease[a].revision

Write(a, password) ==
  entry' = [entry EXCEPT ![KeyOf(a, hop[a])] =
              [revision |-> @.revision + 1, password |-> password]]

\* reject: the lease goes on with the entry's new revision.
Reject(a) ==
  \/ /\ MayWrite(a)
     /\ Write(a, NoPassword)
     /\ lease' = [lease EXCEPT ![a] = [revision |-> @.revision + 1, password |-> NoPassword]]
  \/ /\ ~MayWrite(a)
     /\ UNCHANGED entry
     /\ lease' = [lease EXCEPT ![a].password = NoPassword]

\* clear.
Clear ==
  /\ generation < MaxClears
  /\ generation' = generation + 1
  /\ entry' = [k \in Key |-> EmptyEntry]
  /\ UNCHANGED <<attemptVars, promptVars, began, lease, accepted, refused>>

\* authenticate_with_cache: checkout, then the supplied password, the cached
\* one, or a prompt.
Checkout(a) ==
  /\ pc[a] \in {"methods", "password"}
  /\ Live(a)
  /\ lease' = [lease EXCEPT ![a] = Lease(a)]
  /\ \/ pc[a] = "methods" /\ Goto(a, "supplied")
     \/ Lease(a).password # NoPassword /\ Goto(a, "cached")
     \/ Lease(a).password = NoPassword /\ Goto(a, "prompting")
  /\ method' = [method EXCEPT ![a] = "password"]
  /\ UNCHANGED <<hop, pending, cancelled, cancelling, sessions, round, prompts, reply,
                 dropping, generation, entry, began, accepted, refused>>

\* A password given with the request is not cached.
SuppliedResult(a) ==
  /\ pc[a] = "supplied"
  /\ Live(a)
  /\ Authenticated(a) \/ Fail(a)
  /\ UNCHANGED <<hop, pending, cancelled, cancelling, sessions, promptVars, cacheVars>>

CachedAccepted(a) ==
  /\ pc[a] = "cached"
  /\ Live(a)
  /\ Authenticated(a)
  /\ UNCHANGED <<hop, pending, cancelled, cancelling, sessions, promptVars, cacheVars>>

\* The server refuses the cached password, or the exchange fails.
CachedRefused(a) ==
  /\ pc[a] = "cached"
  /\ Live(a)
  /\ Reject(a)
  /\ refused' = refused \cup {lease[a].password}
  /\ Goto(a, "prompting") \/ Fail(a)
  /\ UNCHANGED <<hop, pending, cancelled, cancelling, sessions, promptVars,
                 generation, began, accepted>>

TypedRefused(a) ==
  /\ pc[a] = "trying"
  /\ Live(a)
  /\ Fail(a)
  /\ UNCHANGED <<hop, pending, cancelled, cancelling, sessions, promptVars, cacheVars>>

TypedAccepted(a) ==
  /\ pc[a] = "trying"
  /\ Live(a)
  /\ Goto(a, "accepted")
  /\ accepted' = accepted \cup {Typed(a)}
  /\ UNCHANGED <<hop, pending, cancelled, cancelling, sessions, promptVars,
                 generation, entry, began, lease, refused>>

\* Mutant of IfActive: the attempt is not asked.
AlwaysActive(a) == TRUE

\* if_active: the pending map and the flag, under the lock that cancel takes.
IfActive(a) == a \in External \/ (a \in pending /\ Live(a))

\* The answer is remembered if the user asked for it and the attempt is active.
Remember(a) ==
  /\ pc[a] = "accepted"
  /\ Authenticated(a)
  /\ \/ /\ reply[a] = "remember"
        /\ IfActive(a)
        /\ MayWrite(a)
        /\ Write(a, Typed(a))
     \/ /\ ~(reply[a] = "remember" /\ IfActive(a) /\ MayWrite(a))
        /\ UNCHANGED entry
  /\ UNCHANGED <<hop, pending, cancelled, cancelling, sessions, promptVars,
                 generation, began, lease, accepted, refused>>
-----------------------------------------------------------------------------
\* What the attempt's future does next.
AttemptStep(a) ==
  \/ Handshake(a)
  \/ Forward(a)
  \/ StartShell(a)
  \/ Complete(a)
  \/ RegisterSession(a)
  \/ Cleanup(a)
  \/ Abort(a)
  \/ InsertPrompt(a)
  \/ PromptReturns(a)
  \/ PromptTimeout(a)
  \/ OtherMethod(a)
  \/ AskKeyboard(a)
  \/ KeyboardResult(a)
  \/ Checkout(a)
  \/ SuppliedResult(a)
  \/ CachedAccepted(a)
  \/ CachedRefused(a)
  \/ TypedRefused(a)
  \/ TypedAccepted(a)
  \/ Remember(a)

\* What users and other tasks do.
OtherStep ==
  \/ \E a \in Attempt :
       \/ Begin(a)
       \/ Cancel(a)
       \/ CancelPrompts(a)
       \/ DropPrompt(a)
       \/ \E response \in {"once", "remember", "cancel"} : Submit(a, response)
  \/ \E S \in SUBSET Attempt : CancelWindow(S)
  \/ Clear

\* The program need not stop once every attempt has ended.
Next == (\E a \in Attempt : AttemptStep(a)) \/ OtherStep

Spec == Init /\ [][Next]_vars

\* An attempt's awaits have deadlines, so its future is resumed in the end, and the
\* runtime runs every task it was given.  The disconnect of a jump host that refused
\* (ssh/jump.rs:95) has none and is assumed to return.  Users are free not to act.
Fairness ==
  \A a \in Attempt :
    /\ WF_vars(AttemptStep(a))
    /\ WF_vars(CancelPrompts(a))
    /\ WF_vars(DropPrompt(a))

FairSpec == Spec /\ Fairness
-----------------------------------------------------------------------------
(* Properties.                                                             *)

Place == Awaiting \cup {"idle", "accepted", "started", "registering", "done",
                        "cleanup", "ended"}
Entry == [revision : Nat, password : Password \cup {NoPassword}]

\* Every variable has the type its field has in the code, a session has left
\* the pending attempts, and only a password in the cache is tried from it.
TypeOK ==
  /\ pc \in [Attempt -> Place]
  /\ hop \in [Attempt -> Hop]
  /\ pending \subseteq Attempt \ External
  /\ cancelled \in [Attempt -> BOOLEAN]
  /\ cancelling \subseteq Attempt
  /\ sessions \subseteq Attempt \ pending
  /\ method \in [Attempt -> {"password", "keyboard"}]
  /\ round \in [Attempt -> 0..MaxRounds]
  /\ prompts \subseteq Attempt
  /\ reply \in [Attempt -> {"none", "once", "remember", "cancel"}]
  /\ dropping \subseteq Attempt
  /\ generation \in 0..MaxClears
  /\ entry \in [Key -> Entry]
  /\ began \in [Attempt -> 0..MaxClears]
  /\ lease \in [Attempt -> Entry]
  /\ accepted \subseteq Password
  /\ refused \subseteq Password
  /\ \A a \in Attempt : pc[a] = "cached" => lease[a].password # NoPassword

\* An attempt whose cancellation was acknowledged never becomes a session,
\* however late the cancellation came: cancel and begin_completion exclude
\* each other.
CancelledNeverRegisters ==
  \A a \in Attempt : cancelled[a] => a \notin sessions /\ pc[a] # "registering"

Stored(k) == entry[k].password

\* A cached password is tried only where it was accepted: it was typed for the
\* same server, user and host key, by whichever attempt and for whichever hop.
TriedWhereAccepted ==
  \A a \in Attempt : pc[a] = "cached" =>
    LET p == lease[a].password IN
    p \in accepted /\ KeyOf(p[1], p[2]) = KeyOf(a, hop[a])

\* A clear is final: an entry never holds a password of an attempt that began
\* before the latest clear.
ClearIsFinal ==
  \A k \in Key : Stored(k) # NoPassword => began[Stored(k)[1]] = generation

\* A cached password that failed for any attempt is not handed out again,
\* although other attempts still hold leases of it.
RefusedIsForgotten == \A k \in Key : Stored(k) \notin refused

\* What the cache hands out is true: it was accepted for this server, user and host key,
\* after the latest clear, and has not failed since, whichever leases are still held.
CacheIsTrue == TriedWhereAccepted /\ ClearIsFinal /\ RefusedIsForgotten

\* The attempt that stores a password is not cancelled.
StoredByActive ==
  \A k \in Key :
    LET p == Stored(k)' IN
    p # NoPassword /\ p # Stored(k) => ~cancelled[p[1]]

NewerStays ==
  \A k \in Key :
    Stored(k) # NoPassword /\ Stored(k)' # Stored(k)
      => generation' # generation \/ Stored(k) \in refused'

\* Action property: a cancelled attempt never populates the cache, even when the
\* server's answer was already being handled; and a stored password leaves the cache
\* only by a clear or because it failed itself, never by an older attempt's failure
\* or success.
EntriesChangeRightly == [][StoredByActive /\ NewerStays]_vars

\* Liveness: every attempt ends, with or without a session, cancelled or not, and its
\* prompt with it: answered, cancelled, timed out, or removed after the attempt's
\* future was dropped; given that disconnecting a jump host that refused returns.
AttemptEnds ==
  \A a \in Attempt : pc[a] # "idle" ~> pc[a] \in {"done", "ended"} /\ a \notin prompts
=============================================================================
