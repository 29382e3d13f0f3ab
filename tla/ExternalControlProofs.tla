------------------------ MODULE ExternalControlProofs ------------------------
(***************************************************************************)
(* Proofs about external control: a client never starts a GUI beside one   *)
(* that another client has started, a wait for output never sleeps through *)
(* what it waits for, what a follow writes out accounts for the session,   *)
(* and a request is told of success only when what it asked for has        *)
(* happened; for any number of clients and callers, any texts and bounds.  *)
(*                                                                         *)
(* LaunchInv says who holds the lock while a GUI comes up.  WaitInv says   *)
(* that a wait which has been told of nothing since it was armed has seen  *)
(* all there is, already between its reading and its sleep.  FollowInv     *)
(* says that the events of a follow are the text up to its cursor, that    *)
(* its tail is the end of what was shown in one piece, long enough for a   *)
(* marker that has begun, and that no marker has been shown before it      *)
(* stops on one.  RequestsInv says that a pending entry is that of a       *)
(* caller that waits for just this answer, and that what a window says it  *)
(* has done was done while the request ran.                                *)
(***************************************************************************)
EXTENDS ExternalControl, SequenceTheorems, WellFoundedInduction, TLAPS

PcState == {"begin", "discover", "acquire", "recheck", "spawn", "wait", "reached",
            "other_version"} \union Over

LaunchTypes ==
  /\ pc \in [Clients -> PcState]
  /\ lock \in Clients \union {NoClient}
  /\ launcher \in Clients \union {NoClient}
  /\ gui \in {"none", "starting", "listening", "deaf"}

\* Who launches holds the lock, from its second look at the control plane.
Locked == \A p \in Clients : pc[p] \in {"recheck", "spawn"} => lock = p

\* A GUI that a client has started speaks the client's version, and until it comes up
\* that client waits for it under the lock, or has left it.
Launched ==
  /\ gui = "none" => launcher = NoClient
  /\ launcher # NoClient => version = "same"
  /\ launcher # NoClient /\ gui = "starting" =>
       \/ pc[launcher] = "wait" /\ lock = launcher
       \/ pc[launcher] \in {"gave_up", "killed", "unhealthy"}

LaunchInv == LaunchTypes /\ Locked /\ Launched

LEMMA LaunchBegins == InitLaunch => LaunchInv
  BY LaunchAssumption DEF InitLaunch, LaunchInv, LaunchTypes, Locked, Launched, PcState

LEMMA ClientStepKeeps ==
  ASSUME LaunchInv, NEW p \in Clients,
         ReadSettings(p) \/ Discover(p) \/ Acquire(p) \/ Recheck(p) \/ WaitForGui(p)
           \/ Call(p) \/ Report(p) \/ ClientDies(p)
  PROVE  LaunchInv'
<1> USE LaunchAssumption DEF LaunchInv, LaunchTypes, Locked, Launched, PcState, Over, Enter,
        Steady, processVars
<1>1. CASE ReadSettings(p)
  BY <1>1 DEF ReadSettings
<1>2. CASE Discover(p)
  BY <1>2 DEF Discover, Found
<1>3. CASE Acquire(p)
  BY <1>3 DEF Acquire
<1>4. CASE Recheck(p)
  BY <1>4 DEF Recheck
<1>5. CASE WaitForGui(p)
  BY <1>5 DEF WaitForGui, Unlock, Found, Reached, Probe
<1>6. CASE Call(p)
  BY <1>6 DEF Call
<1>7. CASE Report(p)
  BY <1>7 DEF Report
<1>8. CASE ClientDies(p)
  BY <1>8 DEF ClientDies, Unlock
<1> QED BY <1>1, <1>2, <1>3, <1>4, <1>5, <1>6, <1>7, <1>8

LEMMA SpawnKeeps ==
  ASSUME LaunchInv, NEW p \in Clients, Spawn(p)
  PROVE  LaunchInv'
<1> USE LaunchAssumption DEF LaunchInv, LaunchTypes, Locked, Launched, PcState, Over, Enter,
        processVars
<1>1. CASE Enter(p, "wait") /\ gui = "none" /\ GuiStarts(p, "same") /\ UNCHANGED lock
  BY <1>1 DEF Spawn, GuiStarts
<1>2. CASE Enter(p, "wait") /\ UNCHANGED <<gui, version, launcher, lock>>
  BY <1>2 DEF Spawn
<1>3. CASE Enter(p, "failed") /\ lock' = Unlock(p) /\ UNCHANGED <<gui, version, launcher>>
  BY <1>3 DEF Spawn, Unlock
<1> QED BY <1>1, <1>2, <1>3 DEF Spawn

LEMMA LaunchStepKeeps ==
  ASSUME LaunchInv, LaunchNext \/ UNCHANGED launchVars
  PROVE  LaunchInv'
<1>1. ASSUME NEW p \in Clients,
             \/ ReadSettings(p) \/ Discover(p) \/ Acquire(p) \/ Recheck(p) \/ Spawn(p)
             \/ WaitForGui(p) \/ Call(p) \/ Report(p) \/ ClientDies(p)
      PROVE  LaunchInv'
  BY <1>1, ClientStepKeeps, SpawnKeeps
<1> USE DEF LaunchInv, LaunchTypes, Locked, Launched, processVars
<1>2. CASE GuiListens
  BY <1>2 DEF GuiListens
<1>3. CASE UserStarts
  BY <1>3 DEF UserStarts, GuiStarts
<1>4. CASE GuiExits
  BY <1>4 DEF GuiExits
<1>5. CASE \E s \in Both : UserSwitches(s)
  BY <1>5 DEF UserSwitches
<1>6. CASE UNCHANGED launchVars
  BY <1>6 DEF launchVars
<1> QED BY <1>1, <1>2, <1>3, <1>4, <1>5, <1>6 DEF LaunchNext

\* No client starts a GUI beside the one another client started and waits for
\* (external_control/client.rs, launch_gui_if_needed).
THEOREM OneLaunchHolds == Spec => OneLaunch
<1>1. InitExternal => LaunchInv
  BY LaunchBegins DEF InitExternal
<1>2. LaunchInv /\ [ExternalNext]_externalVars => LaunchInv'
  BY LaunchStepKeeps DEF ExternalNext, externalVars
<1>3. ASSUME LaunchInv, NEW p \in Clients, [ExternalNext]_externalVars,
             pc[p] = "recheck", pc'[p] = "spawn", launcher # NoClient, gui # "deaf"
      PROVE  pc[launcher] \in {"gave_up", "killed", "unhealthy"}
  <2>1. LaunchNext
    BY <1>3 DEF ExternalNext, externalVars, launchVars
  <2>2. PICK q \in Clients : pc' = [pc EXCEPT ![q] = "spawn"] /\ Recheck(q)
    <3>1. ASSUME NEW q \in Clients,
                 \/ ReadSettings(q) \/ Discover(q) \/ Acquire(q) \/ Spawn(q)
                 \/ WaitForGui(q) \/ Call(q) \/ Report(q) \/ ClientDies(q)
          PROVE  FALSE
      BY <1>3, <3>1 DEF LaunchInv, LaunchTypes, ReadSettings, Discover, Acquire, Spawn,
         WaitForGui, Call, Report, ClientDies, Enter, Found
    <3>2. ASSUME GuiListens \/ UserStarts \/ GuiExits \/ \E s \in Both : UserSwitches(s)
          PROVE  FALSE
      BY <1>3, <3>2 DEF GuiListens, UserStarts, GuiExits, UserSwitches
    <3> QED BY <1>3, <2>1, <3>1, <3>2
        DEF LaunchNext, Recheck, Enter, LaunchInv, LaunchTypes
  <2>3. p = q /\ ~Reached(p)
    BY <1>3, <2>2 DEF Recheck, Enter, LaunchInv, LaunchTypes
  <2>4. gui = "starting"
    BY <1>3, <2>3 DEF Reached, Probe, LaunchInv, LaunchTypes, Launched
  <2> QED BY <1>3, <2>4, LaunchAssumption DEF LaunchInv, LaunchTypes, Locked, Launched
<1> QED
  <2>1. LaunchInv /\ [ExternalNext]_externalVars =>
          [\A p \in Clients :
             pc[p] = "recheck" /\ pc'[p] = "spawn" /\ launcher # NoClient /\ gui # "deaf" =>
               pc[launcher] \in {"gave_up", "killed", "unhealthy"}]_launchVars
    BY <1>3
  <2> QED BY <1>1, <1>2, <2>1, PTL DEF Spec, OneLaunch

-----------------------------------------------------------------------------

\* The fields of a wait.
WaitShape ==
  wait = [pc |-> wait.pc, from |-> wait.from, needle |-> wait.needle,
          notified |-> wait.notified, expired |-> wait.expired, snap |-> wait.snap,
          ok |-> wait.ok]

WaitInv ==
  /\ WaitShape
  /\ due \in BOOLEAN
  /\ wait.pc \in {"status", "asleep"} /\ ~wait.notified /\ ~due =>
       ~Matches(wait.needle, ReadDelta(wait.from).output)
  /\ wait.pc = "asleep" /\ ~wait.notified /\ ~due => connected

LEMMA NoWaitShape ==
  /\ NoWait.pc = "none"
  /\ NoWait = [pc |-> NoWait.pc, from |-> NoWait.from, needle |-> NoWait.needle,
               notified |-> NoWait.notified, expired |-> NoWait.expired, snap |-> NoWait.snap,
               ok |-> NoWait.ok]
  BY DEF NoWait

LEMMA WaitBegins == InitReading => WaitInv
  BY NoWaitShape DEF InitReading, WaitInv, WaitShape

LEMMA SessionKeeps ==
  ASSUME WaitInv, (\E piece \in Pieces : AppendOutput(piece)) \/ MarkDisconnected \/ NotifyWaiters
  PROVE  WaitInv'
<1>1. CASE \E piece \in Pieces : AppendOutput(piece)
  BY <1>1 DEF AppendOutput, WaitInv, WaitShape
<1>2. CASE MarkDisconnected
  BY <1>2 DEF MarkDisconnected, WaitInv, WaitShape
<1>3. CASE NotifyWaiters
  <2>1. WaitShape' /\ wait'.pc = wait.pc
        /\ wait'.notified = (wait.pc \in {"read", "status", "asleep"})
    BY <1>3 DEF NotifyWaiters, WaitInv, WaitShape
  <2> QED BY <1>3, <2>1 DEF NotifyWaiters, WaitInv
<1> QED BY <1>1, <1>2, <1>3

\* What a wait sees stays the same as long as the text does.
LEMMA ReadDeltaKept ==
  ASSUME UNCHANGED sessionVars, NEW from, NEW needle
  PROVE  /\ Matches(needle, ReadDelta(from).output)' = Matches(needle, ReadDelta(from).output)
         /\ connected' = connected /\ due' = due
  BY DEF sessionVars, Matches, ReadDelta, Snapshot, Newest, EndsOf, Smaller, Larger

LEMMA WaitKeeps ==
  ASSUME WaitInv, WaitArm \/ WaitRead \/ WaitStatus \/ WaitExpires \/ WaitWakes
  PROVE  WaitInv'
<1>1. CASE WaitArm
  <2>1. WaitShape' /\ wait'.pc = "read"
    BY <1>1 DEF WaitArm, WaitInv, WaitShape
  <2> QED BY <1>1, <2>1 DEF WaitArm, WaitInv, sessionVars
<1>2. CASE WaitRead
  <2>1. CASE \/ wait' = Answer(FALSE)
             \/ wait' = [Answer(TRUE) EXCEPT !.snap = ReadDelta(wait.from)]
    <3>1. WaitShape' /\ wait'.pc = "answered"
      BY <2>1 DEF WaitInv, WaitShape, Answer
    <3> QED BY <1>2, <3>1 DEF WaitRead, WaitInv, sessionVars
  <2>2. CASE /\ wait' = [wait EXCEPT !.pc = "status", !.snap = ReadDelta(wait.from)]
             /\ ~Matches(wait.needle, ReadDelta(wait.from).output)
    <3>1. WaitShape' /\ wait'.pc = "status" /\ wait'.from = wait.from
          /\ wait'.needle = wait.needle
      BY <2>2 DEF WaitInv, WaitShape
    <3> QED BY <1>2, <2>2, <3>1, ReadDeltaKept DEF WaitRead, WaitInv
  <2> QED BY <1>2, <2>1, <2>2 DEF WaitRead
<1>3. CASE WaitStatus
  <2>1. CASE wait' \in {Answer(FALSE), Answer(TRUE)}
    <3>1. WaitShape' /\ wait'.pc = "answered"
      BY <2>1 DEF WaitInv, WaitShape, Answer
    <3> QED BY <1>3, <3>1 DEF WaitStatus, WaitInv, sessionVars
  <2>2. CASE wait' = [wait EXCEPT !.pc = "asleep"] /\ connected
    <3>1. WaitShape' /\ wait'.pc = "asleep" /\ wait'.from = wait.from
          /\ wait'.needle = wait.needle /\ wait'.notified = wait.notified
      BY <2>2 DEF WaitInv, WaitShape
    <3> QED BY <1>3, <2>2, <3>1, ReadDeltaKept DEF WaitStatus, WaitInv
  <2> QED BY <1>3, <2>1, <2>2 DEF WaitStatus
<1>4. CASE WaitExpires
  <2>1. WaitShape' /\ wait'.pc = wait.pc /\ wait'.from = wait.from
        /\ wait'.needle = wait.needle /\ wait'.notified = wait.notified
    BY <1>4 DEF WaitExpires, WaitInv, WaitShape
  <2> QED BY <1>4, <2>1, ReadDeltaKept DEF WaitExpires, WaitInv
<1>5. CASE WaitWakes
  <2>1. WaitShape' /\ wait'.pc = "arm"
    BY <1>5 DEF WaitWakes, WaitInv, WaitShape
  <2> QED BY <1>5, <2>1 DEF WaitWakes, WaitInv, sessionVars
<1> QED BY <1>1, <1>2, <1>3, <1>4, <1>5

\* A wait that begins or ends needs nothing of the session.
LEMMA Changed ==
  ASSUME NEW n, NEW from, NEW needle,
         n = [pc |-> n.pc, from |-> n.from, needle |-> n.needle, notified |-> n.notified,
              expired |-> n.expired, snap |-> n.snap, ok |-> n.ok],
         wait' = [n EXCEPT !.pc = "arm", !.from = from, !.needle = needle]
  PROVE  WaitShape' /\ wait'.pc = "arm"
  BY DEF WaitShape

LEMMA Started ==
  ASSUME NEW from, NEW needle, wait' = StartWait(from, needle)
  PROVE  WaitShape' /\ wait'.pc = "arm"
<1> DEFINE n == NoWait
<1>1. n = [pc |-> n.pc, from |-> n.from, needle |-> n.needle, notified |-> n.notified,
           expired |-> n.expired, snap |-> n.snap, ok |-> n.ok]
  BY NoWaitShape
<1>2. wait' = [n EXCEPT !.pc = "arm", !.from = from, !.needle = needle]
  BY DEF StartWait
<1> HIDE DEF n
<1> QED BY <1>1, <1>2, Changed

LEMMA ClientKeeps ==
  ASSUME WaitInv, UNCHANGED sessionVars,
         wait' = NoWait \/ (\E from, needle : wait' = StartWait(from, needle)) \/ UNCHANGED wait
  PROVE  WaitInv'
<1>1. CASE wait' = NoWait
  BY <1>1, NoWaitShape DEF WaitInv, WaitShape, sessionVars
<1>2. CASE \E from, needle : wait' = StartWait(from, needle)
  BY <1>2, Started DEF WaitInv, sessionVars
<1>3. CASE UNCHANGED wait
  BY <1>3, ReadDeltaKept DEF WaitInv, WaitShape
<1> QED BY <1>1, <1>2, <1>3

LEMMA ReadingStepKeeps ==
  ASSUME WaitInv, ReadingNext \/ UNCHANGED readingVars
  PROVE  WaitInv'
<1>1. CASE UNCHANGED readingVars
  BY <1>1, ClientKeeps DEF readingVars
<1>2. CASE \E cursor \in {NoCursor} \cup 0..(Len(text) + 1), needle \in {Nothing, Marker} :
             AskWait(cursor, needle)
  BY <1>2, ClientKeeps DEF AskWait
<1>3. CASE \/ \E needle \in {Nothing, Marker} : AskCommand(needle)
           \/ SendCommand \/ WaitAnswered \/ CommandReads
  BY <1>3, ClientKeeps DEF AskCommand, SendCommand, WaitAnswered, CommandReads
<1>4. CASE \/ \E cursor \in {NoCursor} \cup 0..(Len(text) + 1), until \in {Nothing, Marker} :
                AskFollow(cursor, until)
           \/ FollowRead \/ FollowWaited \/ FollowList \/ FollowListAfterError
           \/ \E reason \in {"interrupted", "duration_limit"} : FollowStops(reason)
           \/ FollowCallFails
  BY <1>4, ClientKeeps DEF AskFollow, FollowRead, FollowWaited, FollowList,
     FollowListAfterError, FollowStops, FollowCallFails
<1> QED BY <1>1, <1>2, <1>3, <1>4, SessionKeeps, WaitKeeps DEF ReadingNext

\* A wait never sleeps through output or the end of its session
\* (external_control/service/terminal.rs, wait_for_terminal_output).
THEOREM WaiterAwakeHolds == Spec => []WaiterAwake
<1>1. InitExternal => WaitInv
  BY WaitBegins DEF InitExternal
<1>2. WaitInv /\ [ExternalNext]_externalVars => WaitInv'
  BY ReadingStepKeeps DEF ExternalNext, externalVars
<1>3. WaitInv => WaiterAwake
  BY DEF WaitInv, WaiterAwake
<1> QED BY <1>1, <1>2, <1>3, PTL DEF Spec
-----------------------------------------------------------------------------

\* What a follow may be at.
Cursors == Nat \union {NoCursor}
Texts == Seq(Chars)
Snapshots == [start : Nat, output : Texts]
Events == [kind : {"gap", "output"}, from : Nat, upto : Nat, text : Texts]

ClientStates ==
  [job : {"none", "wait", "command", "follow"},
   pc : {"idle", "send", "settling", "recent", "delta", "waiting", "list", "list_after_error",
         "done"},
   origin : Cursors, cursor : Cursors, until : {Nothing, Marker}, emitted : Nat,
   tail : Texts, finish : BOOLEAN, shown : Seq(Events),
   reason : {"none", "answered", "matched", "output_limit", "disconnected", "error",
             "interrupted", "duration_limit"}]

WaitStates ==
  [pc : {"none", "arm", "read", "status", "asleep", "answered"}, from : Nat,
   needle : {Nothing, Marker}, notified : BOOLEAN, expired : BOOLEAN, snap : Snapshots,
   ok : BOOLEAN]

ReadingTypes ==
  /\ text \in Texts
  /\ dropped = Larger(Len(text) - Retained, 0)
  /\ connected \in BOOLEAN
  /\ marked \in 0..Len(text)
  /\ client \in ClientStates
  /\ wait \in WaitStates

\* s is what the text holds from a position on.
CopiedAt(s, from) ==
  /\ from + Len(s) <= Len(text)
  /\ \A j \in 1..Len(s) : s[j] = text[from + j]

\* A snapshot that continues a reading at a cursor: what it leaves out is not empty, and
\* then it holds something.
Continues(snap, from) ==
  /\ CopiedAt(snap.output, snap.start)
  /\ snap.start >= from
  /\ snap.start > from => snap.output # <<>>

\* An answer holds what was read at the cursor of its wait.
AnswerInv ==
  wait.pc = "status" \/ (wait.pc = "answered" /\ wait.ok) => Continues(wait.snap, wait.from)

FollowControl ==
  /\ client.pc = "idle" => client = Idle
  /\ client.pc \in {"send", "settling"} => client.job = "command"
  /\ client.job = "command" => client.origin # NoCursor
  /\ client.pc \in {"recent", "delta", "list", "list_after_error"} => client.job = "follow"
  /\ client.job = "follow" =>
       /\ client.pc \notin {"idle", "send", "settling"}
       /\ client.pc = "done" <=> client.reason # "none"
       /\ client.reason # "answered"
       /\ client.emitted <= MaxTotal
       /\ client.reason = "none" => client.emitted < MaxTotal
       /\ client.pc = "recent" => client.cursor = NoCursor
       /\ client.pc = "delta" => client.cursor # NoCursor
       /\ client.pc \in {"list", "waiting", "list_after_error"} =>
            client.cursor \in 0..Len(text)
       /\ client.pc = "waiting" => wait.from = client.cursor
       /\ client.finish => client.pc \in {"delta", "done"} /\ ~connected
       /\ client.reason = "disconnected" => ~connected /\ client.cursor >= marked

\* What has been shown, up to the cursor.
EventFits(shown, i, c) ==
  /\ shown[i].from < shown[i].upto
  /\ shown[i].upto <= c.cursor
  /\ i > 1 => shown[i].from = shown[i - 1].upto
  /\ i = 1 /\ c.origin # NoCursor => shown[i].from = c.origin
  /\ i = Len(shown) => shown[i].kind = "output" /\ shown[i].upto = c.cursor
  /\ shown[i].kind = "gap" => i < Len(shown) /\ shown[i + 1].kind = "output"
  /\ shown[i].kind = "output" =>
       /\ shown[i].from + Len(shown[i].text) = shown[i].upto
       /\ CopiedAt(shown[i].text, shown[i].from)

ShownFits(c) ==
  /\ c.shown # <<>> => c.cursor \in 0..Len(text)
  /\ c.shown = <<>> /\ c.origin # NoCursor => c.cursor = c.origin
  /\ \A i \in DOMAIN c.shown : EventFits(c.shown, i, c)

Covered(c, j) ==
  \E k \in DOMAIN c.shown :
    c.shown[k].kind = "output" /\ j \in (c.shown[k].from + 1)..c.shown[k].upto

\* The tail is the end of what was shown in one piece, and all of it unless it is as long
\* as a marker may have begun.
TailFitsIn(c) ==
  /\ c.tail # <<>> => c.cursor - Len(c.tail) >= 0 /\ CopiedAt(c.tail, c.cursor - Len(c.tail))
  /\ c.until # Nothing =>
       /\ Len(c.tail) < Len(Marker)
       /\ \A j \in (c.cursor - Len(c.tail) + 1)..c.cursor : Covered(c, j)
       /\ Len(c.tail) < Len(Marker) - 1 => ~Covered(c, c.cursor - Len(c.tail))

\* A whole marker has been shown up to i.
MarkerShownAt(c, i) ==
  /\ i \in EndsOf(Marker, text)
  /\ \A j \in (i - Len(Marker) + 1)..i : Covered(c, j)

MarkersFit(c) ==
  c.until # Nothing =>
    \A i \in 1..Len(text) :
       MarkerShownAt(c, i) <=> c.reason = "matched" /\ i = c.cursor

\* What a follow has shown, and the end of it that it keeps.
ShownInv ==
  client.job = "follow" =>
    /\ ShownFits(client)
    /\ client.reason = "none" => TailFitsIn(client)
    /\ MarkersFit(client)
    /\ client.reason = "matched" /\ client.until # Nothing => client.cursor \in 1..Len(text)

FollowInv == ReadingTypes /\ AnswerInv /\ FollowControl /\ ShownInv
-----------------------------------------------------------------------------

LEMMA LeastNatural ==
  ASSUME NEW T \in SUBSET Nat, T # {}
  PROVE  \E m \in T : \A k \in T : m <= k
<1> DEFINE R == {p \in Nat \X Nat : p[1] < p[2]}
<1>1. OpToRel(<, Nat) = R
  BY Zenon DEF OpToRel
<1>2. IsWellFoundedOn(R, Nat)
  BY <1>1, NatLessThanWellFounded, Zenon
<1>3. \A x, y \in Nat : y < x => <<y, x>> \in R
  OBVIOUS
<1> HIDE DEF R
<1>4. PICK x \in T : \A y \in T : <<y, x>> \notin R
  BY <1>2, WFMin
<1>5. ASSUME NEW y \in T PROVE x <= y
  <2>1. ~(y < x)
    BY <1>3, <1>4, Zenon
  <2>2. x \in Nat /\ y \in Nat
    OBVIOUS
  <2> QED BY <2>1, <2>2
<1> QED BY <1>5, Zenon

LEMMA PartOf ==
  ASSUME NEW S, NEW s \in Seq(S), NEW a \in Int, NEW b \in Int,
         1 <= a, a <= b + 1, b <= Len(s)
  PROVE  /\ SubSeq(s, a, b) \in Seq(S)
         /\ Len(SubSeq(s, a, b)) = b - a + 1
         /\ \A j \in 1..(b - a + 1) : SubSeq(s, a, b)[j] = s[a + j - 1]
<1>1. Len(s) \in Nat /\ \A i \in a..b : s[i] \in S
  BY ElementOfSeq
<1> QED BY <1>1, SubSeqProperties

\* Where a marker ends: its characters are the last ones up to there.
LEMMA EndsOfIs ==
  ASSUME NEW marker \in Seq(Chars), NEW s \in Seq(Chars), NEW i \in Int
  PROVE  i \in EndsOf(marker, s) <=>
           /\ Len(marker) <= i /\ i <= Len(s)
           /\ \A j \in 1..Len(marker) : s[i - Len(marker) + j] = marker[j]
<1> DEFINE m == Len(marker)
           w == SubSeq(s, i - m + 1, i)
<1>1. m \in Nat /\ Len(s) \in Nat
  OBVIOUS
<1>2. CASE m <= i /\ i <= Len(s)
  <2>1. /\ w \in Seq(Chars) /\ Len(w) = m
        /\ \A j \in 1..m : w[j] = s[i - m + j]
    <3>1. i - m + 1 \in Int /\ 1 <= i - m + 1 /\ i - m + 1 <= i + 1 /\ i - (i - m + 1) + 1 = m
      BY <1>1, <1>2
    <3>2. /\ w \in Seq(Chars) /\ Len(w) = m
          /\ \A j \in 1..m : w[j] = s[i - m + 1 + j - 1]
      <4> HIDE DEF m
      <4> QED BY <1>1, <1>2, <3>1, PartOf
    <3>3. \A j \in 1..m : i - m + 1 + j - 1 = i - m + j
      BY <1>1
    <3> QED BY <3>2, <3>3
  <2>2. w = marker <=> \A j \in 1..m : w[j] = marker[j]
    <3>1. ASSUME \A j \in 1..m : w[j] = marker[j] PROVE w = marker
      BY <2>1, <3>1, SeqEqual
    <3> QED BY <3>1
  <2>3. i \in EndsOf(marker, s) <=> w = marker
    BY <1>1, <1>2 DEF EndsOf
  <2> HIDE DEF w
  <2> QED BY <1>2, <2>1, <2>2, <2>3
<1>3. CASE ~(m <= i /\ i <= Len(s))
  BY <1>1, <1>3 DEF EndsOf
<1> QED BY <1>2, <1>3

LEMMA FirstEndIs ==
  ASSUME NEW marker \in Seq(Chars), NEW s \in Seq(Chars)
  PROVE  /\ FirstEnd(marker, s) \in Nat
         /\ marker = Nothing => FirstEnd(marker, s) = 0
         /\ marker # Nothing /\ FirstEnd(marker, s) = 0 => EndsOf(marker, s) = {}
         /\ marker # Nothing /\ FirstEnd(marker, s) # 0 =>
              /\ FirstEnd(marker, s) \in EndsOf(marker, s)
              /\ \A j \in EndsOf(marker, s) : FirstEnd(marker, s) <= j
<1>1. CASE marker = Nothing \/ EndsOf(marker, s) = {}
  BY <1>1 DEF FirstEnd
<1>2. CASE marker # Nothing /\ EndsOf(marker, s) # {}
  <2> DEFINE E == EndsOf(marker, s)
  <2>1. E \in SUBSET Nat /\ 0 \notin E
    <3>1. Len(marker) \in Nat \ {0} /\ Len(s) \in Nat
      BY <1>2, EmptySeq DEF Nothing
    <3> QED BY <3>1 DEF EndsOf
  <2>2. E # {} /\ FirstEnd(marker, s) = CHOOSE i \in E : \A j \in E : i <= j
    BY <1>2 DEF FirstEnd
  <2> HIDE DEF E
  <2>3. \E i \in E : \A j \in E : i <= j
    BY <2>1, <2>2, LeastNatural
  <2>4. FirstEnd(marker, s) \in E /\ \A j \in E : FirstEnd(marker, s) <= j
    BY <2>2, <2>3
  <2> QED BY <1>2, <2>1, <2>4 DEF E
<1> QED BY <1>1, <1>2

LEMMA NewestIs ==
  ASSUME NEW S, NEW s \in Seq(S), NEW n \in Nat
  PROVE  /\ Newest(s, n) \in Seq(S)
         /\ Len(Newest(s, n)) = Smaller(n, Len(s))
         /\ \A j \in 1..Smaller(n, Len(s)) : Newest(s, n)[j] = s[Len(s) - Smaller(n, Len(s)) + j]
<1> DEFINE a == Larger(Len(s) - n, 0) + 1
           b == Len(s)
           k == Smaller(n, Len(s))
<1>1. /\ a \in Int /\ b \in Int /\ 1 <= a /\ a <= b + 1 /\ b <= Len(s)
      /\ b - a + 1 = k /\ k \in Nat
      /\ \A j \in 1..k : a + j - 1 = Len(s) - k + j
  BY DEF Larger, Smaller
<1>2. Newest(s, n) = SubSeq(s, a, b)
  BY DEF Newest
<1> HIDE DEF a, b, k
<1>3. /\ Newest(s, n) \in Seq(S) /\ Len(Newest(s, n)) = k
      /\ \A j \in 1..k : Newest(s, n)[j] = s[a + j - 1]
  BY <1>1, <1>2, PartOf
<1>4. \A j \in 1..k : Newest(s, n)[j] = s[Len(s) - k + j]
  BY <1>1, <1>3
<1> QED BY <1>3, <1>4 DEF k

\* A snapshot of the newest n characters.
LEMMA SnapshotIs ==
  ASSUME text \in Texts, NEW n \in Nat, n <= Len(text)
  PROVE  /\ Snapshot(n) \in Snapshots
         /\ CopiedAt(Snapshot(n).output, Snapshot(n).start)
         /\ Snapshot(n).start = Len(text) - n /\ Len(Snapshot(n).output) = n
<1>1. Len(text) \in Nat /\ Smaller(n, Len(text)) = n
  BY DEF Smaller, Texts
<1>2. /\ Newest(text, n) \in Texts /\ Len(Newest(text, n)) = n
      /\ \A j \in 1..n : Newest(text, n)[j] = text[Len(text) - n + j]
  BY <1>1, NewestIs DEF Texts
<1> QED BY <1>1, <1>2 DEF Snapshot, Snapshots, CopiedAt

LEMMA ReadDeltaIs ==
  ASSUME ReadingTypes, NEW from \in Nat
  PROVE  /\ ReadDelta(from) \in Snapshots
         /\ from <= Len(text) =>
              /\ Continues(ReadDelta(from), from)
              /\ ReadDelta(from).start + Len(ReadDelta(from).output) = Len(text)
<1> DEFINE N == Len(text)
           n == Smaller(MaxChars, N - Larger(from, dropped))
<1>1. /\ N \in Nat /\ MaxChars \in Nat \ {0} /\ Retained \in Nat \ {0}
      /\ dropped = Larger(N - Retained, 0) /\ text \in Texts
  BY ReadingAssumption DEF ReadingTypes, Texts
<1>2. /\ dropped \in Nat /\ dropped <= N /\ (dropped = N => N = 0)
  BY <1>1 DEF Larger
<1>3. ReadDelta(from) = Snapshot(n)
  BY DEF ReadDelta
<1>4. CASE from <= N
  <2>1. n \in Nat /\ n <= N /\ N - n >= from /\ (N - n > from => n > 0)
    BY <1>1, <1>2, <1>4 DEF Smaller, Larger
  <2> HIDE DEF n
  <2>2. /\ ReadDelta(from) \in Snapshots
        /\ CopiedAt(ReadDelta(from).output, ReadDelta(from).start)
        /\ ReadDelta(from).start = N - n /\ Len(ReadDelta(from).output) = n
    BY <1>1, <1>3, <2>1, SnapshotIs
  <2>3. N - n > from => ReadDelta(from).output # <<>>
    BY <1>1, <2>1, <2>2
  <2> QED BY <1>1, <2>1, <2>2, <2>3 DEF Continues
<1>5. CASE from > N
  <2>1. n \in Int /\ n < 0
    BY <1>1, <1>2, <1>5 DEF Smaller, Larger
  <2> HIDE DEF n
  <2>2. /\ N - n \in Nat /\ Larger(N - n, 0) + 1 > N
        /\ Larger(N - n, 0) + 1 \in Int
    BY <1>1, <2>1 DEF Larger
  <2>3. Newest(text, n) = <<>>
    <3>1. PICK a \in Int : a = Larger(N - n, 0) + 1 /\ N < a
      BY <1>1, <2>1, <2>2
    <3>2. SubSeq(text, a, N) = <<>>
      BY <1>1, <3>1, SubSeqEmpty
    <3> QED BY <3>1, <3>2 DEF Newest
  <2>4. <<>> \in Texts
    BY DEF Texts
  <2> QED BY <1>1, <1>3, <1>5, <2>2, <2>3, <2>4 DEF Snapshot, Snapshots
<1> QED BY <1>1, <1>4, <1>5

LEMMA ReadRecentIs ==
  ASSUME ReadingTypes
  PROVE  /\ ReadRecent \in Snapshots
         /\ CopiedAt(ReadRecent.output, ReadRecent.start)
         /\ ReadRecent.start + Len(ReadRecent.output) = Len(text)
<1> DEFINE n == Smaller(MaxChars, Len(text) - dropped)
<1>1. Len(text) \in Nat /\ n \in Nat /\ n <= Len(text) /\ text \in Texts
  BY ReadingAssumption DEF ReadingTypes, Smaller, Larger, Texts
<1>2. ReadRecent = Snapshot(n)
  BY DEF ReadRecent
<1> HIDE DEF n
<1> QED BY <1>1, <1>2, SnapshotIs
-----------------------------------------------------------------------------
(* The parts of Processed *)

FoundIn(c, snap) == FirstEnd(c.until, TailAfter(c, snap) \o snap.output)
RoomFor(c, snap) == Smaller(Len(snap.output), MaxTotal - c.emitted)
SizeOf(c, snap) ==
  IF FoundIn(c, snap) = 0 THEN RoomFor(c, snap)
  ELSE Smaller(RoomFor(c, snap), Larger(FoundIn(c, snap) - Len(TailAfter(c, snap)), 0))
MissedBy(c, snap) == c.cursor # NoCursor /\ snap.start > c.cursor
MatchedBy(c, snap) ==
  FoundIn(c, snap) # 0 /\ FoundIn(c, snap) - Len(TailAfter(c, snap)) <= SizeOf(c, snap)
Written(c, snap) == SubSeq(snap.output, 1, SizeOf(c, snap))
GapOf(c, snap) == [kind |-> "gap", from |-> c.cursor, upto |-> snap.start, text |-> <<>>]
OutputOf(c, snap) ==
  [kind |-> "output", from |-> snap.start, upto |-> snap.start + SizeOf(c, snap),
   text |-> Written(c, snap)]
TailNext(c, snap) ==
  IF c.until = Nothing THEN <<>>
  ELSE Newest(TailAfter(c, snap) \o Written(c, snap), Len(c.until) - 1)
ShownNext(c, snap) ==
  c.shown \o (IF MissedBy(c, snap) THEN <<GapOf(c, snap)>> ELSE <<>>)
          \o (IF SizeOf(c, snap) > 0 THEN <<OutputOf(c, snap)>> ELSE <<>>)
ReasonNext(c, snap) ==
  IF MatchedBy(c, snap) THEN "matched"
  ELSE IF c.emitted + SizeOf(c, snap) = MaxTotal THEN "output_limit" ELSE "none"

LEMMA ProcessedIs ==
  ASSUME NEW c, NEW snap
  PROVE  Processed(c, snap) =
           [c EXCEPT !.cursor = snap.start + SizeOf(c, snap),
                     !.emitted = c.emitted + SizeOf(c, snap),
                     !.tail = TailNext(c, snap),
                     !.shown = ShownNext(c, snap),
                     !.reason = ReasonNext(c, snap)]
  BY DEF Processed, FoundIn, RoomFor, SizeOf, MissedBy, MatchedBy, Written, GapOf, OutputOf,
     TailNext, ShownNext, ReasonNext

\* A snapshot that may be processed: it holds the text, and the text that follows what
\* was read before.
Readable(c, snap) ==
  /\ snap \in Snapshots
  /\ CopiedAt(snap.output, snap.start)
  /\ c.cursor # NoCursor => Continues(snap, c.cursor)

\* A follow before it processes a snapshot.
Following(c) ==
  /\ c \in ClientStates
  /\ c.reason = "none"
  /\ c.emitted < MaxTotal
  /\ ShownFits(c)
  /\ TailFitsIn(c)
  /\ MarkersFit(c)

LEMMA MarkerIs == Marker \in Texts /\ Len(Marker) \in Nat \ {0} /\ MaxTotal \in Nat \ {0}
                  /\ Nothing = <<>> /\ Nothing \in Texts /\ Marker # Nothing
<1>1. Marker \in Seq(Chars) /\ Marker # <<>>
  BY ReadingAssumption
<1> QED BY <1>1, EmptySeq, ReadingAssumption DEF Nothing, Texts

\* The tail that a snapshot is joined to.
LEMMA TailAfterIs ==
  ASSUME ReadingTypes, NEW c, Following(c), NEW snap, Readable(c, snap)
  PROVE  /\ TailAfter(c, snap) \in Texts
         /\ Len(TailAfter(c, snap)) <= snap.start
         /\ CopiedAt(TailAfter(c, snap), snap.start - Len(TailAfter(c, snap)))
         /\ \A j \in Int : Covered(c, j) => 1 <= j /\ j <= snap.start
         /\ c.until # Nothing =>
              /\ Len(TailAfter(c, snap)) < Len(Marker)
              /\ \A j \in (snap.start - Len(TailAfter(c, snap)) + 1)..snap.start : Covered(c, j)
              /\ Len(TailAfter(c, snap)) < Len(Marker) - 1 =>
                   ~Covered(c, snap.start - Len(TailAfter(c, snap)))
<1>1. /\ text \in Texts /\ Len(text) \in Nat
      /\ snap.start \in Nat /\ snap.start <= Len(text)
      /\ c.tail \in Texts /\ Len(c.tail) \in Nat /\ c.cursor \in Cursors
      /\ c.shown \in Seq(Events) /\ DOMAIN c.shown = 1..Len(c.shown)
  BY DEF ReadingTypes, Texts, Readable, Snapshots, CopiedAt, Following, ClientStates
<1>2. c.cursor # NoCursor => c.cursor \in Nat /\ c.cursor <= snap.start
  BY <1>1 DEF Readable, Continues, Cursors
<1>3. c.cursor = NoCursor => c.shown = <<>> /\ c.tail = <<>>
  BY <1>1 DEF Following, ShownFits, TailFitsIn, NoCursor
<1>4. ASSUME NEW j \in Int, Covered(c, j)
      PROVE  1 <= j /\ j <= snap.start /\ c.cursor # NoCursor /\ j <= c.cursor
  <2>1. PICK k \in DOMAIN c.shown :
          c.shown[k].kind = "output" /\ j \in (c.shown[k].from + 1)..c.shown[k].upto
    BY <1>4 DEF Covered
  <2>2. c.shown[k] \in Events /\ c.shown[k].upto <= c.cursor
    BY <1>1, <2>1 DEF Following, ShownFits, EventFits
  <2>3. c.cursor # NoCursor
    BY <1>3, <2>1
  <2>4. c.cursor \in Nat /\ c.cursor <= snap.start /\ snap.start \in Nat
    BY <1>1, <1>2, <2>3
  <2>5. c.shown[k].from \in Nat /\ c.shown[k].upto \in Nat
    BY <2>2 DEF Events
  <2>6. 1 <= j /\ j <= c.shown[k].upto
    BY <2>1, <2>5
  <2> QED BY <2>2, <2>3, <2>4, <2>5, <2>6
<1>5. CASE MissedBy(c, snap)
  <2>1. TailAfter(c, snap) = <<>> /\ Len(<<>>) = 0 /\ <<>> \in Texts
    BY <1>5, EmptySeq DEF TailAfter, MissedBy, Texts
  <2>2. ~Covered(c, snap.start)
    BY <1>1, <1>2, <1>4, <1>5 DEF MissedBy
  <2> QED BY <1>1, <1>4, <2>1, <2>2, MarkerIs DEF CopiedAt
<1>6. CASE c.cursor = NoCursor
  <2>1. TailAfter(c, snap) = <<>> /\ Len(<<>>) = 0 /\ <<>> \in Texts
    BY <1>3, <1>6, EmptySeq DEF TailAfter, Texts
  <2>2. ~Covered(c, snap.start)
    BY <1>1, <1>4, <1>6
  <2> QED BY <1>1, <1>4, <2>1, <2>2, MarkerIs DEF CopiedAt
<1>7. CASE ~MissedBy(c, snap) /\ c.cursor # NoCursor
  <2>1. TailAfter(c, snap) = c.tail /\ snap.start = c.cursor
    BY <1>1, <1>2, <1>7 DEF TailAfter, MissedBy
  <2>2. c.tail = <<>> => Len(c.tail) = 0 /\ CopiedAt(c.tail, snap.start - Len(c.tail))
    BY <1>1, EmptySeq DEF CopiedAt
  <2>3. Len(c.tail) <= snap.start /\ CopiedAt(c.tail, snap.start - Len(c.tail))
    BY <1>1, <2>1, <2>2 DEF Following, TailFitsIn
  <2> QED BY <1>1, <1>4, <2>1, <2>3 DEF Following, TailFitsIn
<1> QED BY <1>5, <1>6, <1>7

LEMMA SizeIs ==
  ASSUME ReadingTypes, NEW c, Following(c), NEW snap, Readable(c, snap)
  PROVE  /\ SizeOf(c, snap) \in Nat
         /\ SizeOf(c, snap) <= Len(snap.output)
         /\ c.emitted + SizeOf(c, snap) <= MaxTotal
         /\ FoundIn(c, snap) = 0 => SizeOf(c, snap) = RoomFor(c, snap)
         /\ FoundIn(c, snap) # 0 /\ FoundIn(c, snap) > Len(TailAfter(c, snap)) =>
              SizeOf(c, snap) <= FoundIn(c, snap) - Len(TailAfter(c, snap))
         /\ ~MatchedBy(c, snap) => SizeOf(c, snap) = RoomFor(c, snap)
         /\ FoundIn(c, snap) \in Nat
         /\ TailAfter(c, snap) \o snap.output \in Texts
<1>1. /\ TailAfter(c, snap) \in Texts /\ snap.output \in Texts /\ c.until \in Texts
      /\ c.emitted \in Nat /\ c.emitted < MaxTotal
  BY TailAfterIs, MarkerIs DEF Readable, Snapshots, Following, ClientStates
<1>2. TailAfter(c, snap) \o snap.output \in Texts
  BY <1>1, ConcatProperties DEF Texts
<1>3. FoundIn(c, snap) \in Nat
  BY <1>1, <1>2, FirstEndIs DEF FoundIn, Texts
<1> DEFINE f == FoundIn(c, snap)
           t == Len(TailAfter(c, snap))
           o == Len(snap.output)
<1>4. f \in Nat /\ t \in Nat /\ o \in Nat
  BY <1>1, <1>3 DEF Texts
<1> HIDE DEF f, t, o
<1>5. RoomFor(c, snap) = Smaller(o, MaxTotal - c.emitted)
  BY DEF RoomFor, o
<1>6. SizeOf(c, snap) =
        IF f = 0 THEN RoomFor(c, snap) ELSE Smaller(RoomFor(c, snap), Larger(f - t, 0))
  BY DEF SizeOf, f, t
<1>7. MatchedBy(c, snap) <=> f # 0 /\ f - t <= SizeOf(c, snap)
  BY DEF MatchedBy, f, t
<1>8. /\ SizeOf(c, snap) \in Nat
      /\ SizeOf(c, snap) <= o
      /\ c.emitted + SizeOf(c, snap) <= MaxTotal
      /\ f = 0 => SizeOf(c, snap) = RoomFor(c, snap)
      /\ f # 0 /\ f > t => SizeOf(c, snap) <= f - t
      /\ ~MatchedBy(c, snap) => SizeOf(c, snap) = RoomFor(c, snap)
  BY <1>1, <1>4, <1>5, <1>6, <1>7, MarkerIs DEF Smaller, Larger
<1> QED BY <1>2, <1>3, <1>8 DEF f, t, o

LEMMA WrittenIs ==
  ASSUME ReadingTypes, NEW c, Following(c), NEW snap, Readable(c, snap)
  PROVE  /\ Written(c, snap) \in Texts
         /\ Len(Written(c, snap)) = SizeOf(c, snap)
         /\ CopiedAt(Written(c, snap), snap.start)
<1>1. /\ SizeOf(c, snap) \in Nat /\ SizeOf(c, snap) <= Len(snap.output)
      /\ snap.output \in Seq(Chars) /\ snap.start \in Nat /\ Len(text) \in Nat
      /\ Len(snap.output) \in Nat
  BY SizeIs DEF Readable, Snapshots, Texts, ReadingTypes
<1>2. /\ Written(c, snap) \in Texts /\ Len(Written(c, snap)) = SizeOf(c, snap)
      /\ \A j \in 1..SizeOf(c, snap) : Written(c, snap)[j] = snap.output[j]
  <2>1. PICK n \in Nat : n = SizeOf(c, snap) /\ n - 1 + 1 = n
    BY <1>1
  <2>2. /\ SubSeq(snap.output, 1, n) \in Seq(Chars)
        /\ Len(SubSeq(snap.output, 1, n)) = n
        /\ \A j \in 1..n : SubSeq(snap.output, 1, n)[j] = snap.output[1 + j - 1]
    BY <1>1, <2>1, PartOf
  <2>3. \A j \in 1..n : 1 + j - 1 = j
    OBVIOUS
  <2> QED BY <2>1, <2>2, <2>3 DEF Written, Texts
<1>3. /\ snap.start + Len(snap.output) <= Len(text)
      /\ \A j \in 1..Len(snap.output) : snap.output[j] = text[snap.start + j]
  BY DEF Readable, CopiedAt
<1> DEFINE n == SizeOf(c, snap)
           w == Written(c, snap)
           o == snap.output
           m == Len(o)
<1>4. /\ n \in Nat /\ m \in Nat /\ n <= m /\ w \in Texts /\ Len(w) = n
      /\ \A j \in 1..n : w[j] = o[j]
      /\ \A j \in 1..m : o[j] = text[snap.start + j]
      /\ snap.start + m <= Len(text)
  BY <1>1, <1>2, <1>3
<1> HIDE DEF n, w, o, m
<1>5. snap.start + n <= Len(text) /\ \A j \in 1..n : w[j] = text[snap.start + j]
  BY <1>1, <1>4
<1>6. CopiedAt(w, snap.start)
  BY <1>4, <1>5 DEF CopiedAt
<1> QED BY <1>2, <1>6 DEF w

\* Two copies side by side are one.
LEMMA JoinedIs ==
  ASSUME text \in Texts, NEW s \in Texts, NEW t \in Texts, NEW p \in Nat, Len(s) <= p,
         CopiedAt(s, p - Len(s)), CopiedAt(t, p)
  PROVE  /\ s \o t \in Texts
         /\ Len(s \o t) = Len(s) + Len(t)
         /\ CopiedAt(s \o t, p - Len(s))
<1> DEFINE b == p - Len(s)
<1>1. /\ s \o t \in Texts /\ Len(s \o t) = Len(s) + Len(t)
      /\ \A j \in 1..(Len(s) + Len(t)) : (s \o t)[j] = IF j <= Len(s) THEN s[j] ELSE t[j - Len(s)]
  BY ConcatProperties DEF Texts
<1>2. Len(s) \in Nat /\ Len(t) \in Nat /\ Len(text) \in Nat
  BY DEF Texts
<1> DEFINE u == s \o t
           m == Len(s)
           n == Len(t)
<1>3. /\ u \in Texts /\ Len(u) = m + n
      /\ \A j \in 1..(m + n) : u[j] = IF j <= m THEN s[j] ELSE t[j - m]
      /\ m \in Nat /\ n \in Nat /\ b = p - m
      /\ \A j \in 1..m : s[j] = text[p - m + j]
      /\ \A j \in 1..n : t[j] = text[p + j]
      /\ p + n <= Len(text)
  BY <1>1, <1>2 DEF CopiedAt
<1> HIDE DEF u, m, n
<1>4. ASSUME NEW j \in 1..(m + n) PROVE u[j] = text[p - m + j]
  <2>1. CASE j <= m
    BY <1>3, <1>4, <2>1
  <2>2. CASE j > m
    <3>1. j - m \in 1..n /\ p + (j - m) = p - m + j
      BY <1>3, <1>4, <2>2
    <3>2. u[j] = t[j - m]
      BY <1>3, <2>2
    <3>3. t[j - m] = text[p + (j - m)]
      BY <1>3, <3>1
    <3> QED BY <3>1, <3>2, <3>3
  <2> QED BY <1>3, <1>4, <2>1, <2>2
<1>5. CopiedAt(u, p - m)
  BY <1>2, <1>3, <1>4 DEF CopiedAt
<1> QED BY <1>1, <1>5 DEF u, m

\* A marker that is found ends in what the snapshot adds.
LEMMA FoundIs ==
  ASSUME ReadingTypes, NEW c, Following(c), NEW snap, Readable(c, snap)
  PROVE  /\ c.until = Nothing => FoundIn(c, snap) = 0
         /\ c.until # Nothing =>
              /\ c.until = Marker
              /\ FoundIn(c, snap) # 0 =>
                   /\ FoundIn(c, snap) \in EndsOf(Marker, TailAfter(c, snap) \o snap.output)
                   /\ \A j \in EndsOf(Marker, TailAfter(c, snap) \o snap.output) :
                        FoundIn(c, snap) <= j
                   /\ Len(Marker) <= FoundIn(c, snap)
                   /\ FoundIn(c, snap) > Len(TailAfter(c, snap))
              /\ FoundIn(c, snap) = 0 =>
                   EndsOf(Marker, TailAfter(c, snap) \o snap.output) = {}
<1>1. /\ c.until \in {Nothing, Marker} /\ Nothing \in Seq(Chars) /\ Marker \in Seq(Chars)
      /\ TailAfter(c, snap) \o snap.output \in Seq(Chars)
      /\ TailAfter(c, snap) \in Seq(Chars) /\ Len(Marker) \in Nat \ {0}
  BY MarkerIs, SizeIs, TailAfterIs DEF Texts, Following, ClientStates
<1>2. CASE c.until = Nothing
  BY <1>1, <1>2, FirstEndIs DEF FoundIn
<1>3. CASE c.until = Marker /\ c.until # Nothing
  <2> DEFINE joined == TailAfter(c, snap) \o snap.output
  <2>1. FoundIn(c, snap) = FirstEnd(Marker, joined) /\ joined \in Seq(Chars)
    BY <1>1, <1>3 DEF FoundIn
  <2> HIDE DEF joined
  <2>2. /\ FoundIn(c, snap) \in Nat
        /\ FoundIn(c, snap) = 0 => EndsOf(Marker, joined) = {}
        /\ FoundIn(c, snap) # 0 =>
             /\ FoundIn(c, snap) \in EndsOf(Marker, joined)
             /\ \A j \in EndsOf(Marker, joined) : FoundIn(c, snap) <= j
    BY <1>1, <1>3, <2>1, FirstEndIs
  <2>3. FoundIn(c, snap) # 0 => Len(Marker) <= FoundIn(c, snap)
    BY <2>2 DEF EndsOf
  <2>4. Len(TailAfter(c, snap)) \in Nat /\ Len(TailAfter(c, snap)) < Len(Marker)
    BY <1>1, <1>3, TailAfterIs
  <2>5. FoundIn(c, snap) # 0 => FoundIn(c, snap) > Len(TailAfter(c, snap))
    BY <1>1, <2>2, <2>3, <2>4
  <2> QED BY <1>3, <2>2, <2>3, <2>5 DEF joined
<1> QED BY <1>1, <1>2, <1>3

\* What a snapshot adds to the events: a gap when something was missed, and then output;
\* output when there is any.
LEMMA ShownNextIs ==
  ASSUME ReadingTypes, NEW c, Following(c), NEW snap, Readable(c, snap)
  PROVE  /\ MissedBy(c, snap) => SizeOf(c, snap) > 0
         /\ ShownNext(c, snap) \in Seq(Events)
         /\ \A i \in 1..Len(c.shown) : ShownNext(c, snap)[i] = c.shown[i]
         /\ SizeOf(c, snap) = 0 => ShownNext(c, snap) = c.shown
         /\ SizeOf(c, snap) > 0 /\ ~MissedBy(c, snap) =>
              /\ Len(ShownNext(c, snap)) = Len(c.shown) + 1
              /\ ShownNext(c, snap)[Len(c.shown) + 1] = OutputOf(c, snap)
         /\ SizeOf(c, snap) > 0 /\ MissedBy(c, snap) =>
              /\ Len(ShownNext(c, snap)) = Len(c.shown) + 2
              /\ ShownNext(c, snap)[Len(c.shown) + 1] = GapOf(c, snap)
              /\ ShownNext(c, snap)[Len(c.shown) + 2] = OutputOf(c, snap)
<1> DEFINE z == SizeOf(c, snap)
           o == Len(snap.output)
           r == RoomFor(c, snap)
           f == FoundIn(c, snap)
           t == Len(TailAfter(c, snap))
<1>1. MissedBy(c, snap) => z > 0
  <2>1. /\ MissedBy(c, snap) => snap.output # <<>>
        /\ snap.output \in Texts /\ c.emitted \in Nat /\ c.emitted < MaxTotal
        /\ TailAfter(c, snap) \in Texts
    BY TailAfterIs DEF MissedBy, Readable, Continues, Snapshots, Following, ClientStates
  <2>2. o \in Nat /\ t \in Nat /\ f \in Nat /\ (MissedBy(c, snap) => o > 0)
    BY <2>1, SizeIs, EmptySeq DEF Texts
  <2>3. f # 0 => f > t
    BY FoundIs
  <2>4. r = Smaller(o, MaxTotal - c.emitted)
    BY DEF RoomFor
  <2>5. z = IF f = 0 THEN r ELSE Smaller(r, Larger(f - t, 0))
    BY DEF SizeOf
  <2> HIDE DEF z, o, r, f, t
  <2> QED BY <2>1, <2>2, <2>3, <2>4, <2>5, MarkerIs DEF Smaller, Larger
<1>2. z \in Nat
  BY SizeIs
<1>3. c.shown \in Seq(Events) /\ c.cursor \in Cursors /\ snap.start \in Nat
  BY DEF Following, ClientStates, Readable, Snapshots
<1>4. z > 0 => OutputOf(c, snap) \in Events
  <2>1. snap.start + z \in Nat
    BY <1>2, <1>3
  <2>2. Written(c, snap) \in Texts
    BY WrittenIs
  <2> QED BY <1>3, <2>1, <2>2 DEF OutputOf, Events
<1>5. MissedBy(c, snap) => GapOf(c, snap) \in Events
  BY <1>3, MarkerIs DEF GapOf, Events, MissedBy, Cursors
<1> DEFINE s == c.shown
           a == IF MissedBy(c, snap) THEN <<GapOf(c, snap)>> ELSE <<>>
           b == IF z > 0 THEN <<OutputOf(c, snap)>> ELSE <<>>
<1>6. ShownNext(c, snap) = (s \o a) \o b
  BY DEF ShownNext
<1>7. /\ s \in Seq(Events) /\ a \in Seq(Events) /\ b \in Seq(Events)
      /\ z > 0 => Len(b) = 1 /\ b[1] = OutputOf(c, snap)
      /\ MissedBy(c, snap) => Len(a) = 1 /\ a[1] = GapOf(c, snap)
      /\ z = 0 => b = <<>>
      /\ ~MissedBy(c, snap) => a = <<>>
  <2>1. s \in Seq(Events) /\ b \in Seq(Events) /\ (z > 0 => Len(b) = 1 /\ b[1] = OutputOf(c, snap))
        /\ (z = 0 => b = <<>>)
    BY <1>2, <1>3, <1>4
  <2>2. /\ a \in Seq(Events) /\ (MissedBy(c, snap) => Len(a) = 1 /\ a[1] = GapOf(c, snap))
        /\ (~MissedBy(c, snap) => a = <<>>)
    BY <1>5
  <2> QED BY <2>1, <2>2
<1> HIDE DEF s, a, b
<1>8. /\ s \o a \in Seq(Events) /\ Len(s \o a) = Len(s) + Len(a)
      /\ \A i \in 1..Len(s) + Len(a) : (s \o a)[i] = IF i <= Len(s) THEN s[i] ELSE a[i - Len(s)]
  BY <1>7, ConcatProperties
<1> DEFINE u == s \o a
<1>9. /\ u \o b \in Seq(Events) /\ Len(u \o b) = Len(u) + Len(b)
      /\ \A i \in 1..Len(u) + Len(b) : (u \o b)[i] = IF i <= Len(u) THEN u[i] ELSE b[i - Len(u)]
  <2>1. u \in Seq(Events)
    BY <1>8
  <2> HIDE DEF u
  <2> QED BY <1>7, <2>1, ConcatProperties
<1> DEFINE w == ShownNext(c, snap)
           n == Len(s)
<1>10. /\ w \in Seq(Events) /\ Len(w) = Len(u) + Len(b) /\ Len(u) = n + Len(a)
       /\ \A i \in 1..Len(u) + Len(b) : w[i] = IF i <= Len(u) THEN u[i] ELSE b[i - Len(u)]
       /\ \A i \in 1..n + Len(a) : u[i] = IF i <= n THEN s[i] ELSE a[i - n]
       /\ n \in Nat /\ Len(a) \in Nat /\ Len(b) \in Nat
  <2>1. w = u \o b
    BY <1>6
  <2>2. n \in Nat /\ Len(a) \in Nat /\ Len(b) \in Nat
    BY <1>7
  <2> QED BY <1>8, <1>9, <2>1, <2>2
<1>11. z = 0 => w = s
  <2>1. ASSUME z = 0 PROVE w = s
    <3>1. a = <<>> /\ b = <<>>
      BY <1>1, <1>2, <1>7, <2>1
    <3>2. s \o <<>> = s
      BY <1>7, ConcatEmptySeq
    <3> QED BY <1>6, <3>1, <3>2
  <2> QED BY <2>1
<1> HIDE DEF u, w, n, z
<1>12. \A i \in 1..n : w[i] = s[i]
  BY <1>10
<1>13. z > 0 /\ ~MissedBy(c, snap) => Len(w) = n + 1 /\ w[n + 1] = OutputOf(c, snap)
  <2>1. ASSUME z > 0, ~MissedBy(c, snap) PROVE Len(w) = n + 1 /\ w[n + 1] = OutputOf(c, snap)
    <3>1. Len(a) = 0 /\ Len(b) = 1 /\ b[1] = OutputOf(c, snap)
      BY <1>7, <2>1
    <3>2. Len(u) = n /\ n + 1 \in 1..Len(u) + Len(b) /\ ~(n + 1 <= Len(u)) /\ n + 1 - Len(u) = 1
      BY <1>10, <3>1
    <3> QED BY <1>10, <3>1, <3>2
  <2> QED BY <2>1
<1>14. z > 0 /\ MissedBy(c, snap) =>
         Len(w) = n + 2 /\ w[n + 1] = GapOf(c, snap) /\ w[n + 2] = OutputOf(c, snap)
  <2>1. ASSUME z > 0, MissedBy(c, snap)
        PROVE  Len(w) = n + 2 /\ w[n + 1] = GapOf(c, snap) /\ w[n + 2] = OutputOf(c, snap)
    <3>1. Len(a) = 1 /\ Len(b) = 1 /\ b[1] = OutputOf(c, snap) /\ a[1] = GapOf(c, snap)
      BY <1>7, <2>1
    <3>2. /\ Len(u) = n + 1 /\ n + 2 \in 1..Len(u) + Len(b) /\ ~(n + 2 <= Len(u))
          /\ n + 2 - Len(u) = 1 /\ n + 1 \in 1..Len(u) + Len(b) /\ n + 1 <= Len(u)
          /\ n + 1 \in 1..n + Len(a) /\ ~(n + 1 <= n) /\ n + 1 - n = 1
      BY <1>10, <3>1
    <3>3. w[n + 2] = b[1]
      BY <1>10, <3>2
    <3>4. w[n + 1] = u[n + 1] /\ u[n + 1] = a[1]
      BY <1>10, <3>2
    <3> QED BY <1>10, <3>1, <3>2, <3>3, <3>4
  <2> QED BY <2>1
<1> QED BY <1>1, <1>10, <1>11, <1>12, <1>13, <1>14 DEF w, n, z, s

\* The client after a snapshot.
LEMMA ProcessedKeeps ==
  ASSUME ReadingTypes, NEW c, Following(c), NEW snap, Readable(c, snap)
  PROVE  /\ Processed(c, snap) \in ClientStates
         /\ Processed(c, snap).cursor = snap.start + SizeOf(c, snap)
         /\ Processed(c, snap).emitted = c.emitted + SizeOf(c, snap)
         /\ Processed(c, snap).tail = TailNext(c, snap)
         /\ Processed(c, snap).shown = ShownNext(c, snap)
         /\ Processed(c, snap).reason = ReasonNext(c, snap)
         /\ Processed(c, snap).job = c.job /\ Processed(c, snap).pc = c.pc
         /\ Processed(c, snap).origin = c.origin /\ Processed(c, snap).until = c.until
         /\ Processed(c, snap).finish = c.finish
         /\ snap.start + SizeOf(c, snap) \in 0..Len(text)
<1>1. c \in ClientStates /\ c.emitted \in Nat
  BY DEF Following, ClientStates
<1>2. snap.start + SizeOf(c, snap) \in Nat /\ c.emitted + SizeOf(c, snap) \in Nat
      /\ snap.start + SizeOf(c, snap) \in 0..Len(text)
  <2>1. /\ snap.start \in Nat /\ SizeOf(c, snap) \in Nat /\ SizeOf(c, snap) <= Len(snap.output)
        /\ Len(snap.output) \in Nat /\ Len(text) \in Nat
        /\ snap.start + Len(snap.output) <= Len(text)
    <3>1. SizeOf(c, snap) \in Nat /\ SizeOf(c, snap) <= Len(snap.output)
      BY SizeIs
    <3>2. /\ snap.start \in Nat /\ Len(snap.output) \in Nat /\ Len(text) \in Nat
          /\ snap.start + Len(snap.output) <= Len(text)
      BY DEF Readable, Snapshots, Texts, CopiedAt, ReadingTypes
    <3> QED  BY <3>1, <3>2
  <2> QED BY <1>1, <2>1
<1>3. ShownNext(c, snap) \in Seq(Events)
  BY ShownNextIs
<1>4. ReasonNext(c, snap) \in {"matched", "output_limit", "none"}
  BY DEF ReasonNext
<1>5. TailNext(c, snap) \in Texts
  <2>1. TailAfter(c, snap) \in Texts /\ Written(c, snap) \in Texts
    BY TailAfterIs, WrittenIs
  <2>2. TailAfter(c, snap) \o Written(c, snap) \in Seq(Chars)
    BY <2>1, ConcatProperties DEF Texts
  <2>3. c.until # Nothing => Len(c.until) - 1 \in Nat
    <3>1. c.until # Nothing => c.until = Marker
      BY <1>1 DEF ClientStates
    <3> QED BY <3>1, MarkerIs
  <2>4. c.until # Nothing => TailNext(c, snap) \in Seq(Chars)
    BY <2>2, <2>3, NewestIs DEF TailNext
  <2> QED BY <2>4, MarkerIs DEF TailNext, Texts
<1> DEFINE x == snap.start + SizeOf(c, snap)
           y == c.emitted + SizeOf(c, snap)
           t == TailNext(c, snap)
           s == ShownNext(c, snap)
           r == ReasonNext(c, snap)
<1>6. Processed(c, snap) = [c EXCEPT !.cursor = x, !.emitted = y, !.tail = t, !.shown = s,
                                     !.reason = r]
  BY ProcessedIs
<1>7. /\ x \in Cursors /\ y \in Nat /\ t \in Texts /\ s \in Seq(Events)
      /\ r \in {"matched", "output_limit", "none"}
  BY <1>2, <1>3, <1>4, <1>5 DEF Cursors
<1> HIDE DEF x, y, t, s, r
<1>8. /\ Processed(c, snap) \in ClientStates
      /\ Processed(c, snap).cursor = x /\ Processed(c, snap).emitted = y
      /\ Processed(c, snap).tail = t /\ Processed(c, snap).shown = s
      /\ Processed(c, snap).reason = r
      /\ Processed(c, snap).job = c.job /\ Processed(c, snap).pc = c.pc
      /\ Processed(c, snap).origin = c.origin /\ Processed(c, snap).until = c.until
      /\ Processed(c, snap).finish = c.finish
  BY <1>1, <1>6, <1>7 DEF ClientStates
<1> QED BY <1>2, <1>8 DEF x, y, t, s, r

\* The events fit together after a snapshot as before it.
LEMMA ShownStillFits ==
  ASSUME ReadingTypes, NEW c, Following(c), NEW snap, Readable(c, snap)
  PROVE  ShownFits(Processed(c, snap))
<1> DEFINE p == Processed(c, snap)
           s == c.shown
           w == ShownNext(c, snap)
           n == Len(s)
           z == SizeOf(c, snap)
           e == snap.start + z
<1>1. /\ p.shown = w /\ p.cursor = e /\ p.origin = c.origin /\ e \in 0..Len(text)
      /\ s \in Seq(Events) /\ n \in Nat /\ DOMAIN s = 1..n
      /\ w \in Seq(Events) /\ Len(w) \in Nat /\ DOMAIN w = 1..Len(w)
      /\ z \in Nat /\ snap.start \in Nat /\ c.cursor \in Cursors /\ c.origin \in Cursors
  BY ProcessedKeeps, ShownNextIs, SizeIs DEF Following, ClientStates, Readable, Snapshots
<1>11. /\ p.shown = w /\ p.cursor = e /\ p.origin = c.origin
       /\ e \in 0..Len(text) /\ DOMAIN w = 1..Len(w)
  BY <1>1
<1>10. (\A i \in 1..n : w[i] = s[i]) /\ (z = 0 => w = s)
  BY ShownNextIs
<1>2. /\ MissedBy(c, snap) => z > 0
      /\ z > 0 /\ ~MissedBy(c, snap) => Len(w) = n + 1 /\ w[n + 1] = OutputOf(c, snap)
      /\ z > 0 /\ MissedBy(c, snap) =>
           Len(w) = n + 2 /\ w[n + 1] = GapOf(c, snap) /\ w[n + 2] = OutputOf(c, snap)
  BY ShownNextIs
<1>3. /\ n > 0 => c.cursor \in 0..Len(text) /\ s[n].upto = c.cursor /\ s[n].kind = "output"
      /\ n = 0 /\ c.origin # NoCursor => c.cursor = c.origin
      /\ \A i \in 1..n : EventFits(s, i, c)
  <2>1. \A i \in 1..n : EventFits(s, i, c)
    BY <1>1 DEF Following, ShownFits
  <2>2. s # <<>> => c.cursor \in 0..Len(text)
    BY DEF Following, ShownFits
  <2>3. s = <<>> /\ c.origin # NoCursor => c.cursor = c.origin
    BY DEF Following, ShownFits
  <2>4. n = 0 <=> s = <<>>
    BY <1>1, EmptySeq
  <2>5. n > 0 => EventFits(s, n, c)
    BY <1>1, <2>1
  <2>6. n > 0 => s[n].upto = c.cursor /\ s[n].kind = "output"
    BY <2>5 DEF EventFits
  <2> QED BY <1>1, <2>1, <2>2, <2>3, <2>4, <2>6
<1>4. /\ c.cursor # NoCursor => c.cursor \in Nat /\ c.cursor <= snap.start
      /\ c.cursor # NoCursor /\ ~MissedBy(c, snap) => snap.start = c.cursor
      /\ MissedBy(c, snap) => c.cursor \in Nat /\ c.cursor < snap.start
  BY <1>1 DEF Readable, Continues, Cursors, MissedBy
<1>5. /\ OutputOf(c, snap) = [kind |-> "output", from |-> snap.start, upto |-> e,
                             text |-> Written(c, snap)]
      /\ GapOf(c, snap) = [kind |-> "gap", from |-> c.cursor, upto |-> snap.start, text |-> <<>>]
  BY DEF OutputOf, GapOf
<1>6. CopiedAt(Written(c, snap), snap.start) /\ Len(Written(c, snap)) = z
  BY WrittenIs
<1>7. /\ \A i \in 1..n : s[i].from \in Nat /\ s[i].upto \in Nat
      /\ \A i \in 1..n : s[i].kind \in {"gap", "output"}
  <2>1. \A i \in 1..n : s[i] \in Events
    BY <1>1, ElementOfSeq
  <2> QED BY <2>1 DEF Events
<1> DEFINE g == IF MissedBy(c, snap) THEN 1 ELSE 0
<1> DEFINE last == OutputOf(c, snap)
<1>8. CASE z = 0
  <2>1. w = s /\ ~MissedBy(c, snap) /\ e = snap.start
    BY <1>1, <1>2, <1>8, <1>10
  <2>2. c.cursor # NoCursor => e = c.cursor
    BY <1>4, <2>1
  <2>3. n > 0 => c.cursor # NoCursor
    BY <1>3 DEF NoCursor
  <2>4. s # <<>> => n > 0
    BY <1>1, EmptySeq
  <2>5. s = <<>> => n = 0
    BY EmptySeq
  <2>6. \A i \in 1..n : EventFits(s, i, p)
    <3>1. n > 0 => p.cursor = c.cursor /\ p.origin = c.origin
      BY <1>1, <2>2, <2>3
    <3> QED BY <1>1, <1>3, <3>1 DEF EventFits
  <2>7. c.origin # NoCursor /\ n = 0 => e = c.origin
    BY <1>3, <2>2
  <2>8. \A i \in DOMAIN p.shown : EventFits(p.shown, i, p)
    BY <1>1, <2>1, <2>6
  <2>9. p.shown = s /\ p.cursor = e /\ p.origin = c.origin /\ e \in 0..Len(text)
    BY <1>1, <2>1
  <2> HIDE DEF p, w, n, z, e, s
  <2> QED BY <2>1, <2>4, <2>5, <2>7, <2>8, <2>9 DEF ShownFits, p
<1>9. CASE z > 0
  <2>1. /\ Len(w) = n + 1 + g /\ w[n + 1 + g] = last /\ g \in {0, 1}
        /\ g = 1 => w[n + 1] = GapOf(c, snap) /\ MissedBy(c, snap)
        /\ g = 0 => ~MissedBy(c, snap)
    <3>1. CASE MissedBy(c, snap)
      <4>1. g = 1 /\ n + 1 + g = n + 2
        BY <1>1, <3>1
      <4>2. Len(w) = n + 2 /\ w[n + 1] = GapOf(c, snap) /\ w[n + 2] = last
        BY <1>2, <1>9, <3>1
      <4> HIDE DEF g, w, z, n
      <4> QED BY <3>1, <4>1, <4>2
    <3>2. CASE ~MissedBy(c, snap)
      <4>1. g = 0 /\ n + 1 + g = n + 1
        BY <1>1, <3>2
      <4>2. Len(w) = n + 1 /\ w[n + 1] = last
        BY <1>2, <1>9, <3>2
      <4> HIDE DEF g, w, z, n
      <4> QED BY <3>2, <4>1, <4>2
    <3> QED BY <3>1, <3>2
  <2>2. w # <<>>
    <3>1. Len(w) > 0
      <4> HIDE DEF g, w, n
      <4> QED BY <1>1, <2>1
    <3> HIDE DEF w
    <3> QED BY <3>1, EmptySeq
  <2>3. /\ last.kind = "output" /\ last.from = snap.start /\ last.upto = e
        /\ last.text = Written(c, snap)
    BY <1>5
  <2> HIDE DEF p, w, n, z, e, g, last
  <2>4. ASSUME NEW i \in 1..n PROVE EventFits(w, i, p)
    <3>1. w[i] = s[i] /\ EventFits(s, i, c)
      BY <1>3, <1>10
    <3>2. s[i].upto <= e
      <4>1. n > 0 /\ c.cursor \in 0..Len(text) /\ c.cursor # NoCursor
        BY <1>1, <1>3 DEF NoCursor
      <4>2. s[i].upto <= c.cursor /\ s[i].upto \in Nat /\ c.cursor <= snap.start /\ snap.start <= e
        BY <1>1, <1>4, <1>7, <1>9, <3>1, <4>1 DEF EventFits, e
      <4> QED BY <1>1, <4>1, <4>2
    <3>3. i > 1 => w[i - 1] = s[i - 1]
      BY <1>1, <1>10
    <3>4. i # Len(w)
      BY <1>1, <2>1
    <3>5. w[i].kind = "gap" => i < Len(w) /\ w[i + 1].kind = "output"
      <4>1. s[i].kind = "gap" => i < n /\ s[i + 1].kind = "output"
        BY <1>1, <3>1 DEF EventFits
      <4>2. i < n => w[i + 1] = s[i + 1]
        BY <1>1, <1>10
      <4> QED BY <1>1, <2>1, <3>1, <4>1, <4>2
    <3> QED BY <1>1, <3>1, <3>2, <3>3, <3>4, <3>5 DEF EventFits
  <2>5. CASE g = 1
    <3>1. w[n + 1].kind = "gap" /\ w[n + 1].from = c.cursor /\ w[n + 1].upto = snap.start
      BY <1>5, <2>1, <2>5
    <3>2. EventFits(w, n + 1, p)
      <4>1. n + 1 > 1 => w[n + 1].from = w[(n + 1) - 1].upto
        <5>1. (n + 1) - 1 = n
          BY <1>1
        <5>2. n > 0 => w[n] = s[n]
          BY <1>1, <1>10
        <5> QED BY <1>1, <1>3, <3>1, <5>1, <5>2
      <4>2. n + 1 = 1 /\ c.origin # NoCursor => c.cursor = c.origin
        BY <1>1, <1>3
      <4>3. c.cursor < snap.start /\ snap.start <= e
        BY <1>1, <1>4, <2>1, <2>5 DEF e
      <4>4. n + 1 < Len(w) /\ w[n + 1 + 1].kind = "output"
        BY <1>1, <2>1, <2>3, <2>5
      <4>5. n + 1 # Len(w)
        BY <1>1, <2>1, <2>5
      <4>6. n \in Nat /\ c.cursor \in Nat /\ snap.start \in Nat /\ e \in Nat
        BY <1>1, <1>4, <2>1, <2>5
      <4>7. w[n + 1].from < w[n + 1].upto /\ w[n + 1].upto <= p.cursor
        BY <1>11, <3>1, <4>3
      <4>8. n + 1 = 1 /\ p.origin # NoCursor => w[n + 1].from = p.origin
        BY <1>11, <3>1, <4>2
      <4>9. w[n + 1].kind # "output"
        BY <3>1
      <4> QED BY <4>1, <4>4, <4>5, <4>7, <4>8, <4>9 DEF EventFits
    <3>3. EventFits(w, n + 2, p)
      <4>1. w[n + 2] = last /\ n + 2 = Len(w) /\ n + 2 - 1 = n + 1 /\ n + 2 > 1
        BY <1>1, <2>1, <2>5
      <4>2. last.from < last.upto /\ last.upto = p.cursor /\ last.from + z = last.upto
        BY <1>1, <1>9, <2>3 DEF e
      <4> QED BY <1>1, <1>6, <2>3, <3>1, <4>1, <4>2 DEF EventFits
    <3>4. 1..Len(w) = 1..n \union {n + 1, n + 2}
      BY <1>1, <2>1, <2>5
    <3>5. \A i \in 1..Len(w) : EventFits(w, i, p)
      BY <2>4, <3>2, <3>3, <3>4
    <3> QED BY <1>11, <2>2, <3>5 DEF ShownFits, p
  <2>6. CASE g = 0
    <3>1. EventFits(w, n + 1, p)
      <4>1. w[n + 1] = last /\ n + 1 = Len(w) /\ n + 1 - 1 = n
        BY <1>1, <2>1, <2>6
      <4>2. last.from < last.upto /\ last.upto = p.cursor /\ last.from + z = last.upto
        BY <1>1, <1>9, <2>3 DEF e
      <4>3. n + 1 > 1 => w[n] = s[n] /\ s[n].upto = last.from
        <5>1. n > 0 => c.cursor # NoCursor
          BY <1>3 DEF NoCursor
        <5> QED BY <1>1, <1>3, <1>4, <1>10, <2>1, <2>3, <2>6, <5>1
      <4>4. n + 1 = 1 /\ c.origin # NoCursor => last.from = c.origin
        BY <1>1, <1>3, <1>4, <2>1, <2>3, <2>6
      <4> QED BY <1>1, <1>6, <2>3, <4>1, <4>2, <4>3, <4>4 DEF EventFits
    <3>2. 1..Len(w) = 1..n \union {n + 1}
      BY <1>1, <2>1, <2>6
    <3>3. \A i \in 1..Len(w) : EventFits(w, i, p)
      BY <2>4, <3>1, <3>2
    <3> QED BY <1>11, <2>2, <3>3 DEF ShownFits, p
  <2> QED BY <2>1, <2>5, <2>6
<1> QED BY <1>1, <1>8, <1>9

\* A snapshot covers what is written of it, and nothing else anew.
LEMMA CoveredNext ==
  ASSUME ReadingTypes, NEW c, Following(c), NEW snap, Readable(c, snap), NEW j \in Int
  PROVE  Covered(Processed(c, snap), j) <=>
           Covered(c, j) \/ j \in (snap.start + 1)..(snap.start + SizeOf(c, snap))
<1> DEFINE p == Processed(c, snap)
           s == c.shown
           w == ShownNext(c, snap)
           n == Len(s)
           z == SizeOf(c, snap)
           e == snap.start + z
           gap == GapOf(c, snap)
           last == OutputOf(c, snap)
<1>0. p.shown = w /\ DOMAIN s = 1..n /\ DOMAIN w = 1..Len(w)
  BY ProcessedKeeps, ShownNextIs DEF Following, ClientStates
<1>1. n \in Nat /\ Len(w) \in Nat /\ z \in Nat /\ snap.start \in Nat
  BY ShownNextIs, SizeIs DEF Following, ClientStates, Readable, Snapshots
<1>9. \A i \in 1..n : w[i] = s[i]
  BY ShownNextIs
<1>10. z = 0 => w = s
  BY ShownNextIs
<1>11. z > 0 => \/ Len(w) = n + 1 /\ w[n + 1] = last
                \/ Len(w) = n + 2 /\ w[n + 1] = gap /\ w[n + 2] = last
  <2>1. CASE MissedBy(c, snap)
    BY <2>1, ShownNextIs, Zenon
  <2>2. CASE ~MissedBy(c, snap)
    BY <2>2, ShownNextIs, Zenon
  <2> QED BY <2>1, <2>2, Zenon
<1>2. last.kind = "output" /\ last.from = snap.start /\ last.upto = e /\ gap.kind # "output"
  BY DEF OutputOf, GapOf
<1>3. Covered(c, j) <=> \E k \in 1..n : s[k].kind = "output" /\ j \in (s[k].from + 1)..s[k].upto
  BY <1>0 DEF Covered
<1>4. Covered(p, j) <=>
        \E k \in 1..Len(w) : w[k].kind = "output" /\ j \in (w[k].from + 1)..w[k].upto
  BY <1>0 DEF Covered
<1>5. e = snap.start + z
  OBVIOUS
<1> HIDE DEF p, s, w, n, z, e, gap, last
<1>6. CASE z = 0
  <2>1. w = s /\ Len(w) = n /\ (snap.start + 1)..e = {}
    BY <1>1, <1>5, <1>6, <1>10 DEF n
  <2> QED BY <1>3, <1>4, <2>1 DEF p, e, z
<1>7. CASE z > 0
  <2>1. \E k \in 1..Len(w) : w[k] = last
    BY <1>1, <1>7, <1>11
  <2>2. \A k \in 1..Len(w) : k \in 1..n \/ w[k] = last \/ w[k] = gap
    BY <1>1, <1>7, <1>11
  <2>3. 1..n \subseteq 1..Len(w)
    BY <1>1, <1>7, <1>11
  <2>4. Covered(p, j) <=> Covered(c, j) \/ j \in (snap.start + 1)..e
    <3>1. ASSUME Covered(p, j) PROVE Covered(c, j) \/ j \in (snap.start + 1)..e
      <4>1. PICK k \in 1..Len(w) : w[k].kind = "output" /\ j \in (w[k].from + 1)..w[k].upto
        BY <1>4, <3>1
      <4>2. CASE k \in 1..n
        BY <1>3, <1>9, <4>1, <4>2
      <4>3. CASE w[k] = last
        BY <1>2, <4>1, <4>3
      <4> QED BY <1>2, <2>2, <4>1, <4>2, <4>3
    <3>2. ASSUME Covered(c, j) PROVE Covered(p, j)
      <4>1. PICK k \in 1..n : s[k].kind = "output" /\ j \in (s[k].from + 1)..s[k].upto
        BY <1>3, <3>2
      <4>2. w[k] = s[k] /\ k \in 1..Len(w)
        BY <1>9, <2>3
      <4> QED BY <1>4, <4>1, <4>2
    <3>3. ASSUME j \in (snap.start + 1)..e PROVE Covered(p, j)
      <4>1. PICK k \in 1..Len(w) : w[k] = last
        BY <2>1
      <4>2. w[k].kind = "output" /\ j \in (w[k].from + 1)..w[k].upto
        BY <1>2, <3>3, <4>1
      <4> QED BY <1>4, <4>2
    <3> QED BY <3>1, <3>2, <3>3
  <2> QED BY <2>4 DEF p, e, z
<1>8. z = 0 \/ z > 0
  BY <1>1
<1> QED BY <1>6, <1>7, <1>8

\* The tail after a snapshot.
LEMMA TailStillFits ==
  ASSUME ReadingTypes, NEW c, Following(c), NEW snap, Readable(c, snap)
  PROVE  TailFitsIn(Processed(c, snap))
<1> DEFINE p == Processed(c, snap)
           a == TailAfter(c, snap)
           b == Written(c, snap)
           t == Len(a)
           z == SizeOf(c, snap)
           e == snap.start + z
           m == Len(Marker) - 1
           j0 == snap.start - t
<1>1. p.tail = TailNext(c, snap) /\ p.cursor = e /\ p.until = c.until
  BY ProcessedKeeps
<1>2. /\ a \in Texts /\ b \in Texts /\ Len(b) = z /\ t <= snap.start
      /\ CopiedAt(a, snap.start - t) /\ CopiedAt(b, snap.start)
      /\ z \in Nat /\ snap.start \in Nat /\ t \in Nat /\ m \in Nat
      /\ text \in Texts
  BY TailAfterIs, WrittenIs, SizeIs, MarkerIs DEF Readable, Snapshots, Texts, ReadingTypes
<1>3. CASE c.until = Nothing
  <2>1. p.tail = <<>> /\ p.until = Nothing
    BY <1>1, <1>3 DEF TailNext
  <2> QED BY <2>1 DEF TailFitsIn
<1>4. CASE c.until # Nothing
  <2> DEFINE u == a \o b
             w == Newest(u, m)
             q == Smaller(m, t + z)
  <2>1. u \in Texts /\ Len(u) = t + z /\ CopiedAt(u, snap.start - t)
    BY <1>2, JoinedIs
  <2>2. c.until = Marker /\ p.tail = w
    BY <1>1, <1>4, FoundIs DEF TailNext
  <2>3. w \in Texts /\ Len(w) = q /\ \A j \in 1..q : w[j] = u[(t + z) - q + j]
    <3>1. u \in Seq(Chars) /\ m \in Nat /\ Len(u) = t + z
      BY <1>2, <2>1 DEF Texts
    <3> HIDE DEF u, m, t, z
    <3>2. /\ Newest(u, m) \in Seq(Chars) /\ Len(Newest(u, m)) = Smaller(m, Len(u))
          /\ \A j \in 1..Smaller(m, Len(u)) :
               Newest(u, m)[j] = u[Len(u) - Smaller(m, Len(u)) + j]
      BY <3>1, NewestIs
    <3> QED BY <3>1, <3>2 DEF Texts
  <2>4. q \in Nat /\ q <= m /\ q <= t + z /\ (q < m => q = t + z) /\ m < Len(Marker)
        /\ Len(Marker) \in Nat
    BY <1>2, MarkerIs DEF Smaller
  <2>5. e - q >= 0 /\ e - q >= snap.start - t /\ e = snap.start + z
    BY <1>2, <2>4
  <2>6. CopiedAt(w, e - q)
    <3>1. /\ \A j \in 1..(t + z) : u[j] = text[(snap.start - t) + j]
          /\ (snap.start - t) + (t + z) <= Len(text) /\ Len(text) \in Nat
      BY <1>2, <2>1 DEF CopiedAt, Texts
    <3> HIDE DEF u, w, q, t, z, m, e
    <3>2. ASSUME NEW j \in 1..q PROVE w[j] = text[(e - q) + j]
      <4>1. (t + z) - q + j \in 1..(t + z)
        BY <1>2, <2>4
      <4>2. (snap.start - t) + ((t + z) - q + j) = (e - q) + j
        BY <1>2, <2>4, <2>5
      <4>3. w[j] = u[(t + z) - q + j]
        BY <2>3
      <4>4. u[(t + z) - q + j] = text[(snap.start - t) + ((t + z) - q + j)]
        BY <3>1, <4>1
      <4> QED BY <4>2, <4>3, <4>4
    <3>3. (e - q) + q <= Len(text)
      BY <1>2, <2>4, <2>5, <3>1
    <3> QED BY <2>3, <3>2, <3>3 DEF CopiedAt
  <2>7. ASSUME NEW j \in (e - q + 1)..e PROVE Covered(p, j)
    <3>1. j \in Int /\ (j \in (snap.start - t + 1)..snap.start \/ j \in (snap.start + 1)..e)
      BY <1>2, <2>4, <2>5, <2>7
    <3>2. j \in (snap.start - t + 1)..snap.start => Covered(c, j)
      BY <1>4, TailAfterIs
    <3> QED BY <3>1, <3>2, CoveredNext
  <2>8. ASSUME q < m PROVE ~Covered(p, e - q)
    <3>1. e - q = snap.start - t /\ t < m
      BY <1>2, <2>4, <2>5, <2>8
    <3>2. ~Covered(c, snap.start - t)
      BY <1>4, <3>1, TailAfterIs
    <3>3. snap.start - t \notin (snap.start + 1)..e /\ snap.start - t \in Int
      BY <1>2
    <3>4. Covered(p, snap.start - t) <=>
            Covered(c, snap.start - t) \/ snap.start - t \in (snap.start + 1)..e
      BY <3>3, CoveredNext
    <3> QED BY <3>1, <3>2, <3>3, <3>4
  <2>9. q < Len(Marker) /\ (q < Len(Marker) - 1 => q < m)
    BY <2>4
  <2> HIDE DEF p, w, q, e
  <2> QED BY <1>1, <2>2, <2>3, <2>5, <2>6, <2>7, <2>8, <2>9 DEF TailFitsIn, p
<1> QED BY <1>3, <1>4

\* A marker that ends in what was written is the one that was found, and one that was
\* found is shown whole.
LEMMA MarkersStillFit ==
  ASSUME ReadingTypes, NEW c, Following(c), NEW snap, Readable(c, snap)
  PROVE  MarkersFit(Processed(c, snap))
<1> DEFINE p == Processed(c, snap)
           a == TailAfter(c, snap)
           o == snap.output
           t == Len(a)
           z == SizeOf(c, snap)
           x == snap.start
           e == x + z
           m == Len(Marker)
           f == FoundIn(c, snap)
           u == a \o o
           n == Len(o)
<1>1. /\ a \in Texts /\ o \in Texts /\ t <= x
      /\ CopiedAt(a, x - t) /\ CopiedAt(o, x)
      /\ z \in Nat /\ x \in Nat /\ t \in Nat /\ m \in Nat \ {0} /\ n \in Nat /\ f \in Nat
      /\ z <= n
      /\ text \in Texts /\ Marker \in Texts /\ Len(text) \in Nat
  BY TailAfterIs, SizeIs, MarkerIs DEF Readable, Snapshots, Texts, ReadingTypes
<1>2. u \in Texts /\ Len(u) = t + n /\ CopiedAt(u, x - t)
  BY <1>1, JoinedIs
<1>3. /\ \A j \in 1..(t + n) : u[j] = text[(x - t) + j]
      /\ x + n <= Len(text)
  BY <1>1, <1>2 DEF CopiedAt
<1>4. /\ p.cursor = e /\ p.until = c.until /\ p.reason = ReasonNext(c, snap)
      /\ p.reason = "matched" <=> MatchedBy(c, snap)
  BY ProcessedKeeps DEF ReasonNext
<1>5. \A j \in Int : Covered(c, j) => 1 <= j /\ j <= x
  BY TailAfterIs
<1>6. \A j \in Int : Covered(p, j) <=> Covered(c, j) \/ j \in (x + 1)..e
  BY CoveredNext
<1>7. SUFFICES ASSUME c.until # Nothing, NEW i \in 1..Len(text)
               PROVE  MarkerShownAt(p, i) <=> MatchedBy(c, snap) /\ i = e
  BY <1>4 DEF MarkersFit
<1>8. /\ t < m
      /\ \A j \in (x - t + 1)..x : Covered(c, j)
      /\ t < m - 1 => ~Covered(c, x - t)
  BY <1>7, TailAfterIs
<1>9. /\ f # 0 => /\ f \in EndsOf(Marker, u)
                  /\ \A j \in EndsOf(Marker, u) : f <= j
                  /\ m <= f /\ f > t
      /\ f = 0 => EndsOf(Marker, u) = {}
  BY <1>7, FoundIs
<1>10. /\ f # 0 => z <= f - t
       /\ MatchedBy(c, snap) <=> f # 0 /\ f - t <= z
  BY <1>9, SizeIs DEF MatchedBy
<1>11. ~MarkerShownAt(c, i)
  BY <1>7 DEF Following, MarkersFit
<1>12. \A k \in Int : k \in EndsOf(Marker, u) <=>
         m <= k /\ k <= t + n /\ \A j \in 1..m : u[(k - m) + j] = Marker[j]
  <2> HIDE DEF u, m
  <2>1. \A k \in Int : k \in EndsOf(Marker, u) <=>
          /\ Len(Marker) <= k /\ k <= Len(u)
          /\ \A j \in 1..Len(Marker) : u[k - Len(Marker) + j] = Marker[j]
    BY <1>1, <1>2, EndsOfIs DEF Texts
  <2> QED BY <1>2, <2>1 DEF m
<1>13. \A k \in Int : k \in EndsOf(Marker, text) <=>
         m <= k /\ k <= Len(text) /\ \A j \in 1..m : text[(k - m) + j] = Marker[j]
  <2> HIDE DEF m
  <2>1. \A k \in Int : k \in EndsOf(Marker, text) <=>
          /\ Len(Marker) <= k /\ k <= Len(text)
          /\ \A j \in 1..Len(Marker) : text[k - Len(Marker) + j] = Marker[j]
    BY <1>1, EndsOfIs DEF Texts
  <2> QED BY <2>1 DEF m
<1>14. \A k : MarkerShownAt(p, k) <=>
         k \in EndsOf(Marker, text) /\ \A j \in (k - m + 1)..k : Covered(p, j)
  BY DEF MarkerShownAt
<1>15. \A k : MarkerShownAt(c, k) <=>
         k \in EndsOf(Marker, text) /\ \A j \in (k - m + 1)..k : Covered(c, j)
  BY DEF MarkerShownAt
<1>16. e = x + z /\ i \in Nat /\ i <= Len(text)
  BY <1>1
<1> HIDE DEF p, a, o, t, z, x, e, m, f, u, n
<1>17. ASSUME MatchedBy(c, snap), i = e PROVE MarkerShownAt(p, i)
  <2>1. /\ f # 0 /\ f - t = z /\ m <= f /\ f <= t + n
        /\ \A j \in 1..m : u[(f - m) + j] = Marker[j]
    BY <1>1, <1>9, <1>10, <1>12, <1>17
  <2>2. ASSUME NEW j \in 1..m PROVE text[(i - m) + j] = Marker[j]
    <3>1. (f - m) + j \in 1..(t + n)
      BY <1>1, <2>1
    <3>2. (x - t) + ((f - m) + j) = (i - m) + j
      BY <1>1, <1>16, <1>17, <2>1
    <3>3. u[(f - m) + j] = text[(x - t) + ((f - m) + j)]
      BY <1>3, <3>1
    <3> QED BY <2>1, <3>2, <3>3
  <2>3. i \in EndsOf(Marker, text)
    <3>1. m <= i /\ i <= Len(text) /\ i \in Int
      BY <1>1, <1>3, <1>16, <1>17, <2>1
    <3> QED BY <1>13, <2>2, <3>1
  <2>4. ASSUME NEW j \in (i - m + 1)..i PROVE Covered(p, j)
    <3>1. j \in Int /\ (j \in (x - t + 1)..x \/ j \in (x + 1)..e)
      BY <1>1, <1>16, <1>17, <2>1
    <3> QED BY <1>6, <1>8, <3>1
  <2> QED BY <1>14, <2>3, <2>4
<1>18. ASSUME MarkerShownAt(p, i) PROVE MatchedBy(c, snap) /\ i = e
  <2>1. i \in EndsOf(Marker, text) /\ \A j \in (i - m + 1)..i : Covered(p, j)
    BY <1>14, <1>18
  <2>2. i > x
    <3>1. SUFFICES ASSUME i <= x PROVE FALSE
      BY <1>1, <1>16
    <3>2. ASSUME NEW j \in (i - m + 1)..i PROVE Covered(c, j)
      <4>1. j \in Int /\ j \notin (x + 1)..e
        BY <1>1, <1>16, <3>1
      <4> QED BY <1>6, <2>1, <4>1
    <3> QED BY <1>11, <1>15, <2>1, <3>2
  <2>3. i <= e
    <3>1. i \in Int /\ i \in (i - m + 1)..i
      BY <1>1, <1>16
    <3>2. Covered(p, i)
      BY <2>1, <3>1
    <3>3. ~Covered(c, i)
      BY <1>1, <1>5, <2>2, <3>1
    <3>4. i \in (x + 1)..e
      BY <1>6, <3>1, <3>2, <3>3
    <3> QED BY <1>1, <1>16, <3>4
  <2>4. i - m >= x - t
    <3>1. SUFFICES ASSUME i - m < x - t PROVE FALSE
      BY <1>1, <1>16
    <3>2. t < m - 1 /\ x - t \in (i - m + 1)..i /\ x - t \in Int /\ x - t \notin (x + 1)..e
      BY <1>1, <1>16, <2>2, <3>1
    <3> QED BY <1>6, <1>8, <2>1, <3>2
  <2> DEFINE k == i - (x - t)
  <2>5. k \in Int /\ m <= k /\ k <= t + n /\ i = (x - t) + k
    BY <1>1, <1>16, <2>2, <2>3, <2>4
  <2> HIDE DEF k
  <2>6. \A j \in 1..m : text[(i - m) + j] = Marker[j]
    BY <1>13, <1>16, <2>1
  <2>7. ASSUME NEW j \in 1..m PROVE u[(k - m) + j] = Marker[j]
    <3>1. (k - m) + j \in 1..(t + n) /\ (x - t) + ((k - m) + j) = (i - m) + j
      BY <1>1, <1>16, <2>5
    <3>2. u[(k - m) + j] = text[(x - t) + ((k - m) + j)]
      BY <1>3, <3>1
    <3> QED BY <2>6, <3>1, <3>2
  <2>8. k \in EndsOf(Marker, u)
    BY <1>12, <2>5, <2>7
  <2>9. f # 0 /\ f <= k /\ z <= f - t
    BY <1>9, <1>10, <2>8
  <2>10. f - t <= z /\ i = e
    BY <1>1, <1>16, <2>3, <2>5, <2>9
  <2> QED BY <1>10, <2>9, <2>10
<1> QED BY <1>17, <1>18
-----------------------------------------------------------------------------
(* The steps *)

\* What depends on the text alone stays as long as the text does.
LEMMA SameText ==
  ASSUME text' = text, NEW c
  PROVE  /\ client' = c => /\ ShownFits(client)' = ShownFits(c)
                           /\ TailFitsIn(client)' = TailFitsIn(c)
                           /\ MarkersFit(client)' = MarkersFit(c)
         /\ UNCHANGED wait => AnswerInv' = AnswerInv
<1>1. ASSUME client' = c
      PROVE  /\ ShownFits(client)' = ShownFits(c)
             /\ TailFitsIn(client)' = TailFitsIn(c)
             /\ MarkersFit(client)' = MarkersFit(c)
  <2>1. ShownFits(client)' = ShownFits(c)
    BY <1>1, Zenon DEF ShownFits, EventFits, CopiedAt
  <2>2. TailFitsIn(client)' = TailFitsIn(c)
    BY <1>1, Zenon DEF TailFitsIn, Covered, CopiedAt
  <2>3. MarkersFit(client)' = MarkersFit(c)
    BY <1>1, Zenon DEF MarkersFit, MarkerShownAt, Covered, EndsOf
  <2> QED BY <2>1, <2>2, <2>3, Zenon
<1>2. ASSUME UNCHANGED wait PROVE AnswerInv' = AnswerInv
  BY <1>2, Zenon DEF AnswerInv, Continues, CopiedAt
<1> QED BY <1>1, <1>2, Zenon

\* Two clients that have shown the same.
LEMMA SameShown ==
  ASSUME NEW c, NEW d, d.shown = c.shown, d.cursor = c.cursor, d.origin = c.origin,
         d.until = c.until, d.tail = c.tail
  PROVE  /\ ShownFits(c) => ShownFits(d)
         /\ TailFitsIn(c) => TailFitsIn(d)
         /\ \A i : MarkerShownAt(d, i) <=> MarkerShownAt(c, i)
<1>1. \A j : Covered(d, j) <=> Covered(c, j)
  BY DEF Covered
<1>2. \A i : MarkerShownAt(d, i) <=> MarkerShownAt(c, i)
  BY <1>1, Zenon DEF MarkerShownAt
<1>3. ASSUME TailFitsIn(c) PROVE TailFitsIn(d)
  BY <1>1, <1>3, Zenon DEF TailFitsIn
<1>4. ASSUME ShownFits(c) PROVE ShownFits(d)
  <2>1. \A i \in DOMAIN c.shown : EventFits(c.shown, i, c)
    BY <1>4 DEF ShownFits
  <2>2. \A i \in DOMAIN c.shown : EventFits(c.shown, i, d)
    BY <2>1, Zenon DEF EventFits
  <2> QED BY <1>4, <2>2, Zenon DEF ShownFits
<1> QED BY <1>2, <1>3, <1>4

LEMMA NoWaitIs == NoWait \in WaitStates /\ NoWait.pc = "none"
<1>1. <<>> \in Texts /\ Nothing \in {Nothing, Marker}
  BY DEF Texts
<1> QED BY <1>1 DEF NoWait, WaitStates, Snapshots

LEMMA StartWaitIs ==
  ASSUME NEW from \in Nat, NEW needle \in {Nothing, Marker}
  PROVE  /\ StartWait(from, needle) \in WaitStates
         /\ StartWait(from, needle).pc = "arm" /\ StartWait(from, needle).from = from
<1> DEFINE n == NoWait
<1>1. n \in WaitStates
  BY NoWaitIs
<1>2. StartWait(from, needle) = [n EXCEPT !.pc = "arm", !.from = from, !.needle = needle]
  BY DEF StartWait
<1> HIDE DEF n
<1> QED BY <1>1, <1>2 DEF WaitStates

LEMMA IdleIs ==
  /\ Idle \in ClientStates
  /\ Idle.pc = "idle" /\ Idle.job = "none" /\ Idle.emitted = 0 /\ Idle.tail = <<>>
  /\ Idle.finish = FALSE /\ Idle.shown = <<>> /\ Idle.reason = "none"
<1>1. <<>> \in Texts /\ <<>> \in Seq(Events) /\ Nothing \in {Nothing, Marker}
      /\ NoCursor \in Cursors
  BY DEF Texts, Cursors
<1> QED BY <1>1 DEF Idle, ClientStates

LEMMA FollowBegins == InitReading => FollowInv
<1> SUFFICES ASSUME InitReading PROVE FollowInv
  OBVIOUS
<1>1. ReadingTypes
  <2>1. text \in Texts /\ Len(text) = 0
    BY EmptySeq DEF InitReading, Texts
  <2>2. Retained \in Nat
    BY ReadingAssumption
  <2>3. /\ dropped = Larger(Len(text) - Retained, 0)
        /\ connected \in BOOLEAN /\ marked \in 0..Len(text)
    BY <2>1, <2>2 DEF InitReading, Larger
  <2> QED BY <2>1, <2>3, IdleIs, NoWaitIs DEF InitReading, ReadingTypes
<1>2. AnswerInv
  BY NoWaitIs DEF InitReading, AnswerInv
<1>3. FollowControl /\ client.job = "none"
  BY IdleIs DEF InitReading, FollowControl
<1> QED BY <1>1, <1>2, <1>3 DEF FollowInv, ShownInv

\* What was shown stays what the text holds when the text grows.
LEMMA TextGrows ==
  ASSUME FollowInv, text' \in Texts, Len(text') >= Len(text),
         \A j \in 1..Len(text) : text'[j] = text[j], UNCHANGED <<wait, client>>
  PROVE  AnswerInv' /\ ShownInv'
<1> DEFINE N == Len(text)
           M == Len(text')
<1>1. N \in Nat /\ M \in Nat /\ N <= M /\ text \in Texts
  BY DEF FollowInv, ReadingTypes, Texts
<1>2. ASSUME NEW s \in Texts, NEW from \in Nat, CopiedAt(s, from)
      PROVE  /\ from + Len(s) <= M
             /\ \A j \in 1..Len(s) : s[j] = text'[from + j]
  <2>1. Len(s) \in Nat /\ from + Len(s) <= N /\ \A j \in 1..Len(s) : s[j] = text[from + j]
    BY <1>2 DEF CopiedAt, Texts
  <2>2. \A j \in 1..Len(s) : from + j \in 1..N
    BY <1>1, <2>1
  <2>3. \A j \in 1..Len(s) : s[j] = text'[from + j]
    BY <2>1, <2>2
  <2> QED BY <1>1, <2>1, <2>3
<1>3. AnswerInv'
  <2>1. SUFFICES ASSUME wait.pc = "status" \/ (wait.pc = "answered" /\ wait.ok)
                 PROVE  Continues(wait.snap, wait.from)'
    BY Zenon DEF AnswerInv
  <2>2. Continues(wait.snap, wait.from)
    BY <2>1, Zenon DEF FollowInv, AnswerInv
  <2>3. wait.snap.output \in Texts /\ wait.snap.start \in Nat
    BY DEF FollowInv, ReadingTypes, WaitStates, Snapshots
  <2>4. wait.snap.start + Len(wait.snap.output) <= M
        /\ \A j \in 1..Len(wait.snap.output) : wait.snap.output[j] = text'[wait.snap.start + j]
    BY <1>2, <2>2, <2>3 DEF Continues
  <2> QED BY <2>2, <2>4, Zenon DEF Continues, CopiedAt
<1>4. SUFFICES ASSUME client.job = "follow" PROVE ShownInv'
  BY <1>3 DEF FollowInv, ShownInv
<1> DEFINE c == client
<1>5. /\ ShownFits(c) /\ MarkersFit(c) /\ (c.reason = "none" => TailFitsIn(c))
      /\ (c.reason = "matched" /\ c.until # Nothing => c.cursor \in 1..N)
  BY <1>4, Zenon DEF FollowInv, ShownInv
<1>6. c \in ClientStates /\ c.shown \in Seq(Events) /\ DOMAIN c.shown = 1..Len(c.shown)
      /\ c.tail \in Texts /\ c.cursor \in Cursors
  BY DEF FollowInv, ReadingTypes, ClientStates
<1>7. c' = c
  OBVIOUS
<1>8. ShownFits(client)'
  <2>1. ASSUME NEW i \in DOMAIN c.shown, c.shown[i].kind = "output"
        PROVE  /\ c.shown[i].from + Len(c.shown[i].text) <= M
               /\ \A j \in 1..Len(c.shown[i].text) :
                    c.shown[i].text[j] = text'[c.shown[i].from + j]
    <3>1. c.shown[i] \in Events
      BY <1>6, ElementOfSeq
    <3>2. c.shown[i].from \in Nat /\ c.shown[i].text \in Texts
      BY <3>1 DEF Events
    <3>3. CopiedAt(c.shown[i].text, c.shown[i].from)
      BY <1>5, <2>1, Zenon DEF ShownFits, EventFits
    <3> QED BY <1>2, <3>2, <3>3
  <2>2. ASSUME NEW i \in DOMAIN c.shown PROVE EventFits(client.shown, i, client)'
    <3>1. EventFits(c.shown, i, c)
      BY <1>5 DEF ShownFits
    <3> QED BY <2>1, <3>1, Zenon DEF EventFits, CopiedAt
  <2>3. c.shown # <<>> => c.cursor \in 0..M
    BY <1>1, <1>5 DEF ShownFits
  <2> QED BY <1>5, <1>7, <2>2, <2>3, Zenon DEF ShownFits
<1>9. ASSUME c.reason = "none" PROVE TailFitsIn(client)'
  <2>1. TailFitsIn(c)
    BY <1>5, <1>9
  <2>2. c.tail # <<>> =>
          /\ c.cursor - Len(c.tail) >= 0
          /\ c.cursor - Len(c.tail) + Len(c.tail) <= M
          /\ \A j \in 1..Len(c.tail) : c.tail[j] = text'[c.cursor - Len(c.tail) + j]
    <3>1. ASSUME c.tail # <<>>
          PROVE  CopiedAt(c.tail, c.cursor - Len(c.tail)) /\ c.cursor - Len(c.tail) \in Nat
      <4>1. c.cursor - Len(c.tail) >= 0 /\ CopiedAt(c.tail, c.cursor - Len(c.tail))
        BY <2>1, <3>1 DEF TailFitsIn
      <4>2. c.cursor \in Int /\ Len(c.tail) \in Nat
        BY <1>6 DEF Cursors, NoCursor, Texts
      <4> QED BY <4>1, <4>2
    <3>2. ASSUME c.tail # <<>>
          PROVE  /\ c.cursor - Len(c.tail) + Len(c.tail) <= M
                 /\ \A j \in 1..Len(c.tail) : c.tail[j] = text'[c.cursor - Len(c.tail) + j]
      BY <1>2, <1>6, <3>1, <3>2
    <3> QED BY <2>1, <3>2 DEF TailFitsIn
  <2>3. \A j : Covered(client, j)' = Covered(c, j)
    BY Zenon DEF Covered
  <2> QED BY <2>1, <2>2, <2>3, Zenon DEF TailFitsIn, CopiedAt
<1>10. MarkersFit(client)'
  <2>1. SUFFICES ASSUME c.until # Nothing, NEW i \in 1..M
                 PROVE  MarkerShownAt(client, i)' <=> c.reason = "matched" /\ i = c.cursor
    BY Zenon DEF MarkersFit
  <2>2. \A j : Covered(client, j)' = Covered(c, j)
    BY Zenon DEF Covered
  <2>3. Len(Marker) \in Nat \ {0} /\ i \in Nat /\ Marker \in Seq(Chars)
        /\ text \in Seq(Chars) /\ text' \in Seq(Chars)
    BY <1>1, MarkerIs DEF Texts
  <2>4. CASE i <= N
    <3>1. i \in EndsOf(Marker, text') <=> i \in EndsOf(Marker, text)
      <4>1. i \in EndsOf(Marker, text') <=>
              /\ Len(Marker) <= i /\ i <= M
              /\ \A j \in 1..Len(Marker) : text'[i - Len(Marker) + j] = Marker[j]
        <5>1. PICK s \in Seq(Chars) : s = text'
          BY <2>3
        <5>2. i \in EndsOf(Marker, s) <=>
                /\ Len(Marker) <= i /\ i <= Len(s)
                /\ \A j \in 1..Len(Marker) : s[i - Len(Marker) + j] = Marker[j]
          BY <2>3, EndsOfIs
        <5> QED BY <5>1, <5>2, Zenon
      <4>2. i \in EndsOf(Marker, text) <=>
              /\ Len(Marker) <= i /\ i <= N
              /\ \A j \in 1..Len(Marker) : text[i - Len(Marker) + j] = Marker[j]
        BY <2>3, EndsOfIs
      <4>3. Len(Marker) <= i => \A j \in 1..Len(Marker) : i - Len(Marker) + j \in 1..N
        BY <2>3, <2>4
      <4>4. Len(Marker) <= i =>
              \A j \in 1..Len(Marker) : text'[i - Len(Marker) + j] = text[i - Len(Marker) + j]
        BY <4>3
      <4>5. i <= M
        BY <1>1, <2>3, <2>4
      <4>6. CASE Len(Marker) <= i
        <5>1. (\A j \in 1..Len(Marker) : text'[i - Len(Marker) + j] = Marker[j])
                <=> (\A j \in 1..Len(Marker) : text[i - Len(Marker) + j] = Marker[j])
          BY <4>4, <4>6, Zenon
        <5> QED BY <2>4, <4>1, <4>2, <4>5, <4>6, <5>1, Zenon
      <4>7. CASE ~(Len(Marker) <= i)
        BY <4>1, <4>2, <4>7, Zenon
      <4> QED BY <4>6, <4>7
    <3>2. MarkerShownAt(client, i)' = MarkerShownAt(c, i)
      BY <2>2, <3>1, Zenon DEF MarkerShownAt
    <3>3. i \in 1..N
      BY <1>1, <2>3, <2>4
    <3> QED BY <1>5, <2>1, <3>2, <3>3, Zenon DEF MarkersFit
  <2>5. CASE i > N
    <3>1. ~Covered(c, i)
      <4>1. SUFFICES ASSUME NEW k \in DOMAIN c.shown, i <= c.shown[k].upto, i > c.shown[k].from
                     PROVE  FALSE
        <5>1. \A k \in DOMAIN c.shown : c.shown[k].from \in Nat /\ c.shown[k].upto \in Nat
          <6>1. \A k \in DOMAIN c.shown : c.shown[k] \in Events
            BY <1>6, ElementOfSeq
          <6> QED BY <6>1 DEF Events
        <5> QED BY <2>3, <5>1 DEF Covered
      <4>2. c.shown # <<>> /\ c.shown[k].upto <= c.cursor /\ c.shown[k].upto \in Nat
        <5>1. EventFits(c.shown, k, c)
          BY <1>5, <4>1 DEF ShownFits
        <5>2. c.shown[k] \in Events
          BY <1>6, <4>1, ElementOfSeq
        <5>3. c.shown # <<>>
          BY <4>1
        <5>4. c.shown[k].upto \in Nat
          BY <5>2 DEF Events
        <5> QED BY <5>1, <5>3, <5>4, Zenon DEF EventFits
      <4>3. c.cursor \in 0..N
        BY <1>5, <4>2 DEF ShownFits
      <4> QED BY <1>1, <2>3, <2>5, <4>1, <4>2, <4>3
    <3>2. ~Covered(client, i)'
      BY <2>2, <3>1, Zenon
    <3>3. i \in (i - Len(Marker) + 1)..i
      BY <2>3
    <3>4. ~MarkerShownAt(client, i)'
      BY <3>2, <3>3, Zenon DEF MarkerShownAt
    <3>5. ~(c.reason = "matched" /\ i = c.cursor)
      BY <1>1, <1>5, <2>1, <2>5
    <3> QED BY <3>4, <3>5, Zenon
  <2> QED BY <1>1, <2>3, <2>4, <2>5
<1>11. c.reason = "matched" /\ c.until # Nothing => c.cursor \in 1..M
  BY <1>1, <1>5
<1> QED BY <1>7, <1>8, <1>9, <1>10, <1>11, Zenon DEF FollowInv, ShownInv

\* Steps of the session: only the text may change what was shown, and it grows.
LEMMA SessionKeepsFollow ==
  ASSUME FollowInv,
         (\E piece \in Pieces : AppendOutput(piece)) \/ MarkDisconnected \/ NotifyWaiters
  PROVE  FollowInv'
<1>1. ASSUME NEW piece \in Pieces, AppendOutput(piece) PROVE FollowInv'
  <2>1. /\ text' = text \o piece /\ dropped' = Larger(dropped, Len(text') - Retained)
        /\ UNCHANGED <<connected, marked, wait, client>>
    BY <1>1 DEF AppendOutput
  <2>2. /\ text \in Seq(Chars) /\ piece \in Seq(Chars) /\ Len(text) \in Nat /\ Len(piece) \in Nat
        /\ Retained \in Nat /\ marked \in 0..Len(text) /\ dropped = Larger(Len(text) - Retained, 0)
    BY ReadingAssumption DEF FollowInv, ReadingTypes, Texts
  <2>3. /\ text \o piece \in Seq(Chars) /\ Len(text \o piece) = Len(text) + Len(piece)
        /\ \A j \in 1..(Len(text) + Len(piece)) :
             (text \o piece)[j] = IF j <= Len(text) THEN text[j] ELSE piece[j - Len(text)]
    BY <2>2, ConcatProperties
  <2>4. PICK u : u = text \o piece
    OBVIOUS
  <2>5. /\ u \in Seq(Chars) /\ Len(u) = Len(text) + Len(piece)
        /\ \A j \in 1..Len(text) : u[j] = text[j]
    BY <2>2, <2>3, <2>4
  <2>6. /\ text' = u /\ text' \in Texts /\ Len(text') >= Len(text) /\ Len(text') \in Nat
        /\ \A j \in 1..Len(text) : text'[j] = text[j]
    BY <2>1, <2>2, <2>4, <2>5 DEF Texts
  <2>7. AnswerInv' /\ ShownInv'
    BY <2>1, <2>6, TextGrows
  <2>8. dropped' = Larger(Len(text') - Retained, 0) /\ marked' \in 0..Len(text')
    BY <2>1, <2>2, <2>6 DEF Larger
  <2>9. ReadingTypes'
    BY <2>1, <2>6, <2>8 DEF FollowInv, ReadingTypes
  <2>10. FollowControl'
    <3>1. client.cursor \in 0..Len(text) => client.cursor \in 0..Len(text')
      BY <2>2, <2>6
    <3> QED BY <2>1, <3>1, Zenon DEF FollowInv, FollowControl
  <2> QED BY <2>7, <2>9, <2>10, Zenon DEF FollowInv, ShownInv
<1>2. CASE MarkDisconnected
  <2>1. /\ connected /\ connected' = FALSE /\ marked' = Len(text)
        /\ UNCHANGED <<text, dropped, wait, client>>
    BY <1>2 DEF MarkDisconnected
  <2>2. ReadingTypes'
    <3>1. marked' \in 0..Len(text')
      BY <2>1 DEF FollowInv, ReadingTypes, Texts
    <3> QED BY <2>1, <3>1 DEF FollowInv, ReadingTypes
  <2>3. FollowControl'
    BY <2>1, Zenon DEF FollowInv, FollowControl
  <2>4. AnswerInv' /\ ShownInv'
    BY <2>1, SameText, Zenon DEF FollowInv, ShownInv
  <2> QED BY <2>2, <2>3, <2>4, Zenon DEF FollowInv, ShownInv
<1>3. CASE NotifyWaiters
  <2>1. /\ wait' = [wait EXCEPT !.notified = wait.pc \in {"read", "status", "asleep"}]
        /\ UNCHANGED <<text, dropped, connected, marked, client>>
    BY <1>3 DEF NotifyWaiters
  <2>2. /\ wait' \in WaitStates /\ wait'.pc = wait.pc /\ wait'.from = wait.from
        /\ wait'.ok = wait.ok /\ wait'.snap = wait.snap
    <3> DEFINE b == wait.pc \in {"read", "status", "asleep"}
    <3>1. b \in BOOLEAN /\ wait' = [wait EXCEPT !.notified = b]
      BY <2>1
    <3> HIDE DEF b
    <3> QED BY <3>1 DEF FollowInv, ReadingTypes, WaitStates
  <2>3. ReadingTypes'
    BY <2>1, <2>2 DEF FollowInv, ReadingTypes
  <2>4. FollowControl'
    BY <2>1, <2>2, Zenon DEF FollowInv, FollowControl
  <2>5. AnswerInv'
    BY <2>1, <2>2, Zenon DEF FollowInv, AnswerInv, Continues, CopiedAt
  <2>6. ShownInv'
    BY <2>1, SameText, Zenon DEF FollowInv, ShownInv
  <2> QED BY <2>3, <2>4, <2>5, <2>6, Zenon DEF FollowInv, ShownInv
<1> QED BY <1>1, <1>2, <1>3

\* A step that changes only the wait, to one that asks for the same.
LEMMA WaitOnly ==
  ASSUME FollowInv, UNCHANGED <<sessionVars, client>>,
         wait' \in WaitStates, wait'.from = wait.from,
         wait'.pc = "status" \/ (wait'.pc = "answered" /\ wait'.ok) =>
           Continues(wait'.snap, wait'.from)
  PROVE  FollowInv'
<1>1. UNCHANGED <<text, dropped, connected, marked, client>>
  BY DEF sessionVars
<1>2. ReadingTypes'
  BY <1>1 DEF FollowInv, ReadingTypes
<1>3. FollowControl'
  BY <1>1, Zenon DEF FollowInv, FollowControl
<1>4. AnswerInv'
  BY <1>1, Zenon DEF AnswerInv, Continues, CopiedAt
<1>5. ShownInv'
  BY <1>1, SameText, Zenon DEF FollowInv, ShownInv
<1> QED BY <1>2, <1>3, <1>4, <1>5, Zenon DEF FollowInv, ShownInv

LEMMA WaitKeepsFollow ==
  ASSUME FollowInv, WaitArm \/ WaitRead \/ WaitStatus \/ WaitExpires \/ WaitWakes
  PROVE  FollowInv'
<1>1. /\ wait \in WaitStates /\ UNCHANGED <<sessionVars, client>> /\ ReadingTypes
      /\ wait.pc = "status" \/ (wait.pc = "answered" /\ wait.ok) =>
           Continues(wait.snap, wait.from)
  BY DEF FollowInv, ReadingTypes, AnswerInv, WaitArm, WaitRead, WaitStatus, WaitExpires, WaitWakes
<1>2. ASSUME wait' \in {Answer(FALSE), [wait EXCEPT !.pc = "asleep"], [wait EXCEPT !.pc = "arm"],
                        [wait EXCEPT !.pc = "read", !.notified = FALSE]}
      PROVE  FollowInv'
  <2>1. wait' \in WaitStates /\ wait'.from = wait.from
        /\ wait'.pc # "status" /\ (wait'.pc = "answered" => ~wait'.ok)
    BY <1>1, <1>2 DEF Answer, WaitStates
  <2> QED BY <1>1, <2>1, WaitOnly
<1>3. CASE WaitArm
  BY <1>2, <1>3 DEF WaitArm
<1>4. CASE WaitWakes
  BY <1>2, <1>4 DEF WaitWakes
<1>5. CASE WaitExpires
  <2>1. /\ wait' \in WaitStates /\ wait'.pc = wait.pc /\ wait'.from = wait.from
        /\ wait'.ok = wait.ok /\ wait'.snap = wait.snap
    BY <1>1, <1>5 DEF WaitExpires, WaitStates
  <2> QED BY <1>1, <2>1, WaitOnly
<1>6. CASE WaitStatus
  <2>1. CASE wait' = Answer(TRUE)
    <3>1. /\ wait' \in WaitStates /\ wait'.from = wait.from /\ wait'.snap = wait.snap
      BY <1>1, <2>1 DEF Answer, WaitStates
    <3>2. Continues(wait.snap, wait.from)
      BY <1>1, <1>6 DEF WaitStatus
    <3> QED BY <1>1, <3>1, <3>2, WaitOnly
  <2> QED BY <1>2, <1>6, <2>1 DEF WaitStatus
<1>7. CASE WaitRead
  <2> DEFINE snap == ReadDelta(wait.from)
  <2>1. CASE wait.from > Len(text)
    BY <1>2, <1>7, <2>1 DEF WaitRead
  <2>2. CASE ~(wait.from > Len(text))
    <3>1. wait.from \in Nat /\ wait.from <= Len(text)
      BY <1>1, <2>2 DEF WaitStates, ReadingTypes, Texts
    <3>2. snap \in Snapshots /\ Continues(snap, wait.from)
      BY <1>1, <3>1, ReadDeltaIs
    <3>3. \/ wait' = [Answer(TRUE) EXCEPT !.snap = snap]
          \/ wait' = [wait EXCEPT !.pc = "status", !.snap = snap]
      BY <1>7, <2>2 DEF WaitRead
    <3> HIDE DEF snap
    <3>4. wait' \in WaitStates /\ wait'.from = wait.from /\ wait'.snap = snap
      BY <1>1, <3>2, <3>3 DEF Answer, WaitStates
    <3> QED BY <1>1, <3>2, <3>4, WaitOnly
  <2> QED BY <2>1, <2>2
<1> QED BY <1>3, <1>4, <1>5, <1>6, <1>7

\* The steps of a client that does not follow.
LEMMA OtherClientKeeps ==
  ASSUME FollowInv, UNCHANGED sessionVars,
         client' \in ClientStates, client'.job # "follow",
         client'.pc \in {"send", "waiting", "settling", "done"},
         client'.pc \in {"send", "settling"} => client'.job = "command",
         client'.job = "command" => client'.origin # NoCursor,
         wait' \in WaitStates, UNCHANGED wait \/ wait'.pc \in {"none", "arm"}
  PROVE  FollowInv'
<1>1. UNCHANGED <<text, dropped, connected, marked>>
  BY DEF sessionVars
<1>2. ReadingTypes'
  BY <1>1 DEF FollowInv, ReadingTypes
<1>3. AnswerInv'
  <2>1. CASE UNCHANGED wait
    BY <1>1, <2>1, SameText DEF FollowInv
  <2>2. CASE wait'.pc \in {"none", "arm"}
    BY <2>2 DEF AnswerInv
  <2> QED BY <2>1, <2>2
<1>4. FollowControl'
  BY DEF FollowControl
<1>5. ShownInv'
  BY DEF FollowInv, ShownInv
<1> QED BY <1>2, <1>3, <1>4, <1>5, Zenon DEF FollowInv, ShownInv

LEMMA OthersKeepFollow ==
  ASSUME FollowInv,
         \/ \E cursor \in {NoCursor} \union 0..(Len(text) + 1), needle \in {Nothing, Marker} :
              AskWait(cursor, needle)
         \/ \E needle \in {Nothing, Marker} : AskCommand(needle)
         \/ SendCommand \/ WaitAnswered \/ CommandReads
  PROVE  FollowInv'
<1>1. /\ client \in ClientStates /\ wait \in WaitStates /\ Len(text) \in Nat /\ ReadingTypes
      /\ client.pc = "idle" => client = Idle
      /\ client.job = "follow" => client.pc \notin {"idle", "send", "settling"}
      /\ client.pc \in {"send", "settling"} => client.job = "command"
      /\ client.job = "command" => client.origin # NoCursor
  BY DEF FollowInv, ReadingTypes, Texts, FollowControl
<1>2. ASSUME NEW cursor \in {NoCursor} \union 0..(Len(text) + 1), NEW needle \in {Nothing, Marker},
             AskWait(cursor, needle)
      PROVE  FollowInv'
  <2>1. PICK from \in Nat : wait' = StartWait(from, needle)
    BY <1>1, <1>2 DEF AskWait
  <2>2. wait' \in WaitStates /\ wait'.pc = "arm"
    BY <2>1, StartWaitIs
  <2>3. client' \in ClientStates /\ client'.job = "wait" /\ client'.pc = "waiting"
    BY <1>1, <1>2 DEF AskWait, ClientStates
  <2> QED BY <1>2, <2>2, <2>3, OtherClientKeeps DEF AskWait
<1>3. ASSUME NEW needle \in {Nothing, Marker}, AskCommand(needle) PROVE FollowInv'
  <2>1. client' \in ClientStates /\ client'.job = "command" /\ client'.pc = "send"
        /\ client'.origin # NoCursor
    <3>1. PICK n \in Nat : n = Len(text) /\ n \in Cursors /\ n # NoCursor
      BY <1>1 DEF Cursors, NoCursor
    <3>2. client' = [client EXCEPT !.job = "command", !.pc = "send", !.origin = n, !.until = needle]
      BY <1>3, <3>1 DEF AskCommand
    <3> QED BY <1>1, <3>1, <3>2 DEF ClientStates
  <2> QED BY <1>1, <1>3, <2>1, OtherClientKeeps DEF AskCommand
<1>4. CASE SendCommand
  <2>1. /\ client' \in ClientStates /\ client'.job = client.job /\ client'.origin = client.origin
        /\ client'.pc \in {"waiting", "done"} /\ client.job = "command"
    BY <1>1, <1>4 DEF SendCommand, ClientStates
  <2>2. wait' \in WaitStates /\ (UNCHANGED wait \/ wait'.pc = "arm")
    <3>1. CASE UNCHANGED wait
      BY <1>1, <3>1
    <3>2. CASE wait' = StartWait(client.origin, client.until)
      <4>1. client.until \in {Nothing, Marker} /\ client.origin \in Nat
        BY <1>1, <2>1 DEF ClientStates, Cursors
      <4> QED BY <3>2, <4>1, StartWaitIs
    <3> QED BY <1>4, <3>1, <3>2 DEF SendCommand
  <2> QED BY <1>1, <1>4, <2>1, <2>2, OtherClientKeeps DEF SendCommand
<1>5. CASE WaitAnswered
  <2>1. /\ client' \in ClientStates /\ client'.job = client.job /\ client'.origin = client.origin
        /\ client'.pc \in {"settling", "done"} /\ client.job \in {"wait", "command"}
        /\ client'.pc = "settling" => client.job = "command"
    BY <1>1, <1>5 DEF WaitAnswered, ClientStates, Finish
  <2> QED BY <1>1, <1>5, <2>1, NoWaitIs, OtherClientKeeps DEF WaitAnswered
<1>6. CASE CommandReads
  <2> DEFINE snap == ReadDelta(client.origin)
             upto == snap.start + Len(snap.output)
  <2>1. client' = [Finish("answered") EXCEPT !.cursor = upto] /\ client.job = "command"
    BY <1>1, <1>6 DEF CommandReads
  <2>2. upto \in Nat
    <3>1. client.origin \in Nat
      BY <1>1, <1>6 DEF CommandReads, ClientStates, Cursors
    <3>2. snap \in Snapshots
      BY <1>1, <3>1, ReadDeltaIs
    <3> HIDE DEF snap
    <3> QED BY <3>2 DEF Snapshots, Texts
  <2> HIDE DEF upto
  <2>3. /\ client' \in ClientStates /\ client'.job = "command" /\ client'.pc = "done"
        /\ client'.origin = client.origin
    BY <1>1, <2>1, <2>2 DEF ClientStates, Finish, Cursors
  <2> QED BY <1>1, <1>6, <2>3, OtherClientKeeps DEF CommandReads
<1> QED BY <1>2, <1>3, <1>4, <1>5, <1>6

\* A follow that is about to read.
LEMMA IsFollowing ==
  ASSUME FollowInv, client.job = "follow", client.reason = "none"
  PROVE  Following(client)
  BY DEF FollowInv, ShownInv, ReadingTypes, FollowControl, Following

\* A step of a follow that only says where it goes.
LEMMA FollowGoes ==
  ASSUME FollowInv, client.job = "follow", client.reason = "none",
         UNCHANGED sessionVars, wait' \in WaitStates, UNCHANGED wait \/ wait'.pc \in {"none", "arm"},
         NEW p \in {"delta", "waiting", "list_after_error", "done"},
         NEW f \in BOOLEAN, NEW r \in {"none", "error", "interrupted", "duration_limit"},
         client' = [client EXCEPT !.pc = p, !.finish = f, !.reason = r],
         p = "done" <=> r # "none",
         p = "delta" => client.cursor # NoCursor,
         p \in {"waiting", "list_after_error"} => client.cursor \in 0..Len(text),
         p = "waiting" => wait'.from = client.cursor,
         f => p \in {"delta", "done"} /\ ~connected
  PROVE  FollowInv'
<1>1. UNCHANGED <<text, dropped, connected, marked>>
  BY DEF sessionVars
<1>2. /\ client' \in ClientStates /\ client'.job = "follow" /\ client'.pc = p /\ client'.finish = f
      /\ client'.reason = r /\ client'.cursor = client.cursor /\ client'.origin = client.origin
      /\ client'.until = client.until /\ client'.emitted = client.emitted
      /\ client'.tail = client.tail /\ client'.shown = client.shown
  BY DEF FollowInv, ReadingTypes, ClientStates
<1>3. ReadingTypes'
  BY <1>1, <1>2 DEF FollowInv, ReadingTypes
<1>4. AnswerInv'
  <2>1. CASE UNCHANGED wait
    BY <1>1, <2>1, SameText DEF FollowInv
  <2>2. CASE wait'.pc \in {"none", "arm"}
    BY <2>2 DEF AnswerInv
  <2> QED BY <2>1, <2>2
<1>5. FollowControl'
  <2>1. client.emitted <= MaxTotal /\ client.emitted < MaxTotal
    BY DEF FollowInv, FollowControl
  <2> QED BY <1>1, <1>2, <2>1 DEF FollowControl
<1>6. ShownInv'
  <2>1. ShownFits(client) /\ TailFitsIn(client) /\ MarkersFit(client)
    BY DEF FollowInv, ShownInv
  <2>2. PICK c : c = client'
    OBVIOUS
  <2>3. /\ ShownFits(c) /\ TailFitsIn(c)
        /\ \A i : MarkerShownAt(c, i) <=> MarkerShownAt(client, i)
    <3>1. /\ c.shown = client.shown /\ c.cursor = client.cursor /\ c.origin = client.origin
          /\ c.until = client.until /\ c.tail = client.tail
      BY <1>2, <2>2
    <3> QED BY <2>1, <3>1, SameShown
  <2>4. MarkersFit(c)
    <3>2. c.reason # "matched" /\ client.reason # "matched" /\ c.until = client.until
      BY <1>2, <2>2
    <3> QED BY <2>1, <2>3, <3>2, Zenon DEF MarkersFit
  <2>5. ShownFits(client)' /\ TailFitsIn(client)' /\ MarkersFit(client)'
    BY <1>1, <2>2, <2>3, <2>4, SameText, Zenon
  <2>6. client'.reason # "matched"
    BY <1>2
  <2> QED BY <2>5, <2>6, Zenon DEF FollowInv, ShownInv
<1> QED BY <1>3, <1>4, <1>5, <1>6, Zenon DEF FollowInv, ShownInv

LEMMA AskFollowKeeps ==
  ASSUME FollowInv, NEW cursor \in {NoCursor} \union 0..(Len(text) + 1),
         NEW until \in {Nothing, Marker}, AskFollow(cursor, until)
  PROVE  FollowInv'
<1> DEFINE q == IF cursor = NoCursor THEN "recent" ELSE "delta"
<1>1. client = Idle /\ UNCHANGED sessionVars /\ UNCHANGED wait
      /\ client' = [client EXCEPT !.job = "follow", !.until = until, !.origin = cursor,
                                  !.cursor = cursor, !.pc = q]
  BY DEF AskFollow, FollowInv, FollowControl
<1>2. cursor \in Cursors /\ q \in {"recent", "delta"} /\ (q = "recent" => cursor = NoCursor)
      /\ (q = "delta" => cursor # NoCursor)
  BY DEF FollowInv, ReadingTypes, Texts, Cursors
<1>3. UNCHANGED <<text, dropped, connected, marked>>
  BY <1>1 DEF sessionVars
<1> HIDE DEF q
<1>4. /\ client' \in ClientStates /\ client'.job = "follow" /\ client'.pc = q
      /\ client'.origin = cursor /\ client'.cursor = cursor /\ client'.until = until
      /\ client'.emitted = 0 /\ client'.tail = <<>> /\ client'.finish = FALSE
      /\ client'.shown = <<>> /\ client'.reason = "none"
  BY <1>1, <1>2, IdleIs DEF ClientStates
<1>5. ReadingTypes'
  BY <1>3, <1>1, <1>4 DEF FollowInv, ReadingTypes
<1>6. AnswerInv'
  BY <1>1, <1>3, SameText DEF FollowInv
<1>7. FollowControl'
  BY <1>2, <1>4, MarkerIs DEF FollowControl
<1>8. PICK c : c = client'
  OBVIOUS
<1>9. \A j : ~Covered(c, j)
  BY <1>4, <1>8 DEF Covered
<1>10. ShownFits(c)
  BY <1>4, <1>8 DEF ShownFits
<1>11. TailFitsIn(c)
  <2>1. c.tail = <<>> /\ Len(c.tail) = 0 /\ c.cursor \in Int
    BY <1>2, <1>4, <1>8, EmptySeq DEF Cursors, NoCursor
  <2>2. (c.cursor - Len(c.tail) + 1)..c.cursor = {}
    BY <2>1
  <2> QED BY <1>9, <2>1, <2>2, MarkerIs DEF TailFitsIn
<1>12. MarkersFit(c)
  <2>1. ASSUME NEW i \in 1..Len(text) PROVE ~MarkerShownAt(c, i)
    <3>1. i \in (i - Len(Marker) + 1)..i
      BY MarkerIs
    <3> QED BY <1>9, <3>1 DEF MarkerShownAt
  <2> QED BY <1>4, <1>8, <2>1 DEF MarkersFit
<1>13. ShownInv'
  <2>1. ShownFits(client)' /\ TailFitsIn(client)' /\ MarkersFit(client)'
    BY <1>3, <1>8, <1>10, <1>11, <1>12, SameText, Zenon
  <2>2. client'.reason # "matched"
    BY <1>4
  <2> QED BY <2>1, <2>2, Zenon DEF FollowInv, ShownInv
<1> QED BY <1>5, <1>6, <1>7, <1>13, Zenon DEF FollowInv, ShownInv

\* A follow that has a snapshot.
LEMMA ChunkKeeps ==
  ASSUME FollowInv, client.job = "follow", client.reason = "none",
         UNCHANGED sessionVars, wait' \in WaitStates, UNCHANGED wait \/ wait'.pc = "none",
         NEW snap, Readable(client, snap),
         client.finish => snap.start + Len(snap.output) = Len(text),
         client' = AfterChunk(Processed(client, snap))
  PROVE  FollowInv'
<1> DEFINE p == Processed(client, snap)
<1>1. ReadingTypes /\ Following(client) /\ UNCHANGED <<text, dropped, connected, marked>>
  BY IsFollowing DEF FollowInv, sessionVars
<1>2. /\ p \in ClientStates /\ p.cursor = snap.start + SizeOf(client, snap)
      /\ p.emitted = client.emitted + SizeOf(client, snap)
      /\ p.reason = ReasonNext(client, snap) /\ p.job = "follow" /\ p.finish = client.finish
      /\ p.until = client.until
      /\ p.cursor \in 0..Len(text)
  BY <1>1, ProcessedKeeps
<1>3. ShownFits(p) /\ TailFitsIn(p) /\ MarkersFit(p)
  BY <1>1, ShownStillFits, TailStillFits, MarkersStillFit
<1>4. /\ p.emitted <= MaxTotal
      /\ p.reason \in {"matched", "output_limit", "none"}
      /\ p.reason = "none" => p.emitted < MaxTotal
  <2>1. /\ SizeOf(client, snap) \in Nat /\ client.emitted \in Nat
        /\ client.emitted + SizeOf(client, snap) <= MaxTotal
    BY <1>1, SizeIs DEF Following, ClientStates
  <2>2. p.reason \in {"matched", "output_limit", "none"}
        /\ (p.reason = "none" => client.emitted + SizeOf(client, snap) # MaxTotal)
    BY <1>2 DEF ReasonNext
  <2> QED BY <1>2, <2>1, <2>2, MarkerIs
<1>5. p.reason = "none" /\ p.finish => p.cursor >= marked /\ ~connected
  <2>1. SUFFICES ASSUME p.reason = "none", p.finish PROVE p.cursor >= marked /\ ~connected
    OBVIOUS
  <2>2. ~MatchedBy(client, snap) /\ client.emitted + SizeOf(client, snap) # MaxTotal
    BY <1>2, <2>1 DEF ReasonNext
  <2>3. SizeOf(client, snap) = RoomFor(client, snap) /\ client.emitted \in Nat
        /\ Len(snap.output) \in Nat /\ SizeOf(client, snap) \in Nat
    BY <1>1, <2>2, SizeIs DEF Following, ClientStates, Readable, Snapshots, Texts
  <2>4. SizeOf(client, snap) = Len(snap.output)
    BY <2>2, <2>3, MarkerIs DEF RoomFor, Smaller
  <2>5. p.cursor = Len(text) /\ ~connected
    BY <1>2, <2>1, <2>4 DEF FollowInv, FollowControl
  <2> QED BY <2>5 DEF FollowInv, ReadingTypes
<1>6. PICK r : /\ client' = [p EXCEPT !.pc = IF r = "none" THEN "list" ELSE "done", !.reason = r]
               /\ r = "none" => p.reason = "none" /\ ~p.finish
               /\ r = p.reason \/ (r = "disconnected" /\ p.reason = "none" /\ p.finish)
  <2>1. CASE p.reason # "none"
    <3>1. client' = [p EXCEPT !.pc = "done"]
      BY <2>1 DEF AfterChunk
    <3>2. [p EXCEPT !.pc = "done"] = [p EXCEPT !.pc = "done", !.reason = p.reason]
      <4> HIDE DEF p
      <4> QED BY <1>2 DEF ClientStates
    <3> QED BY <2>1, <3>1, <3>2
  <2>2. CASE p.reason = "none" /\ p.finish
    BY <2>2 DEF AfterChunk
  <2>3. CASE p.reason = "none" /\ ~p.finish
    <3>1. client' = [p EXCEPT !.pc = "list"]
      BY <2>3 DEF AfterChunk
    <3>2. [p EXCEPT !.pc = "list"] = [p EXCEPT !.pc = "list", !.reason = "none"]
      <4> HIDE DEF p
      <4> QED BY <1>2, <2>3 DEF ClientStates
    <3> QED BY <2>3, <3>1, <3>2
  <2> QED BY <2>1, <2>2, <2>3
<1>7. r \in {"matched", "output_limit", "none", "disconnected"}
  BY <1>4, <1>6
<1> DEFINE q == IF r = "none" THEN "list" ELSE "done"
<1>8. /\ q \in {"list", "done"} /\ (q = "done" <=> r # "none")
      /\ client' = [p EXCEPT !.pc = q, !.reason = r]
  BY <1>6
<1> HIDE DEF p, q
<1>9. /\ client' \in ClientStates /\ client'.job = "follow" /\ client'.pc = q
      /\ client'.reason = r /\ client'.cursor = p.cursor /\ client'.origin = p.origin
      /\ client'.until = p.until /\ client'.emitted = p.emitted /\ client'.finish = p.finish
      /\ client'.tail = p.tail /\ client'.shown = p.shown
  BY <1>2, <1>7, <1>8 DEF ClientStates
<1>10. ReadingTypes'
  BY <1>1, <1>9 DEF ReadingTypes
<1>11. AnswerInv'
  <2>1. CASE UNCHANGED wait
    BY <1>1, <2>1, SameText DEF FollowInv
  <2>2. CASE wait'.pc = "none"
    BY <2>2 DEF AnswerInv
  <2> QED BY <2>1, <2>2
<1>12. FollowControl'
  <2>1. p.finish => ~connected
    BY <1>2 DEF FollowInv, FollowControl
  <2>2. r = "disconnected" => p.cursor >= marked /\ ~connected
    BY <1>5, <1>6, <1>4
  <2>3. r = "none" => p.emitted < MaxTotal
    BY <1>4, <1>6
  <2>4. p.finish => q = "done"
    BY <1>6, <1>8
  <2> QED BY <1>1, <1>2, <1>4, <1>7, <1>8, <1>9, <2>1, <2>2, <2>3, <2>4 DEF FollowControl
<1>13. ShownInv'
  <2>1. PICK c : c = client'
    OBVIOUS
  <2>2. /\ ShownFits(c) /\ TailFitsIn(c)
        /\ \A i : MarkerShownAt(c, i) <=> MarkerShownAt(p, i)
    <3>1. /\ c.shown = p.shown /\ c.cursor = p.cursor /\ c.origin = p.origin
          /\ c.until = p.until /\ c.tail = p.tail
      BY <1>9, <2>1
    <3> QED BY <1>3, <3>1, SameShown
  <2>3. MarkersFit(c)
    <3>2. (c.reason = "matched" <=> p.reason = "matched") /\ c.until = p.until
          /\ c.cursor = p.cursor
      BY <1>6, <1>7, <1>9, <2>1
    <3> QED BY <1>3, <2>2, <3>2, Zenon DEF MarkersFit
  <2>4. ShownFits(client)' /\ TailFitsIn(client)' /\ MarkersFit(client)'
    BY <1>1, <2>1, <2>2, <2>3, SameText, Zenon
  <2>5. client'.reason = "matched" /\ client'.until # Nothing => client'.cursor \in 1..Len(text')
    <3>1. SUFFICES ASSUME client'.reason = "matched", client'.until # Nothing
                   PROVE  client'.cursor \in 1..Len(text')
      OBVIOUS
    <3>2. MatchedBy(client, snap)
      BY <1>2, <1>6, <1>7, <1>9, <3>1 DEF ReasonNext
    <3>3. FoundIn(client, snap) # 0 /\ FoundIn(client, snap) > Len(TailAfter(client, snap))
      BY <1>1, <1>2, <1>9, <3>1, <3>2, FoundIs DEF MatchedBy
    <3>4. /\ FoundIn(client, snap) - Len(TailAfter(client, snap)) <= SizeOf(client, snap)
          /\ FoundIn(client, snap) \in Nat /\ Len(TailAfter(client, snap)) \in Nat
          /\ SizeOf(client, snap) \in Nat /\ snap.start \in Nat
      BY <1>1, <3>2, SizeIs, TailAfterIs DEF MatchedBy, Texts, Readable, Snapshots
    <3>5. p.cursor >= 1
      BY <1>2, <3>3, <3>4
    <3> QED BY <1>1, <1>2, <1>9, <3>5
  <2> QED BY <2>4, <2>5, Zenon DEF FollowInv, ShownInv
<1> QED BY <1>10, <1>11, <1>12, <1>13, Zenon DEF FollowInv, ShownInv

LEMMA FollowReads ==
  ASSUME FollowInv, FollowRead \/ FollowWaited
  PROVE  FollowInv'
<1>1. /\ ReadingTypes /\ wait \in WaitStates /\ client \in ClientStates /\ Len(text) \in Nat
      /\ client.pc = "idle" => client = Idle
      /\ wait.pc = "answered" /\ wait.ok => Continues(wait.snap, wait.from)
  BY DEF FollowInv, ReadingTypes, Texts, FollowControl, AnswerInv
<1>2. ASSUME client.job = "follow"
      PROVE  /\ client.pc = "done" <=> client.reason # "none"
             /\ client.pc = "recent" => client.cursor = NoCursor
             /\ client.pc = "delta" => client.cursor # NoCursor
             /\ client.pc = "waiting" => client.cursor \in 0..Len(text) /\ wait.from = client.cursor
             /\ client.finish => client.pc \in {"delta", "done"}
  BY <1>2 DEF FollowInv, FollowControl
<1>3. CASE FollowRead
  <2>1. client.job = "follow" /\ client.pc \in {"recent", "delta"} /\ client.reason = "none"
        /\ UNCHANGED sessionVars /\ UNCHANGED wait
    <3>1. client.job = "follow"
      BY <1>3 DEF FollowRead, FollowInv, FollowControl
    <3> QED BY <1>2, <1>3, <3>1 DEF FollowRead
  <2>2. CASE client.pc = "delta" /\ client.cursor > Len(text)
    <3>1. client' = [client EXCEPT !.pc = "done", !.reason = "error"]
      BY <1>3, <2>2 DEF FollowRead, Finish
    <3>2. client' = [client EXCEPT !.pc = "done", !.finish = client.finish, !.reason = "error"]
          /\ client.finish \in BOOLEAN
      BY <1>1, <3>1 DEF ClientStates
    <3>3. client.finish => ~connected
      BY <2>1 DEF FollowInv, FollowControl
    <3> QED BY <1>1, <2>1, <3>2, <3>3, FollowGoes
  <2>3. CASE client.pc = "recent"
    <3>1. client' = AfterChunk(Processed(client, ReadRecent))
      BY <1>3, <2>3 DEF FollowRead
    <3>2. Readable(client, ReadRecent) /\ ReadRecent.start + Len(ReadRecent.output) = Len(text)
      BY <1>1, <1>2, <2>1, <2>3, ReadRecentIs DEF Readable
    <3> QED BY <1>1, <2>1, <3>1, <3>2, ChunkKeeps
  <2>4. CASE client.pc = "delta" /\ ~(client.cursor > Len(text))
    <3>1. client' = AfterChunk(Processed(client, ReadDelta(client.cursor)))
      BY <1>3, <2>4 DEF FollowRead
    <3>2. client.cursor \in Nat /\ client.cursor <= Len(text)
      BY <1>1, <1>2, <2>1, <2>4 DEF ClientStates, Cursors
    <3>3. /\ Readable(client, ReadDelta(client.cursor))
          /\ ReadDelta(client.cursor).start + Len(ReadDelta(client.cursor).output) = Len(text)
      BY <1>1, <3>2, ReadDeltaIs DEF Readable, Continues
    <3> QED BY <1>1, <2>1, <3>1, <3>3, ChunkKeeps
  <2> QED BY <2>1, <2>2, <2>3, <2>4
<1>4. CASE FollowWaited
  <2>1. /\ client.job = "follow" /\ client.pc = "waiting" /\ client.reason = "none"
        /\ ~client.finish /\ client.cursor \in 0..Len(text) /\ wait.from = client.cursor
        /\ wait.pc = "answered"
        /\ UNCHANGED sessionVars /\ wait' = NoWait /\ wait' \in WaitStates /\ wait'.pc = "none"
    BY <1>2, <1>4, NoWaitIs DEF FollowWaited
  <2>2. CASE wait.ok
    <3>1. client' = AfterChunk(Processed(client, wait.snap))
      BY <1>4, <2>2 DEF FollowWaited
    <3>2. Readable(client, wait.snap)
      BY <1>1, <2>1, <2>2 DEF Readable, Continues, WaitStates
    <3> QED BY <2>1, <3>1, <3>2, ChunkKeeps
  <2>3. CASE ~wait.ok
    <3>1. client' = [client EXCEPT !.pc = "list_after_error"]
      BY <1>4, <2>3 DEF FollowWaited
    <3>2. client' = [client EXCEPT !.pc = "list_after_error", !.finish = FALSE, !.reason = "none"]
      BY <1>1, <2>1, <3>1 DEF ClientStates
    <3> QED BY <2>1, <3>2, FollowGoes
  <2> QED BY <2>2, <2>3
<1> QED BY <1>3, <1>4

LEMMA FollowCalls ==
  ASSUME FollowInv,
         \/ FollowList \/ FollowListAfterError
         \/ \E reason \in {"interrupted", "duration_limit"} : FollowStops(reason)
         \/ FollowCallFails
  PROVE  FollowInv'
<1>1. client \in ClientStates /\ wait \in WaitStates /\ NoWait \in WaitStates /\ NoWait.pc = "none"
      /\ connected \in BOOLEAN
  BY NoWaitIs DEF FollowInv, ReadingTypes
<1>2. /\ client.job = "follow"
      /\ client.pc \in {"recent", "delta", "waiting", "list", "list_after_error"}
      /\ UNCHANGED sessionVars
  BY DEF FollowList, FollowListAfterError, FollowStops, FollowCallFails, InCall,
     FollowInv, FollowControl
<1>3. /\ client.reason = "none" /\ client.finish \in BOOLEAN
      /\ client.pc \in {"list", "waiting", "list_after_error"} =>
           client.cursor \in 0..Len(text) /\ client.finish = FALSE
      /\ client.finish => ~connected
      /\ \A n \in 0..Len(text) : n # NoCursor /\ n \in Nat
  BY <1>1, <1>2 DEF FollowInv, FollowControl, ClientStates, NoCursor
<1>4. ASSUME NEW r \in {"error", "interrupted", "duration_limit"}, client' = Finish(r),
             UNCHANGED wait \/ wait' = NoWait
      PROVE  FollowInv'
  <2>1. client' = [client EXCEPT !.pc = "done", !.finish = client.finish, !.reason = r]
    BY <1>1, <1>4 DEF Finish, ClientStates
  <2>2. wait' \in WaitStates /\ (UNCHANGED wait \/ wait'.pc \in {"none", "arm"})
    BY <1>1, <1>4
  <2> QED BY <1>2, <1>3, <1>4, <2>1, <2>2, FollowGoes
<1>5. ASSUME client' = Drain, ~connected, client.pc \in {"list", "list_after_error"}, UNCHANGED wait
      PROVE  FollowInv'
  <2>1. client' = [client EXCEPT !.pc = "delta", !.finish = TRUE, !.reason = "none"]
    BY <1>1, <1>3, <1>5 DEF Drain, ClientStates
  <2>2. client.cursor # NoCursor
    BY <1>3, <1>5
  <2> QED BY <1>1, <1>2, <1>3, <1>5, <2>1, <2>2, FollowGoes
<1>6. CASE FollowList
  <2>1. CASE connected
    <3>1. client' = [client EXCEPT !.pc = "waiting"] /\ wait' = StartWait(client.cursor, Nothing)
          /\ client.pc = "list"
      BY <1>6, <2>1 DEF FollowList
    <3>2. client' = [client EXCEPT !.pc = "waiting", !.finish = FALSE, !.reason = "none"]
      BY <1>1, <1>3, <3>1 DEF ClientStates
    <3>3. wait' \in WaitStates /\ wait'.pc = "arm" /\ wait'.from = client.cursor
          /\ client.cursor \in 0..Len(text)
      BY <1>3, <3>1, StartWaitIs
    <3> QED BY <1>2, <1>3, <3>2, <3>3, FollowGoes
  <2>2. CASE ~connected
    BY <1>5, <1>6, <2>2 DEF FollowList
  <2> QED BY <2>1, <2>2
<1>7. CASE FollowListAfterError
  BY <1>4, <1>5, <1>7 DEF FollowListAfterError
<1>8. ASSUME NEW reason \in {"interrupted", "duration_limit"}, FollowStops(reason)
      PROVE  FollowInv'
  BY <1>4, <1>8 DEF FollowStops
<1>9. CASE FollowCallFails
  <2>1. CASE client.pc = "waiting"
    <3>1. client' = [client EXCEPT !.pc = "list_after_error"] /\ wait' = NoWait
      BY <1>9, <2>1 DEF FollowCallFails
    <3>2. client' = [client EXCEPT !.pc = "list_after_error", !.finish = FALSE, !.reason = "none"]
      BY <1>1, <1>3, <2>1, <3>1 DEF ClientStates
    <3>3. wait' \in WaitStates /\ wait'.pc \in {"none", "arm"}
      BY <1>1, <3>1
    <3> QED BY <1>2, <1>3, <2>1, <3>2, <3>3, FollowGoes
  <2>2. CASE client.pc # "waiting"
    BY <1>4, <1>9, <2>2 DEF FollowCallFails
  <2> QED BY <2>1, <2>2
<1> QED BY <1>6, <1>7, <1>8, <1>9

LEMMA FollowStepKeeps ==
  ASSUME FollowInv, ReadingNext \/ UNCHANGED readingVars
  PROVE  FollowInv'
<1>1. CASE UNCHANGED readingVars
  <2>1. UNCHANGED <<sessionVars, client>> /\ UNCHANGED wait
    BY <1>1 DEF readingVars
  <2>2. wait' \in WaitStates /\ wait'.from = wait.from
        /\ (wait'.pc = "status" \/ (wait'.pc = "answered" /\ wait'.ok) =>
              Continues(wait'.snap, wait'.from))
    BY <2>1 DEF FollowInv, ReadingTypes, AnswerInv
  <2> QED BY <2>1, <2>2, WaitOnly
<1>2. ASSUME NEW cursor \in {NoCursor} \union 0..(Len(text) + 1), NEW until \in {Nothing, Marker},
             AskFollow(cursor, until)
      PROVE  FollowInv'
  BY <1>2, AskFollowKeeps
<1> QED BY <1>1, <1>2, SessionKeepsFollow, WaitKeepsFollow, OthersKeepFollow, FollowReads,
           FollowCalls DEF ReadingNext

LEMMA TilesIs ==
  ASSUME FollowInv, client.job = "follow"
  PROVE  Tiles
<1> DEFINE shown == client.shown
<1>1. ShownFits(client) /\ client.shown \in Seq(Events) /\ text \in Seq(Chars) /\ Len(text) \in Nat
  BY DEF FollowInv, ShownInv, ReadingTypes, ClientStates, Texts
<1>2. ASSUME NEW i \in DOMAIN shown, shown[i].kind = "output"
      PROVE  shown[i].text = SubSeq(text, shown[i].from + 1, shown[i].upto)
  <2>1. EventFits(shown, i, client) /\ shown[i] \in Events
    BY <1>1, <1>2, ElementOfSeq DEF ShownFits
  <2> DEFINE s == shown[i].text
             a == shown[i].from
             b == shown[i].upto
  <2>2. /\ s \in Seq(Chars) /\ a \in Nat /\ b \in Nat /\ a + Len(s) = b /\ b <= Len(text)
        /\ \A j \in 1..Len(s) : s[j] = text[a + j]
    BY <1>2, <2>1 DEF EventFits, CopiedAt, Events, Texts
  <2> HIDE DEF s, a, b
  <2> DEFINE m == a + 1
             n == Len(s)
             u == SubSeq(text, m, b)
  <2>3. /\ n \in Nat /\ m \in Int /\ 1 <= m /\ m <= b + 1 /\ b - m + 1 = n
        /\ \A j \in 1..n : m + j - 1 = a + j
    <3>1. n \in Nat
      BY <2>2
    <3> HIDE DEF n
    <3> QED BY <2>2, <3>1 DEF n
  <2>4. u \in Seq(Chars) /\ Len(u) = n /\ \A j \in 1..n : u[j] = text[m + j - 1]
    <3>1. m \in Int /\ b \in Int /\ 1 <= m /\ m <= b + 1 /\ b <= Len(text)
      BY <2>2, <2>3
    <3> HIDE DEF m, n
    <3>2. /\ SubSeq(text, m, b) \in Seq(Chars) /\ Len(SubSeq(text, m, b)) = b - m + 1
          /\ \A j \in 1..(b - m + 1) : SubSeq(text, m, b)[j] = text[m + j - 1]
      BY <1>1, <3>1, PartOf
    <3> QED BY <2>3, <3>2
  <2>5. Len(s) = Len(u) /\ \A j \in 1..Len(s) : s[j] = u[j]
    <3>1. \A j \in 1..n : s[j] = text[a + j]
      BY <2>2
    <3> HIDE DEF m, n, u
    <3>2. \A j \in 1..n : s[j] = u[j]
      BY <2>3, <2>4, <3>1
    <3> QED BY <2>4, <3>2 DEF n
  <2>6. s = u
    <3> HIDE DEF u
    <3> QED BY <2>2, <2>4, <2>5, SeqEqual
  <2> QED BY <2>6 DEF s, a, b
<1>3. ASSUME NEW i \in DOMAIN shown PROVE EventFits(shown, i, client)
  BY <1>1 DEF ShownFits
<1> QED BY <1>2, <1>3, Zenon DEF Tiles, EventFits

LEMMA FollowInvAccounts == FollowInv => FollowAccounts
<1>1. SUFFICES ASSUME FollowInv, client.job = "follow"
               PROVE  /\ Tiles
                      /\ client.emitted <= MaxTotal
                      /\ client.until # Nothing =>
                           MarkersShown = IF client.reason = "matched" THEN {client.cursor} ELSE {}
                      /\ client.reason = "disconnected" => client.cursor >= marked
  BY DEF FollowAccounts
<1>2. client.emitted <= MaxTotal /\ (client.reason = "disconnected" => client.cursor >= marked)
  BY <1>1 DEF FollowInv, FollowControl
<1>3. ASSUME client.until # Nothing
      PROVE  MarkersShown = IF client.reason = "matched" THEN {client.cursor} ELSE {}
  <2>1. \A i : i \in MarkersShown <=> i \in 1..Len(text) /\ MarkerShownAt(client, i)
    BY DEF MarkersShown, MarkerShownAt, Covered
  <2>2. \A i \in 1..Len(text) :
          MarkerShownAt(client, i) <=> client.reason = "matched" /\ i = client.cursor
    BY <1>1, <1>3 DEF FollowInv, ShownInv, MarkersFit
  <2>3. client.reason = "matched" => client.cursor \in 1..Len(text)
    BY <1>1, <1>3 DEF FollowInv, ShownInv
  <2>4. \A i : i \in MarkersShown <=> client.reason = "matched" /\ i = client.cursor
    BY <2>1, <2>2, <2>3, Zenon
  <2> QED BY <2>4
<1> QED BY <1>1, <1>2, <1>3, TilesIs

\* What a follow writes out accounts for the session, for any texts, any marker and any
\* bounds of its reads (terminal_cli/follow.rs, run_follow and process_output).
THEOREM FollowAccountsHolds == Spec => []FollowAccounts
<1>1. InitExternal => FollowInv
  BY FollowBegins DEF InitExternal
<1>2. FollowInv /\ [ExternalNext]_externalVars => FollowInv'
  BY FollowStepKeeps DEF ExternalNext, externalVars
<1> QED BY <1>1, <1>2, FollowInvAccounts, PTL DEF Spec
-----------------------------------------------------------------------------
(* The answers to requests *)

Logs == {"inactive", "active", "paused"}
Whats == LogKinds \union {"focus", "jump", "profile"}
AskSeqs == {<<>>, <<"profile">>, <<"jump">>, <<"jump", "profile">>}
Recipients == Windows \union {NoWindow, AnyWindow}

\* The secrets that were asked of the caller and answered for what they were asked.
Secrets(c) == {<<w, <<c, w>>>> : w \in {"jump", "profile"}}

RequestKinds == LogKinds \union ConnectKinds \union {"none", "focus", "disconnect"}
Points ==
  {"idle", "activate", "look", "check", "enabled", "await", "show", "send", "verify", "close",
   "direct", "prepare", "prompt", "finish", "register", "done"}
Replies == {<<>>} \union ({"yes", "no"} \X Callers \X Whats)
Gots == SUBSET UNION {Secrets(c) : c \in Callers}

RequestStates ==
  [kind : RequestKinds, pc : Points, id : Nat, attempt : {0, 1}, window : Recipients,
   reply : Replies, from : Recipients, prompts : AskSeqs, got : Gots, logging : BOOLEAN,
   result : {"none", "ok", "error"}]

Entries == [id : Nat, caller : Callers, window : Recipients]

Messages ==
  [id : Nat, caller : Callers, asked : Recipients, window : Windows, what : Whats,
   stage : {"sent", "working", "ready"}, says : {"none", "yes", "no"}]

RequestTypes ==
  /\ req \in [Callers -> RequestStates]
  /\ pending \subseteq Entries
  /\ inbox \subseteq Messages
  /\ ids \in Nat
  /\ log \in Logs
  /\ owner \in Windows \union {NoWindow}

\* What a request that waits has asked for.
Asked(r) ==
  CASE r.kind = "focus" -> "focus"
    [] r.kind = "disconnect" -> "stop"
    [] r.kind \in ConnectKinds -> Head(r.prompts)
    [] OTHER -> r.kind

\* The log was what an operation leaves behind.
LogSeen(what, logs) ==
  /\ what = "stop" => "inactive" \in logs
  /\ what = "pause" => "paused" \in logs
  /\ what = "resume" => "active" \in logs

\* Which requests come to which point.
KindFits(r) ==
  /\ r.pc \in {"activate", "show"} => r.kind = "focus"
  /\ r.pc = "check" => r.kind \in LogKinds
  /\ r.pc = "send" => r.kind \in LogKinds \union {"disconnect"}
  /\ r.pc = "verify" => r.kind = "start"
  /\ r.pc \in {"look", "close"} => r.kind = "disconnect"
  /\ r.pc = "direct" => r.kind = "direct"
  /\ r.pc \in {"enabled", "prepare", "prompt", "finish", "register"} => r.kind \in ConnectKinds
  /\ r.pc = "await" => r.kind # "none"

\* The request of caller c, the states of the log and the switches seen meanwhile.
RequestFits(c, r, logs, switched) ==
  /\ KindFits(r)
  /\ r.pc = "await" /\ r.reply # <<>> =>
       /\ Tail(r.reply) = <<c, Asked(r)>>
       /\ Head(r.reply) = "yes" => LogSeen(Asked(r), logs)
       /\ Head(r.reply) \in {"yes", "no"}
       /\ r.window \in {r.from, AnyWindow}
  /\ r.pc = "await" /\ r.kind \in ConnectKinds => r.prompts # <<>>
  /\ r.pc \in {"direct", "prepare", "prompt", "await", "finish", "register"}
       /\ r.kind \in ConnectKinds => "connect" \in switched
  /\ r.pc \in {"prepare", "prompt", "await", "finish", "register"}
       /\ r.kind = "direct" => "direct" \in switched
  /\ r.pc \in {"prompt", "await", "finish", "register"}
       /\ r.kind = "saved" => "profile" \in switched
  /\ r.got \subseteq Secrets(c)

\* A pending entry is that of a caller that waits for just this answer.
EntriesFit ==
  \A p \in pending :
    /\ p.id <= ids
    /\ req[p.caller].pc = "await" /\ req[p.caller].reply = <<>>
    /\ req[p.caller].id = p.id /\ req[p.caller].window = p.window

\* What a window says it has done was done while its request ran, if it still does.
MessagesFit ==
  \A m \in inbox :
    /\ m.id <= ids
    /\ req[m.caller].pc # "idle"
    /\ m.stage = "ready" =>
         /\ m.says \in {"yes", "no"}
         /\ m.says = "yes" /\ req[m.caller].pc # "done" => LogSeen(m.what, seen[m.caller])

\* A message that has an entry is about what its caller waits for.
MessagesMatch ==
  \A m \in inbox, p \in pending :
    m.id = p.id => m.caller = p.caller /\ m.what = Asked(req[p.caller])

RequestsInv ==
  /\ RequestTypes
  /\ EntriesFit
  /\ MessagesFit
  /\ MessagesMatch
  /\ \A c \in Callers : RequestFits(c, req[c], seen[c], granted[c])

\* What the answers of a step are told.
Told ==
  \A c \in Callers :
    req'[c].result = "ok" /\ req[c].result # "ok" =>
      FocusHolds(c)' /\ LogHolds(c)' /\ ConnectHolds(c)'

\* What a step of the requests changes only through its actions.
Typed == log' \in Logs /\ owner' \in Windows \union {NoWindow}

LEMMA Triples ==
  ASSUME NEW a, NEW b, NEW c
  PROVE  /\ <<a, b, c>> # <<>>
         /\ Head(<<a, b, c>>) = a
         /\ Tail(<<a, b, c>>) = <<b, c>>
OBVIOUS

LEMMA AskSeqsParts ==
  ASSUME NEW s \in AskSeqs, s # <<>>
  PROVE  Head(s) \in {"jump", "profile"} /\ Tail(s) \in AskSeqs
<1>1. CASE s = <<"profile">>
  BY <1>1 DEF AskSeqs
<1>2. CASE s = <<"jump">>
  BY <1>2 DEF AskSeqs
<1>3. CASE s = <<"jump", "profile">>
  BY <1>3 DEF AskSeqs
<1> QED  BY <1>1, <1>2, <1>3 DEF AskSeqs

\* While a request runs, its histories keep what they have and take what there is.
LEMMA HistoriesGrow ==
  ASSUME RequestsNext, NEW c \in Callers, req[c].pc # "done", req'[c].pc # "idle"
  PROVE  /\ seen[c] \subseteq seen'[c] /\ log' \in seen'[c]
         /\ granted[c] \subseteq granted'[c] /\ settings' \subseteq granted'[c]
BY DEF RequestsNext, While

LEMMA FitsGrows ==
  ASSUME NEW c, NEW r, NEW l1, NEW l2, NEW s1, NEW s2,
         RequestFits(c, r, l1, s1), l1 \subseteq l2, s1 \subseteq s2
  PROVE  RequestFits(c, r, l2, s2)
BY DEF RequestFits, LogSeen

LEMMA FitsAtRest ==
  ASSUME NEW c, NEW r, NEW l1, NEW l2, NEW s1, NEW s2,
         RequestFits(c, r, l1, s1), r.pc \in {"idle", "done"}
  PROVE  RequestFits(c, r, l2, s2)
BY DEF RequestFits, KindFits

\* A caller whose request does not move.
LEMMA OtherFits ==
  ASSUME RequestsInv, RequestsNext, NEW d \in Callers, req'[d] = req[d]
  PROVE  RequestFits(d, req'[d], seen'[d], granted'[d])
<1>1. RequestFits(d, req[d], seen[d], granted[d])
  BY DEF RequestsInv
<1>2. CASE req[d].pc \in {"idle", "done"}
  BY <1>1, <1>2, FitsAtRest
<1>3. CASE req[d].pc \notin {"idle", "done"}
  <2>1. seen[d] \subseteq seen'[d] /\ granted[d] \subseteq granted'[d]
    BY <1>3, HistoriesGrow
  <2> QED  BY <1>1, <2>1, FitsGrows
<1> QED  BY <1>2, <1>3

\* What a window says of the log stays true while the request runs.
LEMMA MessageKept ==
  ASSUME RequestsInv, RequestsNext, NEW m \in inbox,
         req[m.caller].pc # req'[m.caller].pc =>
           req[m.caller].pc # "done" /\ req'[m.caller].pc # "idle",
         ids' \in Nat, ids <= ids'
  PROVE  /\ m.id <= ids'
         /\ req'[m.caller].pc # "idle"
         /\ m.stage = "ready" =>
              /\ m.says \in {"yes", "no"}
              /\ m.says = "yes" /\ req'[m.caller].pc # "done" =>
                   LogSeen(m.what, seen'[m.caller])
<1>1. /\ m.id <= ids /\ req[m.caller].pc # "idle"
      /\ m.stage = "ready" =>
           /\ m.says \in {"yes", "no"}
           /\ m.says = "yes" /\ req[m.caller].pc # "done" => LogSeen(m.what, seen[m.caller])
  BY DEF RequestsInv, MessagesFit
<1>2. m.id \in Nat /\ ids \in Nat /\ m.caller \in Callers
  BY DEF RequestsInv, RequestTypes, Messages
<1>3. req'[m.caller].pc # "idle"
  BY <1>1
<1>4. ASSUME req'[m.caller].pc # "done"
      PROVE  seen[m.caller] \subseteq seen'[m.caller] /\ req[m.caller].pc # "done"
  BY <1>2, <1>3, <1>4, HistoriesGrow
<1> QED  BY <1>1, <1>2, <1>3, <1>4 DEF LogSeen

\* A step of one caller's own request, which waits for no window before or after.
LEMMA MoveKeeps ==
  ASSUME RequestsInv, RequestsNext, Typed, NEW c \in Callers, NEW r \in RequestStates,
         Set(c, r), pending' = pending, inbox' = inbox, ids' = ids,
         req[c].pc # "done", req[c].pc # "await" \/ req[c].reply # <<>>,
         r.pc \notin {"idle", "await"},
         RequestFits(c, r, seen'[c], granted'[c])
  PROVE  RequestsInv'
<1>1. /\ req \in [Callers -> RequestStates] /\ pending \subseteq Entries
      /\ inbox \subseteq Messages /\ ids \in Nat
  BY DEF RequestsInv, RequestTypes
<1>2. req' \in [Callers -> RequestStates] /\ req'[c] = r /\ \A d \in Callers \ {c} : req'[d] = req[d]
  BY <1>1 DEF Set
<1>3. RequestTypes'
  BY <1>1, <1>2 DEF RequestTypes, Typed
<1>4. \A p \in pending : p.caller \in Callers \ {c}
  BY <1>1 DEF RequestsInv, EntriesFit, Entries
<1>5. EntriesFit'
  BY <1>2, <1>4 DEF RequestsInv, EntriesFit
<1>6. MessagesFit'
  <2> SUFFICES ASSUME NEW m \in inbox
               PROVE  /\ m.id <= ids'
                      /\ req'[m.caller].pc # "idle"
                      /\ m.stage = "ready" =>
                           /\ m.says \in {"yes", "no"}
                           /\ m.says = "yes" /\ req'[m.caller].pc # "done" =>
                                LogSeen(m.what, seen'[m.caller])
    BY DEF MessagesFit, LogSeen
  <2>1. m.caller \in Callers
    BY <1>1 DEF Messages
  <2>2. req[m.caller].pc # req'[m.caller].pc =>
          req[m.caller].pc # "done" /\ req'[m.caller].pc # "idle"
    BY <1>2, <2>1
  <2> QED  BY <1>1, <2>2, MessageKept
<1>7. MessagesMatch'
  BY <1>2, <1>4 DEF RequestsInv, MessagesMatch
<1>8. ASSUME NEW d \in Callers
      PROVE  RequestFits(d, req'[d], seen'[d], granted'[d])
  BY <1>2, OtherFits
<1> QED  BY <1>3, <1>5, <1>6, <1>7, <1>8 DEF RequestsInv

\* The same, with what the caller is told.
LEMMA MoveTells ==
  ASSUME RequestTypes, NEW c \in Callers, NEW r, Set(c, r),
         r.result = "ok" /\ req[c].result # "ok" =>
           FocusHolds(c)' /\ LogHolds(c)' /\ ConnectHolds(c)'
  PROVE  Told
BY DEF RequestTypes, Set, Told

\* A step that moves no request.
LEMMA StillKeeps ==
  ASSUME RequestsInv, RequestsNext, Typed, req' = req, pending' = pending, ids' = ids,
         inbox' \subseteq Messages,
         \A m \in inbox' : \/ m \in inbox
                           \/ \E n \in inbox :
                                /\ m.id = n.id /\ m.caller = n.caller /\ m.what = n.what
                                /\ m.stage = "ready" =>
                                     /\ m.says \in {"yes", "no"}
                                     /\ m.says = "yes" /\ req[m.caller].pc # "done" =>
                                          LogSeen(m.what, seen'[m.caller])
  PROVE  RequestsInv' /\ Told
<1>1. RequestTypes'
  BY DEF RequestsInv, RequestTypes, Typed
<1>2. EntriesFit'
  BY DEF RequestsInv, EntriesFit
<1>3. ids \in Nat
  BY DEF RequestsInv, RequestTypes
<1>4. MessagesFit'
  <2> SUFFICES ASSUME NEW m \in inbox'
               PROVE  /\ m.id <= ids'
                      /\ req'[m.caller].pc # "idle"
                      /\ m.stage = "ready" =>
                           /\ m.says \in {"yes", "no"}
                           /\ m.says = "yes" /\ req'[m.caller].pc # "done" =>
                                LogSeen(m.what, seen'[m.caller])
    BY DEF MessagesFit, LogSeen
  <2>1. CASE m \in inbox
    BY <1>3, <2>1, MessageKept
  <2>2. ASSUME NEW n \in inbox,
               m.id = n.id /\ m.caller = n.caller /\ m.what = n.what,
               m.stage = "ready" =>
                 /\ m.says \in {"yes", "no"}
                 /\ m.says = "yes" /\ req[m.caller].pc # "done" =>
                      LogSeen(m.what, seen'[m.caller])
        PROVE  /\ m.id <= ids'
               /\ req'[m.caller].pc # "idle"
               /\ m.stage = "ready" =>
                    /\ m.says \in {"yes", "no"}
                    /\ m.says = "yes" /\ req'[m.caller].pc # "done" =>
                         LogSeen(m.what, seen'[m.caller])
    <3>1. n.id <= ids' /\ req'[n.caller].pc # "idle"
      BY <1>3, MessageKept
    <3> QED  BY <2>2, <3>1
  <2> QED  BY <2>1, <2>2
<1>5. MessagesMatch'
  BY DEF RequestsInv, MessagesMatch
<1>6. ASSUME NEW d \in Callers
      PROVE  RequestFits(d, req'[d], seen'[d], granted'[d])
  BY OtherFits
<1>7. Told
  BY DEF Told
<1> QED  BY <1>1, <1>2, <1>4, <1>5, <1>6, <1>7 DEF RequestsInv

\* What users and windows do by themselves.
LEMMA GuiKeeps ==
  ASSUME RequestsInv, RequestsNext, Gui
  PROVE  RequestsInv' /\ Told
<1>1. log' \in Logs /\ owner' \in Windows \union {NoWindow}
  BY DEF RequestsInv, RequestTypes, Gui, MoveTab, CloseTab, SelectOtherTab, SessionEnds,
         UserLogs, Toggle, Logs
<1>2. req' = req /\ pending' = pending /\ ids' = ids /\ inbox' = inbox
  BY DEF Gui
<1> QED  BY <1>1, <1>2, StillKeeps DEF Typed, RequestsInv, RequestTypes

LEMMA OpensKeeps ==
  ASSUME RequestsInv, RequestsNext, Opens
  PROVE  RequestsInv' /\ Told
<1>1. req' = req /\ pending' = pending /\ inbox' = inbox /\ ids' = ids
  BY DEF Opens
<1>2. Typed /\ inbox \subseteq Messages
  BY DEF Opens, SerialMapped, TabShown, RequestsInv, RequestTypes, Typed
<1> QED  BY <1>1, <1>2, StillKeeps

LEMMA WindowLostKeeps ==
  ASSUME RequestsInv, RequestsNext, NEW w \in Windows, WindowLost(w)
  PROVE  RequestsInv' /\ Told
<1>1. Typed
  BY DEF RequestsInv, RequestTypes, WindowLost, guiVars, Typed
<1>2. req' = req /\ pending' = pending /\ ids' = ids /\ inbox' \subseteq inbox
  BY DEF WindowLost
<1> QED  BY <1>1, <1>2, StillKeeps DEF RequestsInv, RequestTypes

LEMMA WindowBeginsKeeps ==
  ASSUME RequestsInv, RequestsNext, NEW m \in inbox, WindowBegins(m)
  PROVE  RequestsInv' /\ Told
<1>1. Typed
  BY DEF RequestsInv, RequestTypes, WindowBegins, guiVars, Typed
<1>2. m \in Messages
  BY DEF RequestsInv, RequestTypes
<1>3. PICK next \in {"working", "ready"} :
        inbox' = (inbox \ {m}) \union
          {[m EXCEPT !.stage = next, !.says = IF next = "ready" THEN "no" ELSE "none"]}
  BY DEF WindowBegins
<1> DEFINE n == [m EXCEPT !.stage = next, !.says = IF next = "ready" THEN "no" ELSE "none"]
<1>4. /\ n \in Messages /\ n.id = m.id /\ n.caller = m.caller /\ n.what = m.what
      /\ n.stage = "ready" => n.says = "no"
  BY <1>2 DEF Messages
<1>5. inbox' = (inbox \ {m}) \union {n}
  BY <1>3
<1> HIDE DEF n
<1>6. req' = req /\ pending' = pending /\ ids' = ids
  BY DEF WindowBegins
<1>7. inbox' \subseteq Messages
  BY <1>4, <1>5 DEF RequestsInv, RequestTypes
<1> QED  BY <1>1, <1>4, <1>5, <1>6, <1>7, StillKeeps

\* The log after an operation that is answered with "yes" is what it says.
LEMMA WindowActsKeeps ==
  ASSUME RequestsInv, RequestsNext, NEW m \in inbox, WindowActs(m)
  PROVE  RequestsInv' /\ Told
<1>1. m \in Messages /\ m.caller \in Callers /\ req' = req /\ pending' = pending /\ ids' = ids
  BY DEF RequestsInv, RequestTypes, WindowActs, Messages
<1>2. PICK l \in LogAfter(m.what) :
        /\ log' = l
        /\ inbox' = (inbox \ {m}) \union
             {[m EXCEPT !.stage = "ready",
                        !.says = IF m.what # "stop" /\ l = "inactive" THEN "no" ELSE "yes"]}
  BY DEF WindowActs
<1>3. l \in Logs /\ ((m.what # "stop" /\ l = "inactive") \/ LogSeen(m.what, {l}))
  BY DEF LogAfter, Logs, RequestsInv, RequestTypes, LogSeen
<1>4. Typed
  BY <1>2, <1>3 DEF RequestsInv, RequestTypes, WindowActs, Typed
<1> DEFINE n == [m EXCEPT !.stage = "ready",
                          !.says = IF m.what # "stop" /\ l = "inactive" THEN "no" ELSE "yes"]
<1>5. /\ n \in Messages /\ n.id = m.id /\ n.caller = m.caller /\ n.what = m.what
      /\ n.says \in {"yes", "no"} /\ (n.says = "yes" => LogSeen(m.what, {l}))
  BY <1>1, <1>3 DEF Messages
<1>6. inbox' = (inbox \ {m}) \union {n}
  BY <1>2
<1> HIDE DEF n
<1>7. inbox' \subseteq Messages
  BY <1>5, <1>6 DEF RequestsInv, RequestTypes
<1>8. req[m.caller].pc # "idle"
  BY DEF RequestsInv, MessagesFit
<1>9. req[m.caller].pc # "done" => l \in seen'[m.caller]
  BY <1>1, <1>2, <1>8, HistoriesGrow
<1>10. n.says = "yes" /\ req[m.caller].pc # "done" => LogSeen(m.what, seen'[m.caller])
  BY <1>5, <1>9 DEF LogSeen
<1> QED  BY <1>1, <1>4, <1>5, <1>6, <1>7, <1>10, StillKeeps

\* The deadline of an answer: the entry is removed, and the request is over.
LEMMA TimesOutKeeps ==
  ASSUME RequestsInv, RequestsNext, NEW c \in Callers, TimesOut(c)
  PROVE  RequestsInv' /\ Told
<1> DEFINE r == [req[c] EXCEPT !.pc = "done", !.result = "error"]
<1>1. /\ req \in [Callers -> RequestStates] /\ pending \subseteq Entries
      /\ inbox \subseteq Messages /\ ids \in Nat
  BY DEF RequestsInv, RequestTypes
<1>2. r \in RequestStates /\ r.pc = "done" /\ r.result = "error" /\ r.got = req[c].got
  BY <1>1 DEF RequestStates, Points
<1>3. req' \in [Callers -> RequestStates] /\ req'[c] = r /\ \A d \in Callers \ {c} : req'[d] = req[d]
  BY <1>1, <1>2 DEF TimesOut, Done, Set
<1> HIDE DEF r
<1>4. RequestTypes'
  BY <1>1, <1>3 DEF TimesOut, RequestsInv, RequestTypes, guiVars
<1>5. \A p \in pending' : p \in pending /\ p.caller \in Callers \ {c}
  BY <1>1 DEF TimesOut, RequestsInv, EntriesFit, Entries
<1>6. inbox' = inbox /\ ids' = ids
  BY DEF TimesOut
<1>7. EntriesFit'
  BY <1>3, <1>5, <1>6 DEF RequestsInv, EntriesFit
<1>8. MessagesFit'
  <2> SUFFICES ASSUME NEW m \in inbox
               PROVE  /\ m.id <= ids'
                      /\ req'[m.caller].pc # "idle"
                      /\ m.stage = "ready" =>
                           /\ m.says \in {"yes", "no"}
                           /\ m.says = "yes" /\ req'[m.caller].pc # "done" =>
                                LogSeen(m.what, seen'[m.caller])
    BY <1>6 DEF MessagesFit, LogSeen
  <2>1. m.caller \in Callers
    BY <1>1 DEF Messages
  <2>2. req[m.caller].pc # req'[m.caller].pc =>
          req[m.caller].pc # "done" /\ req'[m.caller].pc # "idle"
    BY <1>2, <1>3, <2>1 DEF TimesOut
  <2> QED  BY <1>1, <1>6, <2>2, MessageKept
<1>9. MessagesMatch'
  BY <1>3, <1>5, <1>6 DEF RequestsInv, MessagesMatch
<1>10. RequestFits(c, r, seen'[c], granted'[c])
  BY <1>2 DEF RequestsInv, RequestFits, KindFits
<1>11. ASSUME NEW d \in Callers
       PROVE  RequestFits(d, req'[d], seen'[d], granted'[d])
  BY <1>3, <1>10, OtherFits
<1>12. Told
  BY <1>2, <1>3 DEF Told
<1> QED  BY <1>4, <1>7, <1>8, <1>9, <1>11, <1>12 DEF RequestsInv

\* A request that asks a window, or all of them, with an identifier of its own.
LEMMA SendKeeps ==
  ASSUME RequestsInv, RequestsNext, Typed, NEW c \in Callers,
         NEW window \in Windows \union {AnyWindow}, NEW what \in Whats,
         Send(c, window, what), req[c].pc \in {"activate", "send", "prompt"},
         req[c].pc = "prompt" => req[c].prompts # <<>>,
         what = Asked(req[c])
  PROVE  RequestsInv' /\ Told
<1> DEFINE r == [req[c] EXCEPT !.pc = "await", !.id = ids + 1, !.window = window, !.reply = <<>>,
                          !.from = NoWindow]
           p0 == [id |-> ids + 1, caller |-> c, window |-> window]
           to == IF window = AnyWindow \/ what = "focus" THEN Windows ELSE {window}
           sent == {[id |-> ids + 1, caller |-> c, asked |-> window, window |-> w,
                     what |-> what, stage |-> "sent", says |-> "none"] : w \in to}
<1>1. /\ req \in [Callers -> RequestStates] /\ pending \subseteq Entries
      /\ inbox \subseteq Messages /\ ids \in Nat
  BY DEF RequestsInv, RequestTypes
<1>2. /\ r \in RequestStates /\ r.pc = "await" /\ r.id = ids + 1 /\ r.window = window
      /\ r.reply = <<>> /\ r.got = req[c].got /\ r.kind = req[c].kind
      /\ r.prompts = req[c].prompts /\ r.result = req[c].result
  <2>1. /\ req[c] \in RequestStates /\ <<>> \in Replies /\ window \in Recipients
        /\ "await" \in Points /\ ids + 1 \in Nat /\ NoWindow \in Recipients
    BY <1>1 DEF Replies, Recipients, Points
  <2> QED  BY <2>1 DEF RequestStates
<1>3. Asked(r) = what
  BY <1>2 DEF Asked
<1>4. p0 \in Entries /\ p0.id = ids + 1 /\ p0.caller = c /\ p0.window = window
  BY <1>1 DEF Entries, Recipients
<1>5. \A m \in sent : /\ m \in Messages /\ m.id = ids + 1 /\ m.caller = c
                      /\ m.what = what /\ m.stage = "sent"
  BY <1>1 DEF Messages, Recipients
<1>6. /\ req' = [req EXCEPT ![c] = r] /\ pending' = pending \union {p0}
      /\ inbox' = inbox \union sent /\ ids' = ids + 1
  BY DEF Send, Set
<1>7. req' \in [Callers -> RequestStates] /\ req'[c] = r /\ \A d \in Callers \ {c} : req'[d] = req[d]
  BY <1>1, <1>2, <1>6
<1> HIDE DEF r, p0, to, sent
<1>8. RequestTypes'
  BY <1>1, <1>4, <1>5, <1>6, <1>7 DEF RequestTypes, Typed
<1>9. \A p \in pending : p.caller \in Callers \ {c} /\ p.id \in Nat /\ p.id <= ids
  BY <1>1 DEF RequestsInv, EntriesFit, Entries
<1>10. \A m \in inbox : m.id \in Nat /\ m.id <= ids /\ m.caller \in Callers
  BY <1>1 DEF RequestsInv, MessagesFit, Messages
<1>11. EntriesFit'
  BY <1>1, <1>2, <1>4, <1>6, <1>7, <1>9 DEF RequestsInv, EntriesFit
<1>12. MessagesFit'
  <2> SUFFICES ASSUME NEW m \in inbox'
               PROVE  /\ m.id <= ids'
                      /\ req'[m.caller].pc # "idle"
                      /\ m.stage = "ready" =>
                           /\ m.says \in {"yes", "no"}
                           /\ m.says = "yes" /\ req'[m.caller].pc # "done" =>
                                LogSeen(m.what, seen'[m.caller])
    BY DEF MessagesFit, LogSeen
  <2>1. CASE m \in inbox
    <3>1. req[m.caller].pc # req'[m.caller].pc =>
            req[m.caller].pc # "done" /\ req'[m.caller].pc # "idle"
      BY <1>2, <1>7, <1>10, <2>1
    <3> QED  BY <1>1, <1>6, <2>1, <3>1, MessageKept
  <2>2. CASE m \in sent
    BY <1>1, <1>2, <1>5, <1>6, <1>7, <2>2
  <2> QED  BY <1>6, <2>1, <2>2
<1>13. MessagesMatch'
  <2> SUFFICES ASSUME NEW m \in inbox', NEW p \in pending', m.id = p.id
               PROVE  m.caller = p.caller /\ m.what = Asked(req'[p.caller])
    BY DEF MessagesMatch, Asked
  <2>1. CASE m \in inbox /\ p \in pending
    BY <1>7, <1>9, <2>1 DEF RequestsInv, MessagesMatch
  <2>2. CASE m \in inbox /\ p = p0
    BY <1>1, <1>4, <1>10, <2>2
  <2>3. CASE m \in sent /\ p \in pending
    BY <1>1, <1>5, <1>9, <2>3
  <2>4. CASE m \in sent /\ p = p0
    BY <1>3, <1>4, <1>5, <1>7, <2>4
  <2> QED  BY <1>6, <2>1, <2>2, <2>3, <2>4
<1>14. RequestFits(c, r, seen[c], granted[c])
  BY <1>2 DEF RequestsInv, RequestFits, KindFits, LogKinds, ConnectKinds
<1>15. seen[c] \subseteq seen'[c] /\ granted[c] \subseteq granted'[c]
  BY <1>2, <1>7, HistoriesGrow
<1>16. ASSUME NEW d \in Callers
       PROVE  RequestFits(d, req'[d], seen'[d], granted'[d])
  <2>1. CASE d = c
    BY <1>7, <1>14, <1>15, <2>1, FitsGrows
  <2>2. CASE d # c
    BY <1>7, <2>2, OtherFits
  <2> QED  BY <2>1, <2>2
<1>17. Told
  BY <1>2, <1>7 DEF Told
<1> QED  BY <1>8, <1>11, <1>12, <1>13, <1>16, <1>17 DEF RequestsInv

\* An answer that is handed to the caller it is meant for, or to nobody.
LEMMA SubmitKeeps ==
  ASSUME RequestsInv, RequestsNext, Typed, NEW m \in inbox, NEW says \in {"yes", "no"},
         Submit(m, says),
         says = "yes" /\ req[m.caller].pc # "done" => LogSeen(m.what, seen[m.caller])
  PROVE  RequestsInv' /\ Told
<1>1. /\ req \in [Callers -> RequestStates] /\ pending \subseteq Entries
      /\ inbox \subseteq Messages /\ ids \in Nat
  BY DEF RequestsInv, RequestTypes
<1>2. inbox' = inbox \ {m} /\ ids' = ids
  BY DEF Submit
<1>3. CASE pending' = pending /\ req' = req
  BY <1>1, <1>2, <1>3, StillKeeps
<1>4. ASSUME NEW p \in EntryFor(m.id, m.window),
             pending' = pending \ {p},
             Set(p.caller, [req[p.caller] EXCEPT !.reply = <<says, m.caller, m.what>>,
                                                 !.from = m.window])
      PROVE  RequestsInv' /\ Told
  <2> DEFINE c == p.caller
             r == [req[c] EXCEPT !.reply = <<says, m.caller, m.what>>, !.from = m.window]
  <2>1. /\ p \in pending /\ p.id = m.id /\ c \in Callers /\ p \in Entries
        /\ p.window \in {m.window, AnyWindow} /\ m.window \in Recipients
    BY <1>1 DEF EntryFor, Entries, Messages, Recipients
  <2>2. m.caller = c /\ m.what = Asked(req[c]) /\ m.what \in Whats
    BY <1>1, <2>1 DEF RequestsInv, MessagesMatch, Messages
  <2>3. /\ req[c].pc = "await" /\ req[c].reply = <<>>
        /\ req[c].id = p.id /\ req[c].window = p.window
    BY <2>1 DEF RequestsInv, EntriesFit
  <2> DEFINE reply == <<says, c, m.what>>
  <2>4. reply \in Replies /\ reply # <<>> /\ Head(reply) = says /\ Tail(reply) = <<c, m.what>>
    <3>1. reply \in {"yes", "no"} \X Callers \X Whats
      BY <2>1, <2>2
    <3> QED  BY <3>1, Triples DEF Replies
  <2>5. r = [req[c] EXCEPT !.reply = reply, !.from = m.window]
    BY <2>2
  <2> HIDE DEF reply
  <2>6. /\ r \in RequestStates /\ r.reply = reply /\ r.from = m.window
        /\ r.pc = req[c].pc /\ r.id = req[c].id /\ r.window = req[c].window /\ r.got = req[c].got
        /\ r.kind = req[c].kind /\ r.prompts = req[c].prompts /\ r.result = req[c].result
    <3>1. req[c] \in RequestStates
      BY <1>1, <2>1
    <3> DEFINE q == req[c]
               x == m.window
    <3>2. q \in RequestStates /\ reply \in Replies /\ x \in Recipients
      BY <2>1, <2>4, <3>1
    <3>3. r = [q EXCEPT !.reply = reply, !.from = x]
      BY <2>5
    <3> HIDE DEF r, q, x
    <3>4. /\ r \in RequestStates /\ r.reply = reply /\ r.from = x
          /\ r.pc = q.pc /\ r.id = q.id /\ r.window = q.window /\ r.got = q.got
          /\ r.kind = q.kind /\ r.prompts = q.prompts /\ r.result = q.result
      BY <3>2, <3>3 DEF RequestStates
    <3> QED  BY <3>4 DEF q, x
  <2>7. Asked(r) = m.what
    BY <2>2, <2>6 DEF Asked
  <2>8. req' = [req EXCEPT ![c] = r]
    BY <1>4 DEF Set
  <2>9. req' \in [Callers -> RequestStates] /\ req'[c] = r /\ \A d \in Callers \ {c} : req'[d] = req[d]
    BY <1>1, <2>1, <2>6, <2>8
  <2> HIDE DEF r
  <2>10. RequestTypes'
    BY <1>1, <1>2, <1>4, <2>9 DEF RequestTypes, Typed
  <2>11. \A q \in pending' : q \in pending /\ q.caller \in Callers \ {c}
    <3> SUFFICES ASSUME NEW q \in pending' PROVE q \in pending /\ q.caller \in Callers \ {c}
      OBVIOUS
    <3>1. q \in pending /\ q # p /\ q \in Entries
      BY <1>1, <1>4
    <3>2. ASSUME q.caller = c PROVE FALSE
      <4>1. q.id = p.id /\ q.window = p.window
        BY <2>3, <3>1, <3>2 DEF RequestsInv, EntriesFit
      <4> QED  BY <2>1, <3>1, <3>2, <4>1 DEF Entries
    <3> QED  BY <3>1, <3>2 DEF Entries
  <2>12. EntriesFit'
    BY <1>2, <2>9, <2>11 DEF RequestsInv, EntriesFit
  <2>13. MessagesFit'
    <3> SUFFICES ASSUME NEW n \in inbox'
                 PROVE  /\ n.id <= ids'
                        /\ req'[n.caller].pc # "idle"
                        /\ n.stage = "ready" =>
                             /\ n.says \in {"yes", "no"}
                             /\ n.says = "yes" /\ req'[n.caller].pc # "done" =>
                                  LogSeen(n.what, seen'[n.caller])
      BY DEF MessagesFit, LogSeen
    <3>1. n \in inbox /\ n.caller \in Callers
      BY <1>1, <1>2 DEF Messages
    <3>2. req[n.caller].pc = req'[n.caller].pc
      BY <2>6, <2>9, <3>1
    <3> QED  BY <1>1, <1>2, <3>1, <3>2, MessageKept
  <2>14. MessagesMatch'
    BY <1>2, <2>9, <2>11 DEF RequestsInv, MessagesMatch
  <2>15. RequestFits(c, req[c], seen[c], granted[c])
    BY <2>1 DEF RequestsInv
  <2>16. r.pc = "await" /\ says = "yes" => LogSeen(Asked(r), seen[c])
    BY <2>2, <2>3, <2>7
  <2>17. /\ KindFits(r) /\ r.got \subseteq Secrets(c)
         /\ r.kind \in ConnectKinds => r.prompts # <<>>
    BY <2>3, <2>6, <2>15 DEF RequestFits, KindFits
  <2>18. RequestFits(c, r, seen[c], granted[c])
    BY <2>1, <2>3, <2>4, <2>6, <2>7, <2>15, <2>16, <2>17 DEF RequestFits
  <2>19. seen[c] \subseteq seen'[c] /\ granted[c] \subseteq granted'[c]
    BY <2>1, <2>3, <2>6, <2>9, HistoriesGrow
  <2>20. ASSUME NEW d \in Callers
         PROVE  RequestFits(d, req'[d], seen'[d], granted'[d])
    <3>1. CASE d = c
      BY <2>9, <2>18, <2>19, <3>1, FitsGrows
    <3>2. CASE d # c
      BY <2>9, <3>2, OtherFits
    <3> QED  BY <3>1, <3>2
  <2>21. Told
    BY <2>1, <2>6, <2>9 DEF Told
  <2> QED  BY <2>10, <2>12, <2>13, <2>14, <2>20, <2>21 DEF RequestsInv
<1> QED  BY <1>3, <1>4 DEF Submit

\* A window selects the tab, or a user types a secret: neither is about the log.
LEMMA AnswersKeep ==
  ASSUME RequestsInv, RequestsNext, NEW m \in inbox, WindowSelects(m) \/ UserAnswers(m)
  PROVE  RequestsInv' /\ Told
<1>1. Typed
  BY DEF RequestsInv, RequestTypes, WindowSelects, UserAnswers, guiVars, Typed
<1>2. m.what \in {"focus", "jump", "profile"}
  BY DEF WindowSelects, UserAnswers
<1>3. PICK says \in {"yes", "no"} : Submit(m, says)
  BY DEF WindowSelects, UserAnswers
<1> QED  BY <1>1, <1>2, <1>3, SubmitKeeps DEF LogSeen

LEMMA WindowSubmitsKeeps ==
  ASSUME RequestsInv, RequestsNext, NEW m \in inbox, WindowSubmits(m)
  PROVE  RequestsInv' /\ Told
<1>1. Typed
  BY DEF RequestsInv, RequestTypes, WindowSubmits, guiVars, Typed
<1>2. /\ m.says \in {"yes", "no"} /\ Submit(m, m.says)
      /\ m.says = "yes" /\ req[m.caller].pc # "done" => LogSeen(m.what, seen[m.caller])
  BY DEF WindowSubmits, RequestsInv, MessagesFit
<1> QED  BY <1>1, <1>2, SubmitKeeps

\* What holds of a running request still does when its histories have grown.
LEMMA RunningFits ==
  ASSUME RequestsInv, RequestsNext, NEW c \in Callers,
         req[c].pc # "done", req'[c].pc # "idle"
  PROVE  /\ RequestFits(c, req[c], seen'[c], granted'[c])
         /\ seen[c] \subseteq seen'[c] /\ log' \in seen'[c]
         /\ granted[c] \subseteq granted'[c] /\ settings' \subseteq granted'[c]
<1>1. RequestFits(c, req[c], seen[c], granted[c])
  BY DEF RequestsInv
<1>2. seen[c] \subseteq seen'[c] /\ log' \in seen'[c]
      /\ granted[c] \subseteq granted'[c] /\ settings' \subseteq granted'[c]
  BY HistoriesGrow
<1> QED  BY <1>1, <1>2, FitsGrows

\* A request that goes on by itself.
LEMMA GoesOn ==
  ASSUME RequestsInv, RequestsNext, Typed, NEW c \in Callers, NEW r \in RequestStates,
         Set(c, r), Quiet,
         req[c].pc # "done", req[c].pc # "await" \/ req[c].reply # <<>>,
         r.pc \notin {"idle", "await"}, r.result = req[c].result,
         RequestFits(c, r, seen'[c], granted'[c])
  PROVE  RequestsInv' /\ Told
<1>1. pending' = pending /\ inbox' = inbox /\ ids' = ids
  BY DEF Quiet
<1>2. RequestsInv'
  BY <1>1, MoveKeeps
<1> QED  BY <1>2, MoveTells DEF RequestsInv

\* The request after a step that only moves it.
LEMMA GotoParts ==
  ASSUME RequestsInv, NEW c \in Callers, NEW point \in Points, Goto(c, point)
  PROVE  LET r == [req[c] EXCEPT !.pc = point]
         IN  /\ r \in RequestStates /\ Set(c, r) /\ req'[c] = r
             /\ r.pc = point /\ r.kind = req[c].kind /\ r.reply = req[c].reply
             /\ r.prompts = req[c].prompts /\ r.got = req[c].got /\ r.result = req[c].result
<1>1. req \in [Callers -> RequestStates] /\ req[c] \in RequestStates
  BY DEF RequestsInv, RequestTypes
<1>2. Set(c, [req[c] EXCEPT !.pc = point])
  BY DEF Goto
<1>3. req'[c] = [req[c] EXCEPT !.pc = point]
  BY <1>1, <1>2 DEF Set
<1> QED  BY <1>1, <1>2, <1>3 DEF RequestStates

\* What is needed to go on to a point where no window is waited for.
LEMMA GotoKeeps ==
  ASSUME RequestsInv, RequestsNext, Typed, NEW c \in Callers, NEW point \in Points,
         Goto(c, point), Quiet,
         req[c].pc # "done", req[c].pc # "await" \/ req[c].reply # <<>>,
         point \notin {"idle", "await"},
         KindFits([req[c] EXCEPT !.pc = point]),
         point \in {"direct", "prepare", "prompt", "finish", "register"}
           /\ req[c].kind \in ConnectKinds => "connect" \in granted'[c],
         point \in {"prepare", "prompt", "finish", "register"}
           /\ req[c].kind = "direct" => "direct" \in granted'[c],
         point \in {"prompt", "finish", "register"}
           /\ req[c].kind = "saved" => "profile" \in granted'[c]
  PROVE  RequestsInv' /\ Told
<1> DEFINE r == [req[c] EXCEPT !.pc = point]
<1>1. /\ r \in RequestStates /\ Set(c, r) /\ req'[c] = r
      /\ r.pc = point /\ r.kind = req[c].kind /\ r.reply = req[c].reply
      /\ r.prompts = req[c].prompts /\ r.got = req[c].got /\ r.result = req[c].result
  BY GotoParts
<1>2. KindFits(r)
  OBVIOUS
<1> HIDE DEF r
<1>3. RequestFits(c, req[c], seen'[c], granted'[c])
  BY <1>1, RunningFits
<1>4. RequestFits(c, r, seen'[c], granted'[c])
  BY <1>1, <1>2, <1>3 DEF RequestFits
<1> QED  BY <1>1, <1>4, GoesOn

\* A request that ends, and what a caller that is told of success must be told.
LEMMA DoneParts ==
  ASSUME RequestsInv, NEW c \in Callers, NEW result \in {"ok", "error"}, Done(c, result)
  PROVE  LET r == [req[c] EXCEPT !.pc = "done", !.result = result]
         IN  /\ r \in RequestStates /\ Set(c, r) /\ req'[c] = r
             /\ r.pc = "done" /\ r.result = result /\ r.kind = req[c].kind
             /\ r.window = req[c].window /\ r.got = req[c].got /\ r.logging = req[c].logging
<1>1. req \in [Callers -> RequestStates] /\ req[c] \in RequestStates /\ "done" \in Points
  BY DEF RequestsInv, RequestTypes, Points
<1>2. Set(c, [req[c] EXCEPT !.pc = "done", !.result = result])
  BY DEF Done
<1>3. req'[c] = [req[c] EXCEPT !.pc = "done", !.result = result]
  BY <1>1, <1>2 DEF Set
<1> QED  BY <1>1, <1>2, <1>3 DEF RequestStates

LEMMA DoneKeeps ==
  ASSUME RequestsInv, RequestsNext, Typed, NEW c \in Callers, NEW result \in {"ok", "error"},
         Done(c, result), Quiet,
         req[c].pc # "done", req[c].pc # "await" \/ req[c].reply # <<>>,
         result = "ok" => FocusHolds(c)' /\ LogHolds(c)' /\ ConnectHolds(c)'
  PROVE  RequestsInv' /\ Told
<1> DEFINE r == [req[c] EXCEPT !.pc = "done", !.result = result]
<1>1. /\ r \in RequestStates /\ Set(c, r) /\ req'[c] = r
      /\ r.pc = "done" /\ r.result = result /\ r.kind = req[c].kind /\ r.got = req[c].got
  BY DoneParts
<1> HIDE DEF r
<1>2. RequestFits(c, req[c], seen'[c], granted'[c])
  BY <1>1, RunningFits
<1>3. RequestFits(c, r, seen'[c], granted'[c])
  BY <1>1, <1>2 DEF RequestFits, KindFits
<1>4. pending' = pending /\ inbox' = inbox /\ ids' = ids
  BY DEF Quiet
<1>5. RequestsInv'
  BY <1>1, <1>3, <1>4, MoveKeeps
<1>6. Told
  BY <1>1, MoveTells DEF RequestsInv
<1> QED  BY <1>5, <1>6

LEMMA Fails ==
  ASSUME RequestsInv, RequestsNext, Typed, NEW c \in Callers, Done(c, "error"), Quiet,
         req[c].pc # "done", req[c].pc # "await" \/ req[c].reply # <<>>
  PROVE  RequestsInv' /\ Told
BY DoneKeeps

\* A step that leaves the log and the owner alone.
LEMMA TypedSame ==
  ASSUME RequestsInv, UNCHANGED <<log, owner>>
  PROVE  Typed
BY DEF RequestsInv, RequestTypes, Typed

LEMMA BeginKeeps ==
  ASSUME RequestsInv, RequestsNext, NEW c \in Callers, NEW kind \in Kinds, Begin(c, kind)
  PROVE  RequestsInv' /\ Told
<1> DEFINE point == CASE kind = "focus" -> "activate"
                      [] kind = "disconnect" -> "look"
                      [] kind \in LogKinds -> "check"
                      [] OTHER -> "enabled"
           r == [NewRequest EXCEPT !.kind = kind, !.pc = point]
<1>1. /\ kind \in RequestKinds
      /\ kind \notin LogKinds \union {"focus", "disconnect"} => kind \in ConnectKinds
  BY RequestsAssumption DEF RequestKinds
<1>2. point \in Points \ {"idle", "await", "done"}
  BY DEF Points
<1>3. /\ r.kind = kind /\ r.pc = point /\ r.got = {} /\ r.result = "none" /\ r.reply = <<>>
      /\ r.prompts = <<>>
  BY DEF NewRequest
<1>4. r \in RequestStates
  <2>1. <<>> \in Replies /\ <<>> \in AskSeqs /\ {} \in Gots /\ NoWindow \in Recipients
    BY DEF Replies, AskSeqs, Gots, Recipients
  <2> QED  BY <1>1, <1>2, <2>1 DEF RequestStates, NewRequest
<1>5. point \in {"activate", "look", "check", "enabled"} /\ KindFits(r)
  BY <1>1, <1>3 DEF KindFits, LogKinds, ConnectKinds
<1>6. Set(c, r) /\ req[c].pc = "idle" /\ Quiet /\ UNCHANGED guiVars
  BY DEF Begin
<1>7. req[c] \in RequestStates
  BY DEF RequestsInv, RequestTypes
<1> HIDE DEF point
<1>8. RequestFits(c, r, seen'[c], granted'[c])
  BY <1>3, <1>5 DEF RequestFits
<1> HIDE DEF r
<1>9. Typed
  BY <1>6, TypedSame DEF guiVars
<1>10. pending' = pending /\ inbox' = inbox /\ ids' = ids
  BY <1>6 DEF Quiet
<1>11. RequestsInv'
  BY <1>2, <1>3, <1>4, <1>6, <1>8, <1>9, <1>10, MoveKeeps
<1>12. Told
  BY <1>3, <1>6, MoveTells DEF RequestsInv
<1> QED  BY <1>11, <1>12

\* At each point there are requests of some kinds only, and they fit it.
LEMMA AtPoint ==
  ASSUME RequestsInv, NEW c \in Callers
  PROVE  KindFits(req[c]) /\ req[c] \in RequestStates /\ RequestFits(c, req[c], seen[c], granted[c])
BY DEF RequestsInv, RequestTypes, RequestFits

LEMMA FocusActivateKeeps ==
  ASSUME RequestsInv, RequestsNext, NEW c \in Callers, FocusActivate(c)
  PROVE  RequestsInv' /\ Told
<1>1. Typed /\ req[c].pc = "activate" /\ req[c].kind = "focus"
  BY TypedSame, AtPoint DEF FocusActivate, KindFits
<1>2. CASE owner = NoWindow /\ Done(c, "error") /\ Quiet
  BY <1>1, <1>2, Fails
<1>3. CASE owner # NoWindow /\ Send(c, owner, "focus")
  <2>1. owner \in Windows \union {AnyWindow}
    BY <1>3 DEF RequestsInv, RequestTypes
  <2>2. "focus" \in Whats /\ "focus" = Asked(req[c])
    BY <1>1 DEF Whats, Asked, ConnectKinds
  <2> QED  BY <1>1, <1>3, <2>1, <2>2, SendKeeps
<1> QED  BY <1>2, <1>3 DEF FocusActivate

LEMMA RetryKeeps ==
  ASSUME RequestsInv, RequestsNext, Typed, NEW c \in Callers, Retry(c), Quiet,
         req[c].kind = "focus", req[c].pc # "done", req[c].pc # "await" \/ req[c].reply # <<>>
  PROVE  RequestsInv' /\ Told
<1>1. CASE Set(c, [req[c] EXCEPT !.attempt = 1, !.pc = "activate"])
  <2> DEFINE r == [req[c] EXCEPT !.attempt = 1, !.pc = "activate"]
  <2>1. req[c] \in RequestStates /\ "activate" \in Points /\ req \in [Callers -> RequestStates]
    BY DEF Points, RequestsInv, RequestTypes
  <2>2. /\ r \in RequestStates /\ r.pc = "activate" /\ r.kind = "focus"
        /\ r.got = req[c].got /\ r.result = req[c].result
    BY <2>1 DEF RequestStates
  <2>3. req'[c] = r
    BY <1>1, <2>1 DEF Set
  <2>4. RequestFits(c, req[c], seen'[c], granted'[c])
    BY <2>2, <2>3, RunningFits
  <2>5. RequestFits(c, r, seen'[c], granted'[c])
    BY <2>2, <2>4 DEF RequestFits, KindFits, ConnectKinds
  <2>6. Set(c, r)
    BY <1>1
  <2> HIDE DEF r
  <2> QED  BY <2>2, <2>5, <2>6, GoesOn
<1>2. CASE Done(c, "error")
  BY <1>2, Fails
<1> QED  BY <1>1, <1>2 DEF Retry

LEMMA FocusAnsweredKeeps ==
  ASSUME RequestsInv, RequestsNext, NEW c \in Callers, FocusAnswered(c)
  PROVE  RequestsInv' /\ Told
<1>1. /\ Typed /\ Quiet /\ req[c].kind = "focus" /\ req[c].pc = "await" /\ req[c].reply # <<>>
      /\ "show" \in Points
  BY TypedSame DEF FocusAnswered, guiVars, Points
<1>2. CASE Done(c, "error")
  BY <1>1, <1>2, Fails
<1>3. CASE Retry(c)
  BY <1>1, <1>3, RetryKeeps
<1>4. CASE Goto(c, "show")
  <2>1. KindFits([req[c] EXCEPT !.pc = "show"])
    BY <1>1, <1>4, GotoParts DEF KindFits
  <2> QED  BY <1>1, <1>4, <2>1, GotoKeeps
<1> QED  BY <1>2, <1>3, <1>4 DEF FocusAnswered

LEMMA FocusShowKeeps ==
  ASSUME RequestsInv, RequestsNext, NEW c \in Callers, FocusShow(c)
  PROVE  RequestsInv' /\ Told
<1>1. Typed /\ Quiet /\ req[c].pc = "show" /\ req[c].kind = "focus"
  BY TypedSame, AtPoint DEF FocusShow, KindFits
<1>2. CASE MayShow(c) /\ focused' = req[c].window /\ Done(c, "ok")
  <2>1. req'[c].kind = "focus" /\ req'[c].window = req[c].window
    BY <1>1, <1>2, DoneParts
  <2>2. FocusHolds(c)' /\ LogHolds(c)' /\ ConnectHolds(c)'
    BY <1>2, <2>1 DEF FocusShow, MayShow, FocusHolds, LogHolds, ConnectHolds, ConnectKinds
  <2> QED  BY <1>1, <1>2, <2>2, DoneKeeps
<1>3. CASE Done(c, "error")
  BY <1>1, <1>3, Fails
<1>4. CASE Retry(c)
  BY <1>1, <1>4, RetryKeeps
<1> QED  BY <1>2, <1>3, <1>4 DEF FocusShow

\* A request about the log that is answered with success.
LEMMA LogDone ==
  ASSUME RequestsInv, RequestsNext, Typed, NEW c \in Callers, Done(c, "ok"), Quiet,
         req[c].pc # "done", req[c].pc # "await" \/ req[c].reply # <<>>,
         req[c].kind \in LogKinds \union {"disconnect"},
         req[c].kind = "start" => log' \in {"active", "paused"},
         req[c].kind \in LogKinds \ {"start"} => LogSeen(req[c].kind, seen'[c]),
         req[c].kind = "disconnect" => ~live' \/ opened' = "listed"
  PROVE  RequestsInv' /\ Told
<1>1. req'[c].kind = req[c].kind /\ req'[c].pc = "done"
  BY DoneParts
<1>2. log' \in seen'[c]
  BY <1>1, RunningFits
<1>3. FocusHolds(c)' /\ LogHolds(c)' /\ ConnectHolds(c)'
  BY <1>1, <1>2 DEF FocusHolds, LogHolds, ConnectHolds, ConnectKinds, LogKinds, LogSeen
<1> QED  BY <1>3, DoneKeeps

LEMMA LogCheckKeeps ==
  ASSUME RequestsInv, RequestsNext, NEW c \in Callers, LogCheck(c)
  PROVE  RequestsInv' /\ Told
<1>1. Typed /\ Quiet /\ req[c].pc = "check" /\ req[c].kind \in LogKinds /\ log \in Logs /\ log' = log
  BY TypedSame, AtPoint DEF LogCheck, KindFits, guiVars, RequestsInv, RequestTypes
<1>2. CASE Done(c, "error")
  BY <1>1, <1>2, Fails
<1>3. CASE Goto(c, "send")
  <2>1. "send" \in Points
    BY DEF Points
  <2>2. KindFits([req[c] EXCEPT !.pc = "send"])
    BY <1>1, <1>3, <2>1, GotoParts DEF KindFits
  <2>3. req[c].kind \notin ConnectKinds
    BY <1>1 DEF LogKinds, ConnectKinds
  <2> QED  BY <1>1, <1>3, <2>1, <2>2, <2>3, GotoKeeps
<1>4. CASE /\ req[c].kind \in {"pause", "resume"}
           /\ log = (IF req[c].kind = "pause" THEN "paused" ELSE "active")
           /\ Done(c, "ok")
  <2>1. req'[c].pc = "done"
    BY <1>4, DoneParts
  <2>2. log' \in seen'[c]
    BY <1>1, <2>1, RunningFits
  <2>3. LogSeen(req[c].kind, seen'[c])
    BY <1>1, <1>4, <2>2 DEF LogSeen
  <2> QED  BY <1>1, <1>4, <2>3, LogDone
<1> QED  BY <1>1, <1>2, <1>3, <1>4 DEF LogCheck, LogKinds

LEMMA LogSendKeeps ==
  ASSUME RequestsInv, RequestsNext, NEW c \in Callers, LogSend(c)
  PROVE  RequestsInv' /\ Told
<1> DEFINE what == IF req[c].kind = "disconnect" THEN "stop" ELSE req[c].kind
<1>1. Typed /\ req[c].pc = "send" /\ req[c].kind \in LogKinds \union {"disconnect"}
  BY TypedSame, AtPoint DEF LogSend, KindFits, guiVars
<1>2. CASE owner = NoWindow /\ Done(c, "error") /\ Quiet
  BY <1>1, <1>2, Fails
<1>3. CASE owner # NoWindow /\ Send(c, owner, what)
  <2>1. owner \in Windows \union {AnyWindow}
    BY <1>3 DEF RequestsInv, RequestTypes
  <2>2. what \in Whats /\ what = Asked(req[c])
    BY <1>1 DEF Whats, Asked, LogKinds, ConnectKinds
  <2> QED  BY <1>1, <1>3, <2>1, <2>2, SendKeeps
<1> QED  BY <1>2, <1>3 DEF LogSend

LEMMA LogAnsweredKeeps ==
  ASSUME RequestsInv, RequestsNext, NEW c \in Callers, LogAnswered(c)
  PROVE  RequestsInv' /\ Told
<1>1. /\ Typed /\ Quiet /\ req[c].kind \in LogKinds \union {"disconnect"}
      /\ req[c].pc = "await" /\ req[c].reply # <<>>
      /\ "verify" \in Points /\ "close" \in Points /\ req[c].kind \notin ConnectKinds
  BY TypedSame DEF LogAnswered, guiVars, Points, LogKinds, ConnectKinds
<1>2. /\ Head(req[c].reply) \in {"yes", "no"}
      /\ Head(req[c].reply) = "yes" => LogSeen(Asked(req[c]), seen[c])
  BY <1>1, AtPoint DEF RequestFits
<1>3. CASE Done(c, "error")
  BY <1>1, <1>3, Fails
<1>4. CASE req[c].kind = "start" /\ Goto(c, "verify")
  <2>1. KindFits([req[c] EXCEPT !.pc = "verify"])
    BY <1>1, <1>4, GotoParts DEF KindFits
  <2> QED  BY <1>1, <1>4, <2>1, GotoKeeps
<1>5. CASE req[c].kind = "disconnect" /\ Goto(c, "close")
  <2>1. KindFits([req[c] EXCEPT !.pc = "close"])
    BY <1>1, <1>5, GotoParts DEF KindFits
  <2> QED  BY <1>1, <1>5, <2>1, GotoKeeps
<1>6. CASE /\ Head(req[c].reply) = "yes" /\ req[c].kind \in LogKinds \ {"start"}
           /\ Done(c, "ok")
  <2>1. Asked(req[c]) = req[c].kind
    BY <1>6 DEF Asked, LogKinds, ConnectKinds
  <2>2. req'[c].pc = "done"
    BY <1>6, DoneParts
  <2>3. seen[c] \subseteq seen'[c]
    BY <1>1, <2>2, RunningFits
  <2>4. LogSeen(req[c].kind, seen'[c])
    BY <1>2, <1>6, <2>1, <2>3 DEF LogSeen
  <2> QED  BY <1>1, <1>6, <2>4, LogDone DEF LogKinds
<1> QED  BY <1>1, <1>2, <1>3, <1>4, <1>5, <1>6 DEF LogAnswered, Says, LogKinds

LEMMA StartVerifyKeeps ==
  ASSUME RequestsInv, RequestsNext, NEW c \in Callers, StartVerify(c)
  PROVE  RequestsInv' /\ Told
<1>1. /\ Typed /\ Quiet /\ req[c].pc = "verify" /\ req[c].kind = "start"
      /\ log' = log /\ log \in Logs
  BY TypedSame, AtPoint DEF StartVerify, guiVars, KindFits, RequestsInv, RequestTypes
<1>2. CASE log = "inactive"
  BY <1>1, <1>2, Fails DEF StartVerify
<1>3. CASE log # "inactive"
  <2>1. Done(c, "ok")
    BY <1>3 DEF StartVerify
  <2> QED  BY <1>1, <1>3, <2>1, LogDone DEF Logs, LogKinds
<1> QED  BY <1>2, <1>3

LEMMA DisconnectLookKeeps ==
  ASSUME RequestsInv, RequestsNext, NEW c \in Callers, DisconnectLook(c)
  PROVE  RequestsInv' /\ Told
<1>1. /\ Typed /\ Quiet /\ req[c].pc = "look" /\ req[c].kind = "disconnect" /\ live' = live
      /\ "send" \in Points /\ "close" \in Points /\ req[c].kind \notin ConnectKinds
  BY TypedSame, AtPoint DEF DisconnectLook, guiVars, KindFits, Points, ConnectKinds
<1>2. CASE ~live /\ Done(c, "ok")
  BY <1>1, <1>2, LogDone DEF LogKinds
<1>4. CASE Done(c, "error")
  BY <1>1, <1>4, Fails
<1>3. ASSUME NEW point \in {"send", "close"}, Goto(c, point)
      PROVE  RequestsInv' /\ Told
  <2>1. KindFits([req[c] EXCEPT !.pc = point])
    BY <1>1, <1>3, GotoParts DEF KindFits
  <2> QED  BY <1>1, <1>3, <2>1, GotoKeeps
<1> QED  BY <1>2, <1>3, <1>4 DEF DisconnectLook

LEMMA DisconnectCloseKeeps ==
  ASSUME RequestsInv, RequestsNext, NEW c \in Callers, DisconnectClose(c)
  PROVE  RequestsInv' /\ Told
<1>1. Typed /\ Quiet /\ req[c].pc = "close" /\ req[c].kind = "disconnect"
  BY AtPoint DEF DisconnectClose, KindFits, RequestsInv, RequestTypes, Typed, Logs
<1>2. CASE (live' = FALSE \/ opened' = "listed") /\ Done(c, "ok")
  BY <1>1, <1>2, LogDone DEF LogKinds
<1>3. CASE Done(c, "error")
  BY <1>1, <1>3, Fails
<1> QED  BY <1>2, <1>3 DEF DisconnectClose

LEMMA ConnectEnabledKeeps ==
  ASSUME RequestsInv, RequestsNext, NEW c \in Callers, ConnectEnabled(c)
  PROVE  RequestsInv' /\ Told
<1>1. /\ Typed /\ Quiet /\ req[c].pc = "enabled" /\ req[c].kind \in ConnectKinds
      /\ settings' = settings /\ "direct" \in Points /\ "prepare" \in Points
  BY TypedSame, AtPoint DEF ConnectEnabled, guiVars, KindFits, Points
<1>2. CASE Done(c, "error")
  BY <1>1, <1>2, Fails
<1>3. ASSUME "connect" \in settings,
             NEW point \in {"direct", "prepare"}, Goto(c, point),
             point = IF req[c].kind = "direct" THEN "direct" ELSE "prepare"
      PROVE  RequestsInv' /\ Told
  <2> DEFINE r == [req[c] EXCEPT !.pc = point]
  <2>1. point \in Points /\ (point = "direct" => req[c].kind = "direct")
    BY <1>1, <1>3
  <2>2. r.pc = point /\ r.kind = req[c].kind /\ req'[c] = r
    BY <1>3, <2>1, GotoParts
  <2> HIDE DEF r
  <2>3. KindFits(r)
    BY <1>1, <1>3, <2>1, <2>2 DEF KindFits
  <2>4. "connect" \in granted'[c]
    BY <1>1, <1>3, <2>2, RunningFits
  <2> USE DEF r
  <2> QED  BY <1>1, <1>3, <2>1, <2>3, <2>4, GotoKeeps
<1> QED  BY <1>2, <1>3 DEF ConnectEnabled

LEMMA DirectEnabledKeeps ==
  ASSUME RequestsInv, RequestsNext, NEW c \in Callers, DirectEnabled(c)
  PROVE  RequestsInv' /\ Told
<1>1. /\ Typed /\ Quiet /\ req[c].pc = "direct" /\ req[c].kind = "direct"
      /\ settings' = settings /\ "prepare" \in Points /\ "direct" \in ConnectKinds
  BY TypedSame, AtPoint DEF DirectEnabled, guiVars, KindFits, Points, ConnectKinds
<1>2. CASE Done(c, "error")
  BY <1>1, <1>2, Fails
<1>3. CASE "direct" \in settings /\ Goto(c, "prepare")
  <2>1. /\ KindFits([req[c] EXCEPT !.pc = "prepare"]) /\ req'[c].pc = "prepare"
    BY <1>1, <1>3, GotoParts DEF KindFits
  <2>2. "direct" \in granted'[c] /\ RequestFits(c, req[c], seen'[c], granted'[c])
    BY <1>1, <1>3, <2>1, RunningFits
  <2>3. "connect" \in granted'[c]
    BY <1>1, <2>2 DEF RequestFits
  <2> QED  BY <1>1, <1>3, <2>1, <2>2, <2>3, GotoKeeps
<1> QED  BY <1>2, <1>3 DEF DirectEnabled

LEMMA PrepareKeeps ==
  ASSUME RequestsInv, RequestsNext, NEW c \in Callers, Prepare(c)
  PROVE  RequestsInv' /\ Told
<1>1. /\ Typed /\ Quiet /\ req[c].pc = "prepare" /\ req[c].kind \in ConnectKinds
      /\ settings' = settings /\ req[c] \in RequestStates /\ req \in [Callers -> RequestStates]
  BY TypedSame, AtPoint DEF Prepare, guiVars, KindFits, RequestsInv, RequestTypes
<1>2. CASE Done(c, "error")
  BY <1>1, <1>2, Fails
<1>3. ASSUME NEW throughJump \in BOOLEAN, MayUse(c, throughJump),
             NEW prompts \in Prompts(c, throughJump),
             Set(c, [req[c] EXCEPT !.pc = "prompt", !.prompts = prompts])
      PROVE  RequestsInv' /\ Told
  <2> DEFINE r == [req[c] EXCEPT !.pc = "prompt", !.prompts = prompts]
  <2>1. prompts \in AskSeqs
    BY <1>3 DEF Prompts, AskSeqs
  <2>2. "prompt" \in Points
    BY DEF Points
  <2>3. /\ r \in RequestStates /\ r.pc = "prompt" /\ r.kind = req[c].kind
        /\ r.got = req[c].got /\ r.result = req[c].result
    BY <1>1, <2>1, <2>2 DEF RequestStates
  <2>4. Set(c, r) /\ req'[c] = r
    BY <1>1, <1>3 DEF Set
  <2> HIDE DEF r
  <2>5. RequestFits(c, req[c], seen'[c], granted'[c]) /\ settings \subseteq granted'[c]
    BY <1>1, <2>3, <2>4, RunningFits
  <2>6. req[c].kind = "saved" => "profile" \in granted'[c]
    BY <1>3, <2>5 DEF MayUse
  <2>7. KindFits(r)
    BY <1>1, <2>3 DEF KindFits
  <2>8. RequestFits(c, r, seen'[c], granted'[c])
    BY <1>1, <2>3, <2>5, <2>6, <2>7 DEF RequestFits
  <2> QED  BY <1>1, <2>3, <2>4, <2>8, GoesOn
<1> QED  BY <1>2, <1>3 DEF Prepare

LEMMA AskCredentialKeeps ==
  ASSUME RequestsInv, RequestsNext, NEW c \in Callers, AskCredential(c)
  PROVE  RequestsInv' /\ Told
<1>1. /\ Typed /\ req[c].pc = "prompt" /\ req[c].kind \in ConnectKinds /\ req[c].prompts # <<>>
      /\ req[c].prompts \in AskSeqs
  BY TypedSame, AtPoint DEF AskCredential, guiVars, KindFits, RequestStates
<1>2. Head(req[c].prompts) \in {"jump", "profile"}
  BY <1>1, AskSeqsParts
<1>3. Head(req[c].prompts) \in Whats /\ Asked(req[c]) = Head(req[c].prompts)
  BY <1>1, <1>2 DEF Whats, Asked, ConnectKinds
<1> QED  BY <1>1, <1>3, SendKeeps DEF AskCredential

\* A secret that is taken is the one asked of this caller for that endpoint.
LEMMA CredentialAnsweredKeeps ==
  ASSUME RequestsInv, RequestsNext, NEW c \in Callers, CredentialAnswered(c)
  PROVE  RequestsInv' /\ Told
<1>1. /\ Typed /\ Quiet /\ req[c].pc = "await" /\ req[c].kind \in ConnectKinds
      /\ req[c].reply # <<>> /\ req[c] \in RequestStates /\ req \in [Callers -> RequestStates]
  BY TypedSame, AtPoint DEF CredentialAnswered, guiVars, RequestsInv, RequestTypes
<1>2. CASE Done(c, "error")
  BY <1>1, <1>2, Fails
<1> DEFINE secret == <<Head(req[c].prompts), Tail(req[c].reply)>>
           r == [req[c] EXCEPT !.pc = "prompt", !.prompts = Tail(@), !.got = @ \union {secret}]
<1>3. CASE Set(c, r)
  <2>1. RequestFits(c, req[c], seen[c], granted[c])
    BY AtPoint
  <2>2. req[c].prompts # <<>> /\ req[c].prompts \in AskSeqs
    BY <1>1, <2>1 DEF RequestFits, RequestStates
  <2>3. Head(req[c].prompts) \in {"jump", "profile"} /\ Tail(req[c].prompts) \in AskSeqs
    BY <2>2, AskSeqsParts
  <2>4. Tail(req[c].reply) = <<c, Head(req[c].prompts)>>
    BY <1>1, <2>1 DEF RequestFits, Asked, ConnectKinds
  <2>5. secret \in Secrets(c)
    BY <2>3, <2>4 DEF Secrets
  <2> HIDE DEF secret
  <2>6. req[c].got \union {secret} \subseteq Secrets(c)
    BY <2>1, <2>5 DEF RequestFits
  <2>7. req[c].got \union {secret} \in Gots
    BY <2>6 DEF Gots
  <2>8. "prompt" \in Points
    BY DEF Points
  <2>9. /\ r \in RequestStates /\ r.pc = "prompt" /\ r.kind = req[c].kind
        /\ r.got = req[c].got \union {secret} /\ r.result = req[c].result
    BY <1>1, <2>3, <2>7, <2>8 DEF RequestStates
  <2>10. req'[c] = r
    BY <1>1, <1>3 DEF Set
  <2> HIDE DEF r
  <2>11. RequestFits(c, req[c], seen'[c], granted'[c])
    BY <1>1, <2>9, <2>10, RunningFits
  <2>12. KindFits(r)
    BY <1>1, <2>9 DEF KindFits
  <2>13. RequestFits(c, r, seen'[c], granted'[c])
    BY <1>1, <2>6, <2>9, <2>11, <2>12 DEF RequestFits
  <2> QED  BY <1>1, <1>3, <2>9, <2>13, GoesOn
<1> QED  BY <1>2, <1>3 DEF CredentialAnswered

LEMMA ConnectKeeps ==
  ASSUME RequestsInv, RequestsNext, NEW c \in Callers, Connect(c)
  PROVE  RequestsInv' /\ Told
<1>1. Typed /\ Quiet /\ req[c].pc = "prompt" /\ req[c].kind \in ConnectKinds /\ "finish" \in Points
  BY TypedSame, AtPoint DEF Connect, guiVars, KindFits, Points
<1>2. CASE Done(c, "error")
  BY <1>1, <1>2, Fails
<1>3. CASE Goto(c, "finish")
  <2>1. KindFits([req[c] EXCEPT !.pc = "finish"]) /\ req'[c].pc = "finish"
    BY <1>1, <1>3, GotoParts DEF KindFits
  <2>2. RequestFits(c, req[c], seen'[c], granted'[c])
    BY <1>1, <2>1, RunningFits
  <2>3. /\ "connect" \in granted'[c]
        /\ req[c].kind = "direct" => "direct" \in granted'[c]
        /\ req[c].kind = "saved" => "profile" \in granted'[c]
    BY <1>1, <2>2 DEF RequestFits
  <2> QED  BY <1>1, <1>3, <2>1, <2>3, GotoKeeps
<1> QED  BY <1>2, <1>3 DEF Connect

LEMMA AutoLogKeeps ==
  ASSUME RequestsInv, RequestsNext, NEW c \in Callers, AutoLog(c)
  PROVE  RequestsInv' /\ Told
<1>1. /\ Typed /\ Quiet /\ req[c].pc = "finish" /\ req[c].kind \in ConnectKinds
      /\ req[c] \in RequestStates /\ req \in [Callers -> RequestStates] /\ "register" \in Points
  BY TypedSame, AtPoint DEF AutoLog, guiVars, KindFits, RequestsInv, RequestTypes, Points
<1>2. PICK logging \in BOOLEAN : Set(c, [req[c] EXCEPT !.pc = "register", !.logging = logging])
  BY DEF AutoLog
<1> DEFINE r == [req[c] EXCEPT !.pc = "register", !.logging = logging]
<1>3. /\ r \in RequestStates /\ r.pc = "register" /\ r.kind = req[c].kind
      /\ r.got = req[c].got /\ r.result = req[c].result
  BY <1>1 DEF RequestStates
<1>4. Set(c, r) /\ req'[c] = r
  BY <1>1, <1>2 DEF Set
<1> HIDE DEF r
<1>5. RequestFits(c, req[c], seen'[c], granted'[c])
  BY <1>1, <1>3, <1>4, RunningFits
<1>6. KindFits(r)
  BY <1>1, <1>3 DEF KindFits
<1>7. RequestFits(c, r, seen'[c], granted'[c])
  BY <1>1, <1>3, <1>5, <1>6 DEF RequestFits
<1> QED  BY <1>1, <1>3, <1>4, <1>7, GoesOn

LEMMA RegisterTabKeeps ==
  ASSUME RequestsInv, RequestsNext, NEW c \in Callers, RegisterTab(c)
  PROVE  RequestsInv' /\ Told
<1>1. /\ Typed /\ Quiet /\ req[c].pc = "register" /\ req[c].kind \in ConnectKinds
      /\ Done(c, "ok") /\ made' = made \union {<<c, req[c].logging>>}
  BY TypedSame, AtPoint DEF RegisterTab, KindFits
<1>2. /\ req'[c].kind = req[c].kind /\ req'[c].got = req[c].got /\ req'[c].pc = "done"
      /\ req'[c].logging = req[c].logging
  BY <1>1, DoneParts
<1>3. RequestFits(c, req[c], seen'[c], granted'[c])
  BY <1>1, <1>2, RunningFits
<1>4. /\ "connect" \in granted'[c]
      /\ req[c].kind = "direct" => "direct" \in granted'[c]
      /\ req[c].kind = "saved" => "profile" \in granted'[c]
      /\ req[c].got \subseteq Secrets(c)
  BY <1>1, <1>3 DEF RequestFits
<1>5. \A g \in req[c].got : g[2] = <<c, g[1]>>
  BY <1>4 DEF Secrets
<1>6. ConnectHolds(c)'
  BY <1>1, <1>2, <1>4, <1>5 DEF ConnectHolds
<1>7. FocusHolds(c)' /\ LogHolds(c)'
  BY <1>1, <1>2 DEF FocusHolds, LogHolds, ConnectKinds
<1> QED  BY <1>1, <1>6, <1>7, DoneKeeps

LEMMA RequestsKeep ==
  ASSUME RequestsInv, RequestsNext
  PROVE  RequestsInv' /\ Told
<1>1. CASE Gui
  BY <1>1, GuiKeeps
<1>2. CASE \E w \in Windows : WindowLost(w)
  BY <1>2, WindowLostKeeps
<1>13. CASE Opens
  BY <1>13, OpensKeeps
<1>3. ASSUME NEW c \in Callers, \E kind \in Kinds : Begin(c, kind)
      PROVE  RequestsInv' /\ Told
  BY <1>3, BeginKeeps
<1>4. ASSUME NEW c \in Callers, TimesOut(c)
      PROVE  RequestsInv' /\ Told
  BY <1>4, TimesOutKeeps
<1>5. ASSUME NEW c \in Callers, FocusActivate(c) \/ FocusAnswered(c) \/ FocusShow(c)
      PROVE  RequestsInv' /\ Told
  BY <1>5, FocusActivateKeeps, FocusAnsweredKeeps, FocusShowKeeps
<1>6. ASSUME NEW c \in Callers, LogCheck(c) \/ LogSend(c) \/ LogAnswered(c) \/ StartVerify(c)
      PROVE  RequestsInv' /\ Told
  BY <1>6, LogCheckKeeps, LogSendKeeps, LogAnsweredKeeps, StartVerifyKeeps
<1>7. ASSUME NEW c \in Callers, DisconnectLook(c) \/ DisconnectClose(c)
      PROVE  RequestsInv' /\ Told
  BY <1>7, DisconnectLookKeeps, DisconnectCloseKeeps
<1>8. ASSUME NEW c \in Callers, ConnectEnabled(c) \/ DirectEnabled(c) \/ Prepare(c)
      PROVE  RequestsInv' /\ Told
  BY <1>8, ConnectEnabledKeeps, DirectEnabledKeeps, PrepareKeeps
<1>9. ASSUME NEW c \in Callers, AskCredential(c) \/ CredentialAnswered(c)
      PROVE  RequestsInv' /\ Told
  BY <1>9, AskCredentialKeeps, CredentialAnsweredKeeps
<1>10. ASSUME NEW c \in Callers, Connect(c) \/ AutoLog(c) \/ RegisterTab(c)
       PROVE  RequestsInv' /\ Told
  BY <1>10, ConnectKeeps, AutoLogKeeps, RegisterTabKeeps
<1>11. ASSUME NEW m \in inbox, WindowSelects(m) \/ UserAnswers(m)
       PROVE  RequestsInv' /\ Told
  BY <1>11, AnswersKeep
<1>12. ASSUME NEW m \in inbox, WindowBegins(m) \/ WindowActs(m) \/ WindowSubmits(m)
       PROVE  RequestsInv' /\ Told
  BY <1>12, WindowBeginsKeeps, WindowActsKeeps, WindowSubmitsKeeps
<1> QED
  BY <1>1, <1>2, <1>3, <1>4, <1>5, <1>6, <1>7, <1>8, <1>9, <1>10, <1>11, <1>12, <1>13
  DEF RequestsNext, Step

LEMMA RequestsStart ==
  ASSUME InitRequests
  PROVE  RequestsInv
<1>1. NewRequest \in RequestStates
  <2>1. /\ <<>> \in Replies /\ <<>> \in AskSeqs /\ {} \in Gots /\ NoWindow \in Recipients
        /\ "none" \in RequestKinds /\ "idle" \in Points
    BY DEF Replies, AskSeqs, Gots, Recipients, RequestKinds, Points
  <2> QED  BY <2>1 DEF RequestStates, NewRequest
<1>2. RequestTypes
  BY <1>1 DEF InitRequests, RequestTypes, Logs
<1>3. EntriesFit /\ MessagesFit /\ MessagesMatch
  BY DEF InitRequests, EntriesFit, MessagesFit, MessagesMatch
<1>4. NewRequest.pc = "idle" /\ NewRequest.got = {}
  BY DEF NewRequest
<1>5. ASSUME NEW c \in Callers
      PROVE  RequestFits(c, req[c], seen[c], granted[c])
  BY <1>4 DEF InitRequests, RequestFits, KindFits
<1> QED  BY <1>2, <1>3, <1>5 DEF RequestsInv

\* ResultsHold: a caller that is told of success is told what has happened, for
\* any windows, callers and kinds of request, and any number of moves of the GUI.
THEOREM ResultsHoldHolds == Spec => ResultsHold
<1>1. InitExternal => RequestsInv
  BY RequestsStart DEF InitExternal
<1>2. ASSUME RequestsInv, [ExternalNext]_externalVars
      PROVE  RequestsInv' /\ (Told \/ UNCHANGED requestVars) /\ \A c \in Callers : AnswerHolds(c)'
  <2>1. RequestsNext => RequestsInv' /\ Told
    BY <1>2, RequestsKeep
  <2>2. UNCHANGED requestVars => RequestsInv'
    BY <1>2 DEF requestVars, guiVars, RequestsInv, RequestTypes, EntriesFit, MessagesFit,
                      MessagesMatch
  <2>3. RequestsInv' => \A c \in Callers : AnswerHolds(c)'
    BY DEF RequestsInv, RequestFits, AnswerHolds
  <2> QED  BY <1>2, <2>1, <2>2, <2>3 DEF ExternalNext, externalVars
<1>3. (Told \/ UNCHANGED requestVars) /\ (\A c \in Callers : AnswerHolds(c)')
        => [\A c \in Callers :
              /\ AnswerHolds(c)'
              /\ req'[c].result = "ok" /\ req[c].result # "ok" =>
                   FocusHolds(c)' /\ LogHolds(c)' /\ ConnectHolds(c)']_requestVars
  BY DEF Told
<1> QED  BY <1>1, <1>2, <1>3, PTL DEF Spec, ResultsHold
=============================================================================
