------------------------ MODULE SerialSessionProofs ------------------------
(***************************************************************************)
(* Proofs of the safety properties of SerialSession, for any number of     *)
(* disconnect commands and blocks and any budgets.                         *)
(*                                                                         *)
(* Inv says, for every state of the coordinator, what it has already       *)
(* joined, released, marked and closed.  It also says that nothing asks    *)
(* for a shutdown before the session is published, save the connect        *)
(* command that gives up, and how the deadlines the writer published relate*)
(* to the ones the coordinator took.                                       *)
(*                                                                         *)
(* The last part proves the arithmetic of WriteTiming, for every baud rate *)
(* and every length of the data.                                           *)
(***************************************************************************)
EXTENDS WriteTiming, TLAPS

AfterMarking == {"clearingLogs", "completing", "done"}
AfterOutput == AfterMarking \union {"marking"}
AfterReader == AfterOutput \union {"joiningOutput"}
AfterClear == AfterReader \union {"joiningReader"}
AfterWriter == AfterClear \union {"settling", "clearing"}

\* The connect command: what exists before the workers are spawned, before the session
\* is published, and after.
Connecting ==
  /\ connect \in {"opening", "opened"} => coord = "none"
  /\ connect = "opened" => handles = {"reader", "writer", "control"}
  /\ connect \in {"opening", "opened", "spawned", "registered"} => running /\ ~requested
  /\ published => connect = "connected"
  /\ connect \in {"registered", "connected"} => terminal # "none"

\* Nothing moves through a session that was not published.
Unpublished ==
  connect # "connected" =>
    /\ queue = 0 /\ writer \in {"none", "receiving", "exited"}
    /\ reader \in {"none", "waiting", "exited"}
    /\ output.blocks = 0 /\ ~output.error

\* The coordinator leaves its first state on a request, and then no write begins.
Stopped ==
  /\ requested => ~running
  /\ coord \notin {"none", "waiting"} => ~running
  /\ coord = "none" => writer = "none" /\ reader = "none" /\ succeeded = {}

\* What the coordinator has joined, and which handles are open.
Joined ==
  /\ coord \in AfterWriter => writer = "exited"
  /\ coord \in AfterReader => reader = "exited"
  /\ coord \in AfterOutput => outputTask = "exited"

Handles ==
  /\ writer \in {"failing", "exited"} => "writer" \notin handles
  /\ reader = "exited" => "reader" \notin handles
  /\ coord \in AfterClear => "control" \notin handles
  /\ coord \in {"waiting", "stopping", "settling", "clearing"} => "control" \in handles

\* What the coordinator has marked and closed.
Marked ==
  /\ coord \in AfterMarking => terminal # "connected"
  /\ coord \notin AfterMarking => terminal # "disconnected"
  /\ log <=> coord \notin {"completing", "done"}
  /\ completed => coord = "done"
  /\ \A c \in Caller : caller[c] = "returned" => completed

\* The deadlines of the writer, and those the coordinator took from it.
Deadlines ==
  /\ writer = "writing" => active = deadline
  /\ \A d \in succeeded : d <= settle
  /\ coord = "stopping" =>
       /\ settle <= settleBy
       /\ writer = "writing" => cutoff = deadline /\ deadline <= settleBy
  /\ coord = "settling" => settle <= settleBy
  /\ coord \in AfterClear \union {"clearing"} => failed \/ settle <= now

Inv ==
  /\ TypeOK /\ Connecting /\ Unpublished /\ Stopped /\ Joined /\ Handles /\ Marked /\ Deadlines

-----------------------------------------------------------------------------
(* The groups of variables, the states of the processes and the sets of    *)
(* states of the coordinator are unfolded throughout.                      *)
USE DEF connectVars, shutdownVars, writerVars, readerVars, coordVars,
        ConnectState, WriterState, ReaderState, CoordState, Answer,
        AfterMarking, AfterOutput, AfterReader, AfterClear, AfterWriter

\* TypeOK, by the groups of variables.
TypeShared ==
  /\ connect \in ConnectState
  /\ handles \subseteq {"reader", "writer", "control"}
  /\ terminal \in {"none", "connected", "disconnected"}
  /\ published \in BOOLEAN /\ running \in BOOLEAN /\ requested \in BOOLEAN
  /\ completed \in BOOLEAN /\ sender \in BOOLEAN
  /\ caller \in [Caller -> {"idle", "waiting", "returned", "notFound"}]
  /\ asking \subseteq {"writer", "reader"}
  /\ recorded \in Nat /\ now \in Nat

TypeWriter ==
  /\ accepted \in Nat /\ queue \in Nat
  /\ writer \in WriterState /\ result \in Answer /\ failed \in BOOLEAN
  /\ deadline \in Nat /\ active \in Nat /\ settle \in Nat
  /\ succeeded \subseteq Nat

TypeReader ==
  /\ reader \in ReaderState /\ received \in Nat
  /\ output \in [blocks : Nat, error : BOOLEAN]
  /\ outputTask \in {"none", "receiving", "requesting", "exited"}

TypeCoord ==
  /\ coord \in CoordState
  /\ cutoff \in Nat /\ settleBy \in Nat
  /\ cancelled \in BOOLEAN /\ log \in BOOLEAN

LEMMA TypeParts ==
  /\ TypeOK <=> TypeShared /\ TypeWriter /\ TypeReader /\ TypeCoord
  /\ TypeOK' <=> TypeShared' /\ TypeWriter' /\ TypeReader' /\ TypeCoord'
  BY DEF TypeOK, TypeShared, TypeWriter, TypeReader, TypeCoord

LEMMA InitInv == Init => Inv
  <1> SUFFICES ASSUME Init PROVE Inv
    OBVIOUS
  <1>1. TypeOK
    <2>1. handles \subseteq {"reader", "writer", "control"} /\ succeeded \subseteq Nat
      BY DEF Init
    <2>2. caller \in [Caller -> {"idle", "waiting", "returned", "notFound"}]
      BY DEF Init
    <2>3. output \in [blocks : Nat, error : BOOLEAN]
      BY DEF Init
    <2> QED BY <2>1, <2>2, <2>3 DEF Init, TypeOK
  <1>2. Connecting /\ Unpublished /\ Stopped
    BY DEF Init, Connecting, Unpublished, Stopped
  <1>3. Joined /\ Handles /\ Marked
    BY DEF Init, Joined, Handles, Marked
  <1>4. Deadlines
    BY DEF Init, Deadlines
  <1> QED BY <1>1, <1>2, <1>3, <1>4 DEF Inv

\* A request stops the session; its permit is a Boolean.
LEMMA RequestFacts ==
  ASSUME requested \in BOOLEAN, running \in BOOLEAN, Request
  PROVE  running' = FALSE /\ requested' \in BOOLEAN
  BY Zenon DEF Request

\* Under the lock of the sessions, only a published session is stopped.
LEMMA RequestShutdownFacts ==
  ASSUME TypeOK, RequestShutdown
  PROVE  /\ running' \in BOOLEAN /\ requested' \in BOOLEAN /\ sender' \in BOOLEAN
         /\ (running' = FALSE) \/ (running' = running /\ requested' = requested)
         /\ ~published => running' = running /\ requested' = requested
  <1>1. requested \in BOOLEAN /\ running \in BOOLEAN /\ sender \in BOOLEAN
    BY DEF TypeOK
  <1>2. CASE published
    BY <1>1, <1>2, RequestFacts DEF RequestShutdown
  <1>3. CASE ~published
    BY <1>1, <1>3 DEF RequestShutdown
  <1> QED BY <1>2, <1>3

-----------------------------------------------------------------------------
(* The connect command and the requests.                                   *)

LEMMA InvOpen == ASSUME Inv, Open PROVE Inv'
  <1>1. TypeOK'
    BY DEF Inv, TypeOK, Open
  <1>2. (Connecting /\ Unpublished /\ Stopped)'
    BY DEF Inv, TypeOK, Connecting, Unpublished, Stopped, Open
  <1>3. (Joined /\ Handles /\ Marked)'
    <2>1. coord = "none" /\ coord' = coord /\ writer = "none"
      BY DEF Inv, Connecting, Stopped, Open
    <2>2. reader # "exited"
      BY DEF Inv, Connecting, Stopped, Open
    <2> QED BY <2>1, <2>2 DEF Inv, Joined, Handles, Marked, Open
  <1>4. Deadlines'
    BY DEF Inv, TypeOK, Stopped, Joined, Deadlines, Open
  <1> QED BY <1>1, <1>2, <1>3, <1>4 DEF Inv

LEMMA InvGiveUp == ASSUME Inv, GiveUp PROVE Inv'
  <1>1. TypeOK'
    BY DEF Inv, TypeOK, GiveUp
  <1>2. (Connecting /\ Unpublished /\ Stopped)'
    BY DEF Inv, TypeOK, Connecting, Unpublished, Stopped, GiveUp
  <1>3. (Joined /\ Handles /\ Marked)'
    BY DEF Inv, TypeOK, Connecting, Stopped, Joined, Handles, Marked, GiveUp
  <1>4. Deadlines'
    BY DEF Inv, TypeOK, Stopped, Joined, Deadlines, GiveUp
  <1> QED BY <1>1, <1>2, <1>3, <1>4 DEF Inv

LEMMA InvSpawnWorkers == ASSUME Inv, SpawnWorkers PROVE Inv'
  <1>1. TypeOK'
    BY DEF Inv, TypeOK, SpawnWorkers
  <1>2. (Connecting /\ Unpublished /\ Stopped)'
    BY DEF Inv, TypeOK, Connecting, Unpublished, Stopped, SpawnWorkers
  <1>3. (Joined /\ Handles /\ Marked)'
    BY DEF Inv, TypeOK, Connecting, Stopped, Joined, Handles, Marked, SpawnWorkers
  <1>4. Deadlines'
    BY DEF Inv, TypeOK, Stopped, Joined, Deadlines, SpawnWorkers
  <1> QED BY <1>1, <1>2, <1>3, <1>4 DEF Inv

LEMMA InvRegisterTerminal == ASSUME Inv, RegisterTerminal PROVE Inv'
  <1>1. TypeOK'
    BY DEF Inv, TypeOK, RegisterTerminal
  <1>2. (Connecting /\ Unpublished /\ Stopped)'
    BY DEF Inv, TypeOK, Connecting, Unpublished, Stopped, RegisterTerminal
  <1>3. (Joined /\ Handles /\ Marked)'
    BY DEF Inv, TypeOK, Connecting, Stopped, Joined, Handles, Marked, RegisterTerminal
  <1>4. Deadlines'
    BY DEF Inv, TypeOK, Stopped, Joined, Deadlines, RegisterTerminal
  <1> QED BY <1>1, <1>2, <1>3, <1>4 DEF Inv

LEMMA InvPublish == ASSUME Inv, Publish PROVE Inv'
  <1>1. TypeOK'
    BY DEF Inv, TypeOK, Publish
  <1>2. (Connecting /\ Unpublished /\ Stopped)'
    BY DEF Inv, TypeOK, Connecting, Unpublished, Stopped, Publish
  <1>3. (Joined /\ Handles /\ Marked)'
    BY DEF Inv, TypeOK, Connecting, Stopped, Joined, Handles, Marked, Publish
  <1>4. Deadlines'
    BY DEF Inv, TypeOK, Stopped, Joined, Deadlines, Publish
  <1> QED BY <1>1, <1>2, <1>3, <1>4 DEF Inv

LEMMA InvDropConnect == ASSUME Inv, DropConnect PROVE Inv'
  <1>a. running' = FALSE /\ requested' \in BOOLEAN
    BY RequestFacts DEF Inv, TypeOK, DropConnect
  <1>1. TypeOK'
    <2>1. TypeShared /\ TypeWriter /\ TypeReader /\ TypeCoord
      BY TypeParts DEF Inv
    <2>2. TypeShared'
      BY <2>1, <1>a DEF TypeShared, DropConnect
    <2>3. TypeWriter'
      BY <2>1, <1>a DEF TypeWriter, DropConnect
    <2>4. TypeReader'
      BY <2>1, <1>a DEF TypeReader, DropConnect
    <2>5. TypeCoord'
      BY <2>1, <1>a DEF TypeCoord, DropConnect
    <2> QED BY <2>2, <2>3, <2>4, <2>5, TypeParts
  <1>2. (Connecting /\ Unpublished /\ Stopped)'
    BY <1>a DEF Inv, TypeOK, Connecting, Unpublished, Stopped, DropConnect, Request
  <1>3. (Joined /\ Handles /\ Marked)'
    BY <1>a DEF Inv, TypeOK, Connecting, Stopped, Joined, Handles, Marked, DropConnect, Request
  <1>4. Deadlines'
    BY <1>a DEF Inv, TypeOK, Stopped, Joined, Deadlines, DropConnect, Request
  <1> QED BY <1>1, <1>2, <1>3, <1>4 DEF Inv

LEMMA InvTaskRequests == ASSUME Inv, NEW t, TaskRequests(t) PROVE Inv'
  <1>a. /\ running' \in BOOLEAN /\ requested' \in BOOLEAN /\ sender' \in BOOLEAN
        /\ (running' = FALSE) \/ (running' = running /\ requested' = requested)
        /\ ~published => running' = running /\ requested' = requested
    BY RequestShutdownFacts DEF Inv, TaskRequests
  <1>1. TypeOK'
    BY <1>a DEF Inv, TypeOK, TaskRequests
  <1>2. (Connecting /\ Unpublished /\ Stopped)'
    BY <1>a DEF Inv, TypeOK, Connecting, Unpublished, Stopped, TaskRequests
  <1>3. (Joined /\ Handles /\ Marked)'
    BY <1>a DEF Inv, TypeOK, Connecting, Stopped, Joined, Handles, Marked, TaskRequests
  <1>4. Deadlines'
    BY <1>a DEF Inv, TypeOK, Stopped, Joined, Deadlines, TaskRequests
  <1> QED BY <1>1, <1>2, <1>3, <1>4 DEF Inv

LEMMA InvDisconnect == ASSUME Inv, NEW c \in Caller, Disconnect(c) PROVE Inv'
  <1>a. /\ running' \in BOOLEAN /\ requested' \in BOOLEAN /\ sender' \in BOOLEAN
        /\ (running' = FALSE) \/ (running' = running /\ requested' = requested)
        /\ ~published => running' = running /\ requested' = requested
    BY RequestShutdownFacts DEF Inv, Disconnect
  <1>1. TypeOK'
    BY <1>a DEF Inv, TypeOK, Disconnect
  <1>2. (Connecting /\ Unpublished /\ Stopped)'
    BY <1>a DEF Inv, TypeOK, Connecting, Unpublished, Stopped, Disconnect
  <1>3. (Joined /\ Handles /\ Marked)'
    BY <1>a DEF Inv, TypeOK, Connecting, Stopped, Joined, Handles, Marked, Disconnect
  <1>4. Deadlines'
    BY <1>a DEF Inv, TypeOK, Stopped, Joined, Deadlines, Disconnect
  <1> QED BY <1>1, <1>2, <1>3, <1>4 DEF Inv

LEMMA InvDisconnectReturns == ASSUME Inv, NEW c \in Caller, DisconnectReturns(c) PROVE Inv'
  <1>1. TypeOK'
    BY DEF Inv, TypeOK, DisconnectReturns
  <1>2. (Connecting /\ Unpublished /\ Stopped)'
    BY DEF Inv, TypeOK, Connecting, Unpublished, Stopped, DisconnectReturns
  <1>3. (Joined /\ Handles /\ Marked)'
    BY DEF Inv, TypeOK, Connecting, Stopped, Joined, Handles, Marked, DisconnectReturns
  <1>4. Deadlines'
    BY DEF Inv, TypeOK, Stopped, Joined, Deadlines, DisconnectReturns
  <1> QED BY <1>1, <1>2, <1>3, <1>4 DEF Inv

-----------------------------------------------------------------------------
(* The writer.                                                             *)

\* What no step of the writer changes before it reports an error.
OthersStay == UNCHANGED <<connectVars, shutdownVars, readerVars, coordVars, asking, recorded, now>>

LEMMA InvEnqueue == ASSUME Inv, Enqueue PROVE Inv'
  <1>1. TypeOK'
    BY DEF Inv, TypeOK, Enqueue
  <1>2. (Connecting /\ Unpublished /\ Stopped)'
    BY DEF Inv, TypeOK, Connecting, Unpublished, Stopped, Enqueue
  <1>3. (Joined /\ Handles /\ Marked)'
    BY DEF Inv, TypeOK, Connecting, Stopped, Joined, Handles, Marked, Enqueue
  <1>4. Deadlines'
    BY DEF Inv, TypeOK, Stopped, Joined, Deadlines, Enqueue
  <1> QED BY <1>1, <1>2, <1>3, <1>4 DEF Inv

\* The thread has left its loop.
Gone ==
  /\ writer' \in {"failing", "exited"} /\ failed' \in BOOLEAN
  /\ handles' = handles \ {"writer"}
  /\ UNCHANGED <<accepted, queue, result, deadline, active, settle, succeeded>>

LEMMA GoneFacts == ASSUME NEW e \in BOOLEAN, WriterStops(e) PROVE Gone
  <1>1. CASE e = TRUE
    BY <1>1 DEF WriterStops, Gone
  <1>2. CASE e = FALSE
    BY <1>2 DEF WriterStops, Gone
  <1> QED BY <1>1, <1>2

LEMMA InvReceive == ASSUME Inv, Receive, OthersStay PROVE Inv'
  <1>a. /\ writer = "receiving"
        /\ \/ Gone /\ writer' = "exited"
           \/ /\ queue > 0 /\ queue' = queue - 1 /\ writer' = "block"
              /\ UNCHANGED <<accepted, result, failed, deadline, active, settle, succeeded, handles>>
    <2>1. CASE WriterStops(FALSE)
      <3>1. Gone /\ writer' = "exited"
        BY <2>1, GoneFacts DEF WriterStops
      <3> QED BY <3>1 DEF Receive
    <2>2. CASE ~WriterStops(FALSE)
      BY <2>2 DEF Receive
    <2> QED BY <2>1, <2>2
  <1>1. TypeOK'
    <2>1. TypeShared /\ TypeWriter /\ TypeReader /\ TypeCoord
      BY TypeParts DEF Inv
    <2>2. TypeShared'
      BY <2>1, <1>a DEF TypeShared, OthersStay, Gone
    <2>3. TypeWriter'
      <3>1. CASE Gone
        BY <2>1, <3>1 DEF TypeWriter, Gone
      <3>2. CASE ~Gone
        <4>1. queue' = queue - 1 /\ queue > 0 /\ queue \in Nat
          BY <2>1, <1>a, <3>2 DEF TypeWriter
        <4>2. queue' \in Nat
          BY <4>1
        <4> QED BY <2>1, <1>a, <3>2, <4>2 DEF TypeWriter
      <3> QED BY <3>1, <3>2
    <2>4. TypeReader'
      BY <2>1, <1>a DEF TypeReader, OthersStay, Gone
    <2>5. TypeCoord'
      BY <2>1, <1>a DEF TypeCoord, OthersStay, Gone
    <2> QED BY <2>2, <2>3, <2>4, <2>5, TypeParts
  <1>2. (Connecting /\ Unpublished /\ Stopped)'
    <2>1. CASE Gone /\ writer' = "exited"
      BY <2>1, <1>a DEF Inv, Connecting, Unpublished, Stopped, OthersStay, Gone
    <2>2. CASE ~(Gone /\ writer' = "exited")
      <3>1. queue > 0 /\ queue # 0
        BY <1>a, <2>2 DEF Inv, TypeOK
      <3> QED BY <1>a, <2>2, <3>1 DEF Inv, Connecting, Unpublished, Stopped, OthersStay
    <2> QED BY <2>1, <2>2
  <1>3. (Joined /\ Handles /\ Marked)'
    BY <1>a DEF Inv, TypeOK, Joined, Handles, Marked, OthersStay, Gone
  <1>4. Deadlines'
    BY <1>a DEF Inv, TypeOK, Stopped, Joined, Deadlines, OthersStay, Gone
  <1> QED BY <1>1, <1>2, <1>3, <1>4 DEF Inv

LEMMA InvStartBlock == ASSUME Inv, StartBlock, OthersStay PROVE Inv'
  <1>a. /\ writer = "block"
        /\ \/ Gone
           \/ /\ writer' = "chunk" /\ deadline' \in Nat
              /\ UNCHANGED <<accepted, queue, result, failed, active, settle, succeeded, handles>>
    <2>1. CASE WriterStops(FALSE)
      BY <2>1, GoneFacts DEF StartBlock
    <2>2. CASE ~WriterStops(FALSE)
      <3>0. (~HasPolicy /\ deadline' = 0) \/ \E x \in Budget : deadline' = now + x
        BY <2>2 DEF StartBlock, DeadlineFromNow
      <3>1. now \in Nat /\ \A x \in Budget : now + x \in Nat
        BY SerialAssumption DEF Inv, TypeOK
      <3>2. deadline' \in Nat
        BY <3>0, <3>1
      <3> QED BY <2>2, <3>2 DEF StartBlock
    <2> QED BY <2>1, <2>2
  <1>1. TypeOK'
    <2>1. TypeShared /\ TypeWriter /\ TypeReader /\ TypeCoord
      BY TypeParts DEF Inv
    <2>2. TypeShared'
      BY <2>1, <1>a DEF TypeShared, OthersStay, Gone
    <2>3. TypeWriter'
      BY <2>1, <1>a DEF TypeWriter, OthersStay, Gone
    <2>4. TypeReader'
      BY <2>1, <1>a DEF TypeReader, OthersStay, Gone
    <2>5. TypeCoord'
      BY <2>1, <1>a DEF TypeCoord, OthersStay, Gone
    <2> QED BY <2>2, <2>3, <2>4, <2>5, TypeParts
  <1>2. (Connecting /\ Unpublished /\ Stopped)'
    BY <1>a DEF Inv, TypeOK, Connecting, Unpublished, Stopped, OthersStay, Gone
  <1>3. (Joined /\ Handles /\ Marked)'
    BY <1>a DEF Inv, TypeOK, Joined, Handles, Marked, OthersStay, Gone
  <1>4. Deadlines'
    BY <1>a DEF Inv, TypeOK, Stopped, Joined, Deadlines, OthersStay, Gone
  <1> QED BY <1>1, <1>2, <1>3, <1>4 DEF Inv

LEMMA InvPrepareWrite == ASSUME Inv, PrepareWrite, OthersStay PROVE Inv'
  <1>a. /\ writer = "chunk"
        /\ \/ Gone
           \/ /\ writer' \in {"ready", "after"} /\ result' \in {result, "error"}
              /\ UNCHANGED <<accepted, queue, failed, deadline, active, settle, succeeded, handles>>
    <2>1. CASE WriterStops(FALSE)
      BY <2>1, GoneFacts DEF PrepareWrite
    <2>2. CASE WriterStops(running)
      <3>1. running \in BOOLEAN
        BY DEF Inv, TypeOK
      <3> QED BY <2>2, <3>1, GoneFacts DEF PrepareWrite
    <2>3. CASE ~WriterStops(FALSE) /\ ~WriterStops(running)
      BY <2>3 DEF PrepareWrite, WriterGoes
    <2> QED BY <2>1, <2>2, <2>3
  <1>1. TypeOK'
    <2>1. TypeShared /\ TypeWriter /\ TypeReader /\ TypeCoord
      BY TypeParts DEF Inv
    <2>2. TypeShared'
      BY <2>1, <1>a DEF TypeShared, OthersStay, Gone
    <2>3. TypeWriter'
      BY <2>1, <1>a DEF TypeWriter, OthersStay, Gone
    <2>4. TypeReader'
      BY <2>1, <1>a DEF TypeReader, OthersStay, Gone
    <2>5. TypeCoord'
      BY <2>1, <1>a DEF TypeCoord, OthersStay, Gone
    <2> QED BY <2>2, <2>3, <2>4, <2>5, TypeParts
  <1>2. (Connecting /\ Unpublished /\ Stopped)'
    BY <1>a DEF Inv, TypeOK, Connecting, Unpublished, Stopped, OthersStay, Gone
  <1>3. (Joined /\ Handles /\ Marked)'
    BY <1>a DEF Inv, TypeOK, Joined, Handles, Marked, OthersStay, Gone
  <1>4. Deadlines'
    BY <1>a DEF Inv, TypeOK, Stopped, Joined, Deadlines, OthersStay, Gone
  <1> QED BY <1>1, <1>2, <1>3, <1>4 DEF Inv

LEMMA InvBeginWrite == ASSUME Inv, BeginWrite, OthersStay PROVE Inv'
  <1>a. /\ writer = "ready"
        /\ \/ Gone
           \/ /\ running /\ writer' = "writing" /\ active' = deadline
              /\ UNCHANGED <<accepted, queue, result, failed, deadline, settle, succeeded, handles>>
    <2>1. CASE WriterStops(FALSE)
      BY <2>1, GoneFacts DEF BeginWrite
    <2>2. CASE ~WriterStops(FALSE)
      BY <2>2 DEF BeginWrite
    <2> QED BY <2>1, <2>2
  <1>1. TypeOK'
    <2>1. TypeShared /\ TypeWriter /\ TypeReader /\ TypeCoord
      BY TypeParts DEF Inv
    <2>2. TypeShared'
      BY <2>1, <1>a DEF TypeShared, OthersStay, Gone
    <2>3. TypeWriter'
      BY <2>1, <1>a DEF TypeWriter, OthersStay, Gone
    <2>4. TypeReader'
      BY <2>1, <1>a DEF TypeReader, OthersStay, Gone
    <2>5. TypeCoord'
      BY <2>1, <1>a DEF TypeCoord, OthersStay, Gone
    <2> QED BY <2>2, <2>3, <2>4, <2>5, TypeParts
  <1>2. (Connecting /\ Unpublished /\ Stopped)'
    BY <1>a DEF Inv, TypeOK, Connecting, Unpublished, Stopped, OthersStay, Gone
  <1>3. (Joined /\ Handles /\ Marked)'
    BY <1>a DEF Inv, TypeOK, Joined, Handles, Marked, OthersStay, Gone
  <1>4. Deadlines'
    <2>1. CASE Gone
      BY <2>1, <1>a DEF Inv, TypeOK, Joined, Deadlines, OthersStay, Gone
    <2>2. CASE ~Gone
      <3>1. coord \in {"none", "waiting"}
        BY <1>a, <2>2 DEF Inv, Stopped
      <3> QED BY <1>a, <2>2, <3>1 DEF Inv, Deadlines, OthersStay
    <2> QED BY <2>1, <2>2
  <1> QED BY <1>1, <1>2, <1>3, <1>4 DEF Inv

LEMMA InvEndWrite == ASSUME Inv, EndWrite, OthersStay PROVE Inv'
  <1>1. TypeOK'
    BY DEF Inv, TypeOK, EndWrite, OthersStay, Answers, Latest
  <1>2. (Connecting /\ Unpublished /\ Stopped)'
    BY DEF Inv, TypeOK, Connecting, Unpublished, Stopped, EndWrite, OthersStay, Answers, Latest
  <1>3. (Joined /\ Handles /\ Marked)'
    BY DEF Inv, TypeOK, Connecting, Stopped, Joined, Handles, Marked, EndWrite, OthersStay, Answers, Latest
  <1>4. Deadlines'
    BY DEF Inv, TypeOK, Stopped, Joined, Deadlines, EndWrite, OthersStay, Answers, Latest
  <1> QED BY <1>1, <1>2, <1>3, <1>4 DEF Inv

LEMMA InvAfterWrite == ASSUME Inv, AfterWrite, OthersStay PROVE Inv'
  <1>a. /\ writer = "after"
        /\ \/ Gone
           \/ /\ writer' \in {"chunk", "receiving"}
              /\ UNCHANGED <<accepted, queue, result, failed, deadline, active, settle, succeeded, handles>>
    <2>1. CASE WriterStops(TRUE)
      BY <2>1, GoneFacts DEF AfterWrite
    <2>2. CASE WriterStops(result = "error")
      <3>1. (result = "error") \in BOOLEAN
        OBVIOUS
      <3>2. Gone
        BY <2>2, <3>1, GoneFacts, Zenon
      <3> QED BY <3>2 DEF AfterWrite
    <2>3. CASE ~WriterStops(TRUE) /\ ~WriterStops(result = "error")
      BY <2>3 DEF AfterWrite, WriterGoes
    <2> QED BY <2>1, <2>2, <2>3
  <1>1. TypeOK'
    <2>1. TypeShared /\ TypeWriter /\ TypeReader /\ TypeCoord
      BY TypeParts DEF Inv
    <2>2. TypeShared'
      BY <2>1, <1>a DEF TypeShared, OthersStay, Gone
    <2>3. TypeWriter'
      BY <2>1, <1>a DEF TypeWriter, OthersStay, Gone
    <2>4. TypeReader'
      BY <2>1, <1>a DEF TypeReader, OthersStay, Gone
    <2>5. TypeCoord'
      BY <2>1, <1>a DEF TypeCoord, OthersStay, Gone
    <2> QED BY <2>2, <2>3, <2>4, <2>5, TypeParts
  <1>2. (Connecting /\ Unpublished /\ Stopped)'
    BY <1>a DEF Inv, TypeOK, Connecting, Unpublished, Stopped, OthersStay, Gone
  <1>3. (Joined /\ Handles /\ Marked)'
    BY <1>a DEF Inv, TypeOK, Joined, Handles, Marked, OthersStay, Gone
  <1>4. Deadlines'
    BY <1>a DEF Inv, TypeOK, Stopped, Joined, Deadlines, OthersStay, Gone
  <1> QED BY <1>1, <1>2, <1>3, <1>4 DEF Inv

\* What the report of an error leaves alone.
ReportRest ==
  UNCHANGED <<connectVars, shutdownVars, accepted, queue, result, failed, deadline, active,
              settle, succeeded, readerVars, coordVars, handles, now>>

LEMMA InvReportError == ASSUME Inv, ReportError, ReportRest PROVE Inv'
  <1>1. TypeOK'
    BY DEF Inv, TypeOK, ReportError, ReportRest
  <1>2. (Connecting /\ Unpublished /\ Stopped)'
    BY DEF Inv, TypeOK, Connecting, Unpublished, Stopped, ReportError, ReportRest
  <1>3. (Joined /\ Handles /\ Marked)'
    BY DEF Inv, TypeOK, Connecting, Stopped, Joined, Handles, Marked, ReportError, ReportRest
  <1>4. Deadlines'
    BY DEF Inv, TypeOK, Stopped, Joined, Deadlines, ReportError, ReportRest
  <1> QED BY <1>1, <1>2, <1>3, <1>4 DEF Inv

-----------------------------------------------------------------------------
(* The reader, the output task, the coordinator and the clock.            *)

\* What no step of the reader changes.
ReaderRest == UNCHANGED <<connectVars, shutdownVars, writerVars, outputTask, coordVars, recorded, now>>

LEMMA InvStartReader == ASSUME Inv, StartReader, ReaderRest PROVE Inv'
  <1>1. TypeOK'
    <2>1. TypeShared /\ TypeWriter /\ TypeReader /\ TypeCoord
      BY TypeParts DEF Inv
    <2>2. TypeShared'
      BY <2>1 DEF TypeShared, StartReader, ReaderRest
    <2>3. TypeWriter'
      BY <2>1 DEF TypeWriter, StartReader, ReaderRest
    <2>4. TypeReader'
      BY <2>1 DEF TypeReader, StartReader, ReaderRest
    <2>5. TypeCoord'
      BY <2>1 DEF TypeCoord, StartReader, ReaderRest
    <2> QED BY <2>2, <2>3, <2>4, <2>5, TypeParts
  <1>2. (Connecting /\ Unpublished /\ Stopped)'
    BY DEF Inv, TypeOK, Connecting, Unpublished, Stopped, StartReader, ReaderRest
  <1>3. (Joined /\ Handles /\ Marked)'
    BY DEF Inv, TypeOK, Connecting, Stopped, Joined, Handles, Marked, StartReader, ReaderRest
  <1>4. Deadlines'
    BY DEF Inv, TypeOK, Stopped, Joined, Deadlines, StartReader, ReaderRest
  <1> QED BY <1>1, <1>2, <1>3, <1>4 DEF Inv

LEMMA InvCheckRunning == ASSUME Inv, CheckRunning, ReaderRest PROVE Inv'
  <1>1. TypeOK'
    <2>1. TypeShared /\ TypeWriter /\ TypeReader /\ TypeCoord
      BY TypeParts DEF Inv
    <2>2. TypeShared'
      BY <2>1 DEF TypeShared, CheckRunning, ReaderRest
    <2>3. TypeWriter'
      BY <2>1 DEF TypeWriter, CheckRunning, ReaderRest
    <2>4. TypeReader'
      BY <2>1 DEF TypeReader, CheckRunning, ReaderRest
    <2>5. TypeCoord'
      BY <2>1 DEF TypeCoord, CheckRunning, ReaderRest
    <2> QED BY <2>2, <2>3, <2>4, <2>5, TypeParts
  <1>2. (Connecting /\ Unpublished /\ Stopped)'
    BY DEF Inv, TypeOK, Connecting, Unpublished, Stopped, CheckRunning, ReaderRest
  <1>3. (Joined /\ Handles /\ Marked)'
    BY DEF Inv, TypeOK, Connecting, Stopped, Joined, Handles, Marked, CheckRunning, ReaderRest
  <1>4. Deadlines'
    BY DEF Inv, TypeOK, Stopped, Joined, Deadlines, CheckRunning, ReaderRest
  <1> QED BY <1>1, <1>2, <1>3, <1>4 DEF Inv

LEMMA InvRead == ASSUME Inv, Read, ReaderRest PROVE Inv'
  <1>1. TypeOK'
    <2>1. TypeShared /\ TypeWriter /\ TypeReader /\ TypeCoord
      BY TypeParts DEF Inv
    <2>2. TypeShared'
      BY <2>1 DEF TypeShared, Read, ReaderRest
    <2>3. TypeWriter'
      BY <2>1 DEF TypeWriter, Read, ReaderRest
    <2>4. TypeReader'
      <3>1. /\ output.blocks \in Nat /\ output.error \in BOOLEAN
            /\ output = [blocks |-> output.blocks, error |-> output.error]
        BY <2>1 DEF TypeReader
      <3>2. output' \in [blocks : Nat, error : BOOLEAN]
        <4>1. output' = output \/ output' = [output EXCEPT !.blocks = @ + 1]
              \/ output' = [output EXCEPT !.error = TRUE]
          BY DEF Read
        <4>2. [output EXCEPT !.blocks = @ + 1] \in [blocks : Nat, error : BOOLEAN]
          BY <3>1
        <4>3. [output EXCEPT !.error = TRUE] \in [blocks : Nat, error : BOOLEAN]
          BY <3>1
        <4> QED BY <2>1, <4>1, <4>2, <4>3 DEF TypeReader
      <3> QED BY <2>1, <3>2 DEF TypeReader, Read, ReaderRest
    <2>5. TypeCoord'
      BY <2>1 DEF TypeCoord, Read, ReaderRest
    <2> QED BY <2>2, <2>3, <2>4, <2>5, TypeParts
  <1>2. (Connecting /\ Unpublished /\ Stopped)'
    BY DEF Inv, TypeOK, Connecting, Unpublished, Stopped, Read, ReaderRest
  <1>3. (Joined /\ Handles /\ Marked)'
    BY DEF Inv, TypeOK, Connecting, Stopped, Joined, Handles, Marked, Read, ReaderRest
  <1>4. Deadlines'
    BY DEF Inv, TypeOK, Stopped, Joined, Deadlines, Read, ReaderRest
  <1> QED BY <1>1, <1>2, <1>3, <1>4 DEF Inv

LEMMA InvLeaveReader == ASSUME Inv, LeaveReader, ReaderRest PROVE Inv'
  <1>1. TypeOK'
    BY DEF Inv, TypeOK, LeaveReader, ReaderRest
  <1>2. (Connecting /\ Unpublished /\ Stopped)'
    BY DEF Inv, TypeOK, Connecting, Unpublished, Stopped, LeaveReader, ReaderRest
  <1>3. (Joined /\ Handles /\ Marked)'
    BY DEF Inv, TypeOK, Connecting, Stopped, Joined, Handles, Marked, LeaveReader, ReaderRest
  <1>4. Deadlines'
    BY DEF Inv, TypeOK, Stopped, Joined, Deadlines, LeaveReader, ReaderRest
  <1> QED BY <1>1, <1>2, <1>3, <1>4 DEF Inv

LEMMA InvOutputStep == ASSUME Inv, OutputStep PROVE Inv'
  <1>a. /\ running' \in BOOLEAN /\ requested' \in BOOLEAN /\ sender' \in BOOLEAN
        /\ (running' = FALSE) \/ (running' = running /\ requested' = requested)
        /\ ~published => running' = running /\ requested' = requested
    <2>1. CASE RequestShutdown
      BY <2>1, RequestShutdownFacts DEF Inv
    <2>2. CASE ~RequestShutdown
      BY <2>2 DEF Inv, TypeOK, OutputStep
    <2> QED BY <2>1, <2>2
  <1>1. TypeOK'
    <2>1. TypeShared /\ TypeWriter /\ TypeReader /\ TypeCoord
      BY TypeParts DEF Inv
    <2>2. TypeShared'
      BY <2>1, <1>a DEF TypeShared, OutputStep
    <2>3. TypeWriter'
      BY <2>1 DEF TypeWriter, OutputStep
    <2>4. TypeReader'
      BY <2>1 DEF TypeReader, OutputStep
    <2>5. TypeCoord'
      BY <2>1 DEF TypeCoord, OutputStep
    <2> QED BY <2>2, <2>3, <2>4, <2>5, TypeParts
  <1>2. (Connecting /\ Unpublished /\ Stopped)'
    <2>1. /\ output'.blocks = output.blocks \/ output.blocks > 0
          /\ output'.error = output.error
      BY DEF Inv, TypeOK, OutputStep
    <2>2. Unpublished'
      <3>1. output.blocks \in Nat
        BY DEF Inv, TypeOK
      <3> QED BY <2>1, <3>1 DEF Inv, Unpublished, OutputStep
    <2> QED BY <1>a, <2>2 DEF Inv, Connecting, Stopped, OutputStep
  <1>3. (Joined /\ Handles /\ Marked)'
    BY DEF Inv, TypeOK, Connecting, Stopped, Joined, Handles, Marked, OutputStep
  <1>4. Deadlines'
    BY DEF Inv, TypeOK, Stopped, Joined, Deadlines, OutputStep
  <1> QED BY <1>1, <1>2, <1>3, <1>4 DEF Inv

\* What no step of the coordinator changes.
CoordRest == UNCHANGED <<connect, running, caller, writerVars, readerVars, asking, recorded, now>>

LEMMA InvCutOff == ASSUME Inv, CutOff, CoordRest PROVE Inv'
  <1>1. TypeOK'
    <2>1. TypeShared /\ TypeWriter /\ TypeReader /\ TypeCoord
      BY TypeParts DEF Inv
    <2>2. TypeShared'
      BY <2>1 DEF TypeShared, CutOff, CoordRest, Latest
    <2>3. TypeWriter'
      BY <2>1 DEF TypeWriter, CutOff, CoordRest, Latest
    <2>4. TypeReader'
      BY <2>1 DEF TypeReader, CutOff, CoordRest, Latest
    <2>5. TypeCoord'
      BY <2>1 DEF TypeCoord, TypeWriter, CutOff, CoordRest, Latest
    <2> QED BY <2>2, <2>3, <2>4, <2>5, TypeParts
  <1>2. (Connecting /\ Unpublished /\ Stopped)'
    BY DEF Inv, TypeOK, Connecting, Unpublished, Stopped, CutOff, CoordRest, Latest
  <1>3. (Joined /\ Handles /\ Marked)'
    BY DEF Inv, TypeOK, Connecting, Stopped, Joined, Handles, Marked, CutOff, CoordRest, Latest
  <1>4. Deadlines'
    BY DEF Inv, TypeOK, Stopped, Joined, Deadlines, CutOff, CoordRest, Latest
  <1> QED BY <1>1, <1>2, <1>3, <1>4 DEF Inv

LEMMA InvCancel == ASSUME Inv, Cancel, CoordRest PROVE Inv'
  <1>1. TypeOK'
    BY DEF Inv, TypeOK, Cancel, CoordRest
  <1>2. (Connecting /\ Unpublished /\ Stopped)'
    BY DEF Inv, TypeOK, Connecting, Unpublished, Stopped, Cancel, CoordRest
  <1>3. (Joined /\ Handles /\ Marked)'
    BY DEF Inv, TypeOK, Connecting, Stopped, Joined, Handles, Marked, Cancel, CoordRest
  <1>4. Deadlines'
    BY DEF Inv, TypeOK, Stopped, Joined, Deadlines, Cancel, CoordRest
  <1> QED BY <1>1, <1>2, <1>3, <1>4 DEF Inv

LEMMA InvJoinWriter == ASSUME Inv, JoinWriter, CoordRest PROVE Inv'
  <1>1. TypeOK'
    BY DEF Inv, TypeOK, JoinWriter, CoordRest, CoordGoes, CoordOnly
  <1>2. (Connecting /\ Unpublished /\ Stopped)'
    BY DEF Inv, TypeOK, Connecting, Unpublished, Stopped, JoinWriter, CoordRest, CoordGoes, CoordOnly
  <1>3. (Joined /\ Handles /\ Marked)'
    BY DEF Inv, TypeOK, Connecting, Stopped, Joined, Handles, Marked, JoinWriter, CoordRest, CoordGoes, CoordOnly
  <1>4. Deadlines'
    BY DEF Inv, TypeOK, Stopped, Joined, Deadlines, JoinWriter, CoordRest, CoordGoes, CoordOnly
  <1> QED BY <1>1, <1>2, <1>3, <1>4 DEF Inv

LEMMA InvSettle == ASSUME Inv, Settle, CoordRest PROVE Inv'
  <1>1. TypeOK'
    BY DEF Inv, TypeOK, Settle, CoordRest, CoordGoes, CoordOnly
  <1>2. (Connecting /\ Unpublished /\ Stopped)'
    BY DEF Inv, TypeOK, Connecting, Unpublished, Stopped, Settle, CoordRest, CoordGoes, CoordOnly
  <1>3. (Joined /\ Handles /\ Marked)'
    BY DEF Inv, TypeOK, Connecting, Stopped, Joined, Handles, Marked, Settle, CoordRest, CoordGoes, CoordOnly
  <1>4. Deadlines'
    BY DEF Inv, TypeOK, Stopped, Joined, Deadlines, Settle, CoordRest, CoordGoes, CoordOnly
  <1> QED BY <1>1, <1>2, <1>3, <1>4 DEF Inv

LEMMA InvClear == ASSUME Inv, Clear, CoordRest PROVE Inv'
  <1>1. TypeOK'
    BY DEF Inv, TypeOK, Clear, CoordRest, CoordGoes
  <1>2. (Connecting /\ Unpublished /\ Stopped)'
    BY DEF Inv, TypeOK, Connecting, Unpublished, Stopped, Clear, CoordRest, CoordGoes
  <1>3. (Joined /\ Handles /\ Marked)'
    BY DEF Inv, TypeOK, Connecting, Stopped, Joined, Handles, Marked, Clear, CoordRest, CoordGoes
  <1>4. Deadlines'
    BY DEF Inv, TypeOK, Stopped, Joined, Deadlines, Clear, CoordRest, CoordGoes
  <1> QED BY <1>1, <1>2, <1>3, <1>4 DEF Inv

LEMMA InvJoinReader == ASSUME Inv, JoinReader, CoordRest PROVE Inv'
  <1>1. TypeOK'
    BY DEF Inv, TypeOK, JoinReader, CoordRest, CoordGoes, CoordOnly
  <1>2. (Connecting /\ Unpublished /\ Stopped)'
    BY DEF Inv, TypeOK, Connecting, Unpublished, Stopped, JoinReader, CoordRest, CoordGoes, CoordOnly
  <1>3. (Joined /\ Handles /\ Marked)'
    BY DEF Inv, TypeOK, Connecting, Stopped, Joined, Handles, Marked, JoinReader, CoordRest, CoordGoes, CoordOnly
  <1>4. Deadlines'
    BY DEF Inv, TypeOK, Stopped, Joined, Deadlines, JoinReader, CoordRest, CoordGoes, CoordOnly
  <1> QED BY <1>1, <1>2, <1>3, <1>4 DEF Inv

LEMMA InvJoinOutput == ASSUME Inv, JoinOutput, CoordRest PROVE Inv'
  <1>1. TypeOK'
    BY DEF Inv, TypeOK, JoinOutput, CoordRest, CoordGoes, CoordOnly
  <1>2. (Connecting /\ Unpublished /\ Stopped)'
    BY DEF Inv, TypeOK, Connecting, Unpublished, Stopped, JoinOutput, CoordRest, CoordGoes, CoordOnly
  <1>3. (Joined /\ Handles /\ Marked)'
    BY DEF Inv, TypeOK, Connecting, Stopped, Joined, Handles, Marked, JoinOutput, CoordRest, CoordGoes, CoordOnly
  <1>4. Deadlines'
    BY DEF Inv, TypeOK, Stopped, Joined, Deadlines, JoinOutput, CoordRest, CoordGoes, CoordOnly
  <1> QED BY <1>1, <1>2, <1>3, <1>4 DEF Inv

LEMMA InvMarkDisconnected == ASSUME Inv, MarkDisconnected, CoordRest PROVE Inv'
  <1>1. TypeOK'
    BY DEF Inv, TypeOK, MarkDisconnected, CoordRest, CoordGoes
  <1>2. (Connecting /\ Unpublished /\ Stopped)'
    BY DEF Inv, TypeOK, Connecting, Unpublished, Stopped, MarkDisconnected, CoordRest, CoordGoes
  <1>3. (Joined /\ Handles /\ Marked)'
    BY DEF Inv, TypeOK, Connecting, Stopped, Joined, Handles, Marked, MarkDisconnected, CoordRest, CoordGoes
  <1>4. Deadlines'
    BY DEF Inv, TypeOK, Stopped, Joined, Deadlines, MarkDisconnected, CoordRest, CoordGoes
  <1> QED BY <1>1, <1>2, <1>3, <1>4 DEF Inv

LEMMA InvClearLogs == ASSUME Inv, ClearLogs, CoordRest PROVE Inv'
  <1>1. TypeOK'
    <2>1. TypeShared /\ TypeWriter /\ TypeReader /\ TypeCoord
      BY TypeParts DEF Inv
    <2>2. TypeShared'
      BY <2>1 DEF TypeShared, ClearLogs, CoordRest, CoordGoes
    <2>3. TypeWriter'
      BY <2>1 DEF TypeWriter, ClearLogs, CoordRest, CoordGoes
    <2>4. TypeReader'
      BY <2>1 DEF TypeReader, ClearLogs, CoordRest, CoordGoes
    <2>5. TypeCoord'
      BY <2>1 DEF TypeCoord, ClearLogs, CoordRest, CoordGoes
    <2> QED BY <2>2, <2>3, <2>4, <2>5, TypeParts
  <1>2. (Connecting /\ Unpublished /\ Stopped)'
    BY DEF Inv, TypeOK, Connecting, Unpublished, Stopped, ClearLogs, CoordRest, CoordGoes
  <1>3. (Joined /\ Handles /\ Marked)'
    BY DEF Inv, TypeOK, Connecting, Stopped, Joined, Handles, Marked, ClearLogs, CoordRest, CoordGoes
  <1>4. Deadlines'
    BY DEF Inv, TypeOK, Stopped, Joined, Deadlines, ClearLogs, CoordRest, CoordGoes
  <1> QED BY <1>1, <1>2, <1>3, <1>4 DEF Inv

LEMMA InvComplete == ASSUME Inv, Complete, CoordRest PROVE Inv'
  <1>1. TypeOK'
    <2>1. TypeShared /\ TypeWriter /\ TypeReader /\ TypeCoord
      BY TypeParts DEF Inv
    <2>2. TypeShared'
      BY <2>1 DEF TypeShared, Complete, CoordRest, CoordGoes
    <2>3. TypeWriter'
      BY <2>1 DEF TypeWriter, Complete, CoordRest, CoordGoes
    <2>4. TypeReader'
      BY <2>1 DEF TypeReader, Complete, CoordRest, CoordGoes
    <2>5. TypeCoord'
      BY <2>1 DEF TypeCoord, Complete, CoordRest, CoordGoes
    <2> QED BY <2>2, <2>3, <2>4, <2>5, TypeParts
  <1>2. (Connecting /\ Unpublished /\ Stopped)'
    BY DEF Inv, TypeOK, Connecting, Unpublished, Stopped, Complete, CoordRest, CoordGoes
  <1>3. (Joined /\ Handles /\ Marked)'
    BY DEF Inv, TypeOK, Connecting, Stopped, Joined, Handles, Marked, Complete, CoordRest, CoordGoes
  <1>4. Deadlines'
    BY DEF Inv, TypeOK, Stopped, Joined, Deadlines, Complete, CoordRest, CoordGoes
  <1> QED BY <1>1, <1>2, <1>3, <1>4 DEF Inv

LEMMA InvTick == ASSUME Inv, Tick PROVE Inv'
  <1>1. TypeOK'
    BY DEF Inv, TypeOK, Tick
  <1>2. (Connecting /\ Unpublished /\ Stopped)'
    BY DEF Inv, TypeOK, Connecting, Unpublished, Stopped, Tick
  <1>3. (Joined /\ Handles /\ Marked)'
    BY DEF Inv, TypeOK, Connecting, Stopped, Joined, Handles, Marked, Tick
  <1>4. Deadlines'
    BY DEF Inv, TypeOK, Stopped, Joined, Deadlines, Tick
  <1> QED BY <1>1, <1>2, <1>3, <1>4 DEF Inv

-----------------------------------------------------------------------------
(* Inv is inductive, and the properties follow from it.                    *)

\* Every step keeps the invariant.
LEMMA InvNext == ASSUME Inv, [Next]_vars PROVE Inv'
  <1>1. CASE Open \/ GiveUp \/ SpawnWorkers \/ RegisterTerminal \/ Publish \/ DropConnect
    BY <1>1, InvOpen, InvGiveUp, InvSpawnWorkers, InvRegisterTerminal, InvPublish, InvDropConnect
  <1>2. CASE Enqueue \/ OutputStep \/ Tick
    BY <1>2, InvEnqueue, InvOutputStep, InvTick
  <1>3. CASE WriterStep
    BY <1>3, InvReceive, InvStartBlock, InvPrepareWrite, InvBeginWrite, InvEndWrite,
       InvAfterWrite, InvReportError DEF WriterStep, OthersStay, ReportRest
  <1>4. CASE ReaderStep
    BY <1>4, InvStartReader, InvCheckRunning, InvRead, InvLeaveReader DEF ReaderStep, ReaderRest
  <1>5. CASE CoordStep
    BY <1>5, InvCutOff, InvCancel, InvJoinWriter, InvSettle, InvClear, InvJoinReader,
       InvJoinOutput, InvMarkDisconnected, InvClearLogs, InvComplete DEF CoordStep, CoordRest
  <1>6. CASE \E t \in asking : TaskRequests(t)
    BY <1>6, InvTaskRequests
  <1>7. CASE \E c \in Caller : Disconnect(c) \/ DisconnectReturns(c)
    BY <1>7, InvDisconnect, InvDisconnectReturns
  <1>8. CASE UNCHANGED vars
    BY <1>8 DEF vars, Inv, TypeOK, Connecting, Unpublished, Stopped, Joined, Handles, Marked,
                Deadlines
  <1> QED BY <1>1, <1>2, <1>3, <1>4, <1>5, <1>6, <1>7, <1>8 DEF Next

LEMMA InvHolds == Spec => []Inv
  <1>1. Inv /\ [Next]_vars => Inv'
    BY InvNext
  <1> QED BY InitInv, <1>1, PTL DEF Spec

\* Type correctness.
THEOREM TypeCorrect == Spec => []TypeOK
  <1>1. Inv => TypeOK
    BY DEF Inv
  <1> QED BY InvHolds, <1>1, PTL

\* A disconnect that returns leaves no handle of the port, no connected terminal and no
\* open log.
THEOREM ReturnedMeansReleasedHolds == Spec => []ReturnedMeansReleased
  <1>1. Inv => ReturnedMeansReleased
    <2> SUFFICES ASSUME Inv, completed PROVE handles = {} /\ terminal # "connected" /\ ~log
      BY DEF Inv, Marked, ReturnedMeansReleased
    <2>1. coord = "done"
      BY DEF Inv, Marked
    <2>2. writer = "exited" /\ reader = "exited"
      BY <2>1 DEF Inv, Joined
    <2>3. handles = {}
      BY <2>1, <2>2 DEF Inv, TypeOK, Handles
    <2> QED BY <2>1, <2>3 DEF Inv, Marked
  <1> QED BY InvHolds, <1>1, PTL

\* The port is held until the budget of every successful write has passed.
THEOREM SettledBeforeReleaseHolds == Spec => []SettledBeforeRelease
  <1>1. Inv => SettledBeforeRelease
    <2> SUFFICES ASSUME Inv, handles = {}, ~failed, NEW d \in succeeded PROVE d <= now
      BY DEF SettledBeforeRelease
    <2>1. coord \in AfterClear
      BY DEF Inv, TypeOK, Stopped, Handles
    <2>2. d <= settle /\ settle <= now
      BY <2>1 DEF Inv, Deadlines
    <2> QED BY <2>2 DEF Inv, TypeOK
  <1> QED BY InvHolds, <1>1, PTL

\* A write in progress is cancelled only after the deadline it began with.
THEOREM CancelOnlyExpiredHolds == Spec => CancelOnlyExpired
  <1>1. Inv /\ [Next]_vars =>
          [cancelled' /\ ~cancelled /\ writer = "writing" => now >= deadline]_vars
    <2> SUFFICES ASSUME Inv, Next, cancelled', ~cancelled, writer = "writing" PROVE now >= deadline
      OBVIOUS
    <2>1. cancelled' # cancelled
      OBVIOUS
    <2>2. Cancel
      BY <2>1 DEF Next, Open, GiveUp, SpawnWorkers, RegisterTerminal, Publish, DropConnect,
                  Enqueue, OutputStep, Tick, WriterStep, ReaderStep, CoordStep, TaskRequests,
                  Disconnect, DisconnectReturns, CutOff, JoinWriter, Settle, Clear, JoinReader,
                  JoinOutput, MarkDisconnected, ClearLogs, Complete, CoordGoes
    <2>3. coord = "stopping" /\ (cutoff = 0 \/ now >= cutoff)
      BY <2>2 DEF Cancel
    <2>4. cutoff = deadline
      BY <2>3 DEF Inv, Deadlines
    <2> QED BY <2>3, <2>4 DEF Inv, TypeOK
  <1> QED BY InvHolds, <1>1, PTL DEF Spec, CancelOnlyExpired

\* What is recorded is recorded before the session is torn down.
THEOREM OutputBeforeTeardownHolds == Spec => OutputBeforeTeardown
  <1>1. Inv /\ [Next]_vars => [recorded' # recorded => terminal = "connected" /\ log]_vars
    <2> SUFFICES ASSUME Inv, Next, recorded' # recorded PROVE terminal = "connected" /\ log
      OBVIOUS
    <2>1. ReportError \/ OutputStep
      BY DEF Next, Open, GiveUp, SpawnWorkers, RegisterTerminal, Publish, DropConnect,
             Enqueue, Tick, WriterStep, ReaderStep, CoordStep, TaskRequests,
             Disconnect, DisconnectReturns
    <2>2. connect = "connected" /\ coord \notin AfterMarking
      <3>1. CASE ReportError
        BY <3>1 DEF ReportError, Inv, Unpublished, Joined
      <3>2. CASE OutputStep
        <4>1. outputTask = "receiving" /\ (output.blocks > 0 \/ output.error)
          BY <3>2 DEF OutputStep
        <4>2. output.blocks # 0 \/ output.error
          BY <4>1 DEF Inv, TypeOK
        <4> QED BY <4>1, <4>2 DEF Inv, Unpublished, Joined
      <3> QED BY <2>1, <3>1, <3>2
    <2> QED BY <2>2 DEF Inv, TypeOK, Connecting, Marked
  <1> QED BY InvHolds, <1>1, PTL DEF Spec, OutputBeforeTeardown

-----------------------------------------------------------------------------
(* The budgets of the writer.                                              *)

\* The quotient of a division, pinned down by multiplication alone.
LEMMA Division ==
  ASSUME NEW x \in Nat, NEW y \in Nat \ {0}
  PROVE  /\ x \div y \in Nat
         /\ y * (x \div y) <= x
         /\ x < y * (x \div y) + y
  OBVIOUS

\* Division rounded up is the smallest number that is large enough.
LEMMA DivisionUp ==
  ASSUME NEW x \in Nat, NEW y \in Nat \ {0}
  PROVE  /\ DivCeil(x, y) \in Nat
         /\ x <= y * DivCeil(x, y)
         /\ y * DivCeil(x, y) < x + y
  <1>1. x + y - 1 \in Nat
    OBVIOUS
  <1>2. /\ DivCeil(x, y) \in Nat
        /\ y * DivCeil(x, y) <= x + y - 1
        /\ x + y - 1 < y * DivCeil(x, y) + y
    BY <1>1, Division DEF DivCeil
  <1>3. y * DivCeil(x, y) \in Nat
    BY <1>2
  <1> QED BY <1>2, <1>3

\* A product that is smaller than another with the same factor has the smaller cofactor.
LEMMA CancelFactor ==
  ASSUME NEW a \in Nat, NEW b \in Nat, NEW y \in Nat \ {0}, y * a < y * b + y
  PROVE  a <= b
  <1> SUFFICES ASSUME a >= b + 1 PROVE FALSE
    OBVIOUS
  <1>1. PICK d \in Nat : a = b + 1 + d
    <2>1. a - (b + 1) \in Nat /\ a = b + 1 + (a - (b + 1))
      OBVIOUS
    <2> QED BY <2>1
  <1>2. y * a = y * b + y + y * d
    BY <1>1
  <1>3. y * d \in Nat /\ y * b \in Nat
    OBVIOUS
  <1> QED BY <1>2, <1>3

LEMMA FrameType == FrameBits \subseteq 7..12
  BY DEF FrameBits

-----------------------------------------------------------------------------
(* Names for the products: a proof about sizes and times unfolds them only *)
(* where it has to compute.                                                *)

\* What the longest budget leaves for the transmission.
Longest == MaxWriteTimeout - WriteMargin

\* Twice the time of n bytes on the wire, times the baud rate.
Wire(f, n) == 2 * n * f * 1000

\* What a baud rate transmits in a time.
Carried(b, time) == b * time

LEMMA LongestValue == Longest = 29000 /\ Longest \in Nat
  BY DEF Longest, MaxWriteTimeout, WriteMargin

LEMMA ProductTypes ==
  ASSUME NEW f \in Nat, NEW n \in Nat
  PROVE  Wire(f, n) \in Nat /\ Carried(f, n) \in Nat
  BY DEF Wire, Carried

\* Both products are monotonic.
LEMMA Monotonic ==
  ASSUME NEW f \in Nat, NEW n \in Nat, NEW k \in Nat, n <= k
  PROVE  Wire(f, n) <= Wire(f, k) /\ Carried(f, n) <= Carried(f, k)
  <1>1. PICK d \in Nat : k = n + d
    <2>1. k - n \in Nat /\ k = n + (k - n)
      OBVIOUS
    <2> QED BY <2>1
  <1>2. f * n \in Nat /\ f * d \in Nat /\ f * k = f * n + f * d
    BY <1>1
  <1>3. Carried(f, n) <= Carried(f, k)
    BY <1>1, <1>2 DEF Carried
  <1>4. Wire(f, n) = 2000 * (f * n) /\ Wire(f, k) = 2000 * (f * k)
    BY <1>1 DEF Wire
  <1>5. Wire(f, n) <= Wire(f, k)
    <2>1. f * k \in Nat
      OBVIOUS
    <2> QED BY <2>1, <1>2, <1>4
  <1> QED BY <1>3, <1>5

\* A quotient rounded down carries no more than the dividend, and is positive here.
LEMMA FloorFits ==
  ASSUME NEW b \in Nat \ {0}, NEW f \in 7..12
  PROVE  LET q == (Longest * b) \div (2 * f * 1000)
         IN  q \in Nat \ {0} /\ Wire(f, q) <= Carried(b, Longest)
  <1> DEFINE n == 29000 * b
             m == 2000 * f
             q == n \div m
  <1>1. n \in Nat /\ m \in Nat \ {0} /\ m <= n
    OBVIOUS
  <1>2. Longest * b = n /\ 2 * f * 1000 = m /\ Carried(b, Longest) = n
    BY LongestValue DEF Carried
  <1> HIDE DEF n
  <1>3. q \in Nat
    <2> HIDE DEF m
    <2> QED BY <1>1, Division
  <1>4. m * q <= n
    <2> HIDE DEF m
    <2> QED BY <1>1, Division
  <1>5. n < m * q + m
    <2> HIDE DEF m
    <2> QED BY <1>1, Division
  <1>6. q # 0
    <2> HIDE DEF m, q
    <2> QED BY <1>1, <1>3, <1>5
  <1> HIDE DEF q
  <1>7. Wire(f, q) = m * q
    BY <1>3 DEF Wire
  <1> QED BY <1>2, <1>3, <1>4, <1>6, <1>7 DEF q

-----------------------------------------------------------------------------

\* A block has at least one byte, and at most what the longest budget allows.
LEMMA ChunkBounds ==
  ASSUME NEW b \in Nat \ {0}, NEW f \in 7..12
  PROVE  /\ ChunkSize(b, f) \in Nat /\ ChunkSize(b, f) <= WriteChunkSize
         /\ Wire(f, ChunkSize(b, f)) <= Carried(b, Longest)
  <1> DEFINE q == (Longest * b) \div (2 * f * 1000)
             c == Clamp(q, 1, WriteChunkSize)
  <1>1. c = ChunkSize(b, f)
    BY DEF ChunkSize, Longest
  <1>2. q \in Nat \ {0} /\ Wire(f, q) <= Carried(b, Longest)
    BY FloorFits
  <1> HIDE DEF q
  <1>3. c \in Nat /\ c <= WriteChunkSize /\ c <= q
    BY <1>2 DEF Clamp, WriteChunkSize
  <1> HIDE DEF c
  <1>4. Wire(f, c) <= Wire(f, q)
    BY <1>2, <1>3, Monotonic
  <1>5. Wire(f, c) \in Nat /\ Wire(f, q) \in Nat /\ Carried(b, Longest) \in Nat
    <2>1. f \in Nat /\ b \in Nat /\ Longest \in Nat /\ q \in Nat
      BY <1>2, LongestValue
    <2> QED BY <2>1, <1>3, ProductTypes, Zenon
  <1>6. Wire(f, c) <= Carried(b, Longest)
    BY <1>2, <1>4, <1>5
  <1> QED BY <1>1, <1>3, <1>6

\* The transmission of a block takes at most the longest budget less its margin.
LEMMA BlockFits ==
  ASSUME NEW b \in Nat \ {0}, NEW f \in 7..12, NEW size \in Nat, size <= ChunkSize(b, f)
  PROVE  /\ Transmission(b, f, size) \in Nat
         /\ Transmission(b, f, size) <= Longest
         /\ Wire(f, size) <= Carried(b, Transmission(b, f, size))
  <1> DEFINE wire == Wire(f, size)
             time == DivCeil(wire, b)
  <1>1. time = Transmission(b, f, size)
    BY DEF Transmission, Wire
  <1>2. wire \in Nat /\ wire <= Carried(b, Longest)
    <2> DEFINE c == ChunkSize(b, f)
    <2>1. c \in Nat /\ Wire(f, c) <= Carried(b, Longest)
      BY ChunkBounds
    <2>2. size <= c
      OBVIOUS
    <2> HIDE DEF c
    <2>3. wire <= Wire(f, c)
      BY <2>1, <2>2, Monotonic
    <2>4. wire \in Nat /\ Wire(f, c) \in Nat /\ Carried(b, Longest) \in Nat
      <3>1. f \in Nat /\ b \in Nat /\ Longest \in Nat
        BY LongestValue
      <3> QED BY <3>1, <2>1, ProductTypes, Zenon
    <2> QED BY <2>1, <2>3, <2>4
  <1> HIDE DEF wire
  <1>3. time \in Nat /\ wire <= b * time /\ b * time < wire + b
    BY <1>2, DivisionUp
  <1> HIDE DEF time
  <1>4. wire <= Carried(b, time)
    BY <1>3 DEF Carried
  <1>5. time <= Longest
    <2>1. Carried(b, Longest) = b * 29000
      BY LongestValue DEF Carried
    <2>2. b * time \in Nat /\ b * 29000 \in Nat
      BY <1>3
    <2>3. b * time < b * 29000 + b
      BY <2>1, <2>2, <1>2, <1>3
    <2> QED BY <1>3, <2>3, CancelFactor, LongestValue
  <1> QED BY <1>1, <1>3, <1>4, <1>5 DEF wire

\* A block of the data and its budget.
LEMMA BlockBounds ==
  ASSUME NEW b \in Nat \ {0}, NEW f \in 7..12, NEW left \in Nat \ {0}
  PROVE  LET block == BlockSize(b, f, left)
             spare == Timeout(b, f, block) - WriteMargin
         IN  /\ block \in 1..left
             /\ spare \in Nat
             /\ Wire(f, block) <= Carried(b, spare)
  <1> DEFINE c == ChunkSize(b, f)
             block == BlockSize(b, f, left)
             time == Transmission(b, f, block)
             budget == Timeout(b, f, block)
             spare == budget - WriteMargin
  <1>1. c \in Nat \ {0}
    BY ChunkBounds, FloorFits DEF ChunkSize, Clamp, WriteChunkSize, Longest
  <1>2. block = IF left < c THEN left ELSE c
    BY DEF BlockSize
  <1>3. budget = Clamp(WriteMargin + time, MinWriteTimeout, MaxWriteTimeout)
    BY DEF Timeout
  <1>4. block \in Nat /\ block <= c /\ block \in 1..left
    <2> HIDE DEF c, block
    <2> QED BY <1>1, <1>2
  <1>5. time \in Nat /\ time <= Longest /\ Wire(f, block) <= Carried(b, time)
    <2> HIDE DEF block
    <2> QED BY <1>4, BlockFits
  <1> HIDE DEF time, c, block, budget
  <1>6. spare \in Nat /\ time <= spare
    BY <1>3, <1>5, LongestValue DEF Clamp, WriteMargin, MinWriteTimeout, MaxWriteTimeout
  <1> HIDE DEF spare
  <1>7. Carried(b, time) <= Carried(b, spare)
    BY <1>5, <1>6, Monotonic
  <1>8. Wire(f, block) \in Nat /\ Carried(b, time) \in Nat /\ Carried(b, spare) \in Nat
    <2>1. f \in Nat /\ b \in Nat
      OBVIOUS
    <2> QED BY <2>1, <1>4, <1>5, <1>6, ProductTypes, Zenon
  <1>9. Wire(f, block) <= Carried(b, spare)
    BY <1>5, <1>7, <1>8
  <1> QED BY <1>4, <1>6, <1>9 DEF block, budget, spare

\* No budget is cut short by the limit of 30 seconds and no block is empty, at any baud
\* rate of WritePolicy.
THEOREM BudgetCoversWireHolds == BudgetCoversWire
  <1> SUFFICES ASSUME NEW baud \in Baud, NEW frame \in FrameBits, NEW left \in 1..MaxLength
               PROVE  LET block == BlockSize(baud, frame, left)
                      IN  /\ block \in 1..left
                          /\ (Timeout(baud, frame, block) - WriteMargin) * baud
                                >= 2 * block * frame * 1000
    BY DEF BudgetCoversWire
  <1> DEFINE block == BlockSize(baud, frame, left)
             spare == Timeout(baud, frame, block) - WriteMargin
  <1>1. baud \in Nat \ {0} /\ frame \in 7..12 /\ left \in Nat \ {0}
    BY FrameType, TimingAssumption
  <1>2. block \in 1..left /\ spare \in Nat /\ Wire(frame, block) <= Carried(baud, spare)
    BY <1>1, BlockBounds
  <1> HIDE DEF block, spare
  <1>3. block \in Nat /\ frame \in Nat /\ baud \in Nat
    BY <1>1, <1>2
  <1>4. Wire(frame, block) \in Nat /\ Carried(baud, spare) \in Nat
    BY <1>2, <1>3, ProductTypes, Zenon
  <1>5. Wire(frame, block) = 2 * block * frame * 1000
    BY DEF Wire
  <1>6. Carried(baud, spare) = spare * baud
    BY <1>2, <1>3 DEF Carried
  <1>7. spare * baud >= 2 * block * frame * 1000
    BY <1>2, <1>4, <1>5, <1>6
  <1> QED BY <1>2, <1>7 DEF block, spare

=============================================================================
