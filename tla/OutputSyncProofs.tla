-------------------------- MODULE OutputSyncProofs --------------------------
(***************************************************************************)
(* The safety properties of OutputSync, and that it implements             *)
(* OutputStream, for any chunks, limits, channels and bounds.              *)
(***************************************************************************)
EXTENDS OutputSync, SequenceTheorems, TLAPS

(***************************************************************************)
(* The invariant.                                                          *)
(***************************************************************************)

\* What is retained fits into one read.
TailFits == cursor - dropped <= RestoreMaxChars

\* Subscribing comes first: while a subscription is open nothing else has begun.
Subscribing ==
  /\ \A c \in Channel : listener[c] \in {"asked", "active"} => phase \in {"subscribing", "disposed"}
  /\ phase \in {"idle", "subscribing"} => task = "none"

\* The part being written starts at the cursor, and no request is under way.
WritesNext ==
  writing # Nothing =>
    /\ applied # NoCursor
    /\ writing.from = applied
    /\ writing.from < writing.to
    /\ task \in {"drain", "pump"}

\* A range that has been read starts at the cursor, or before it only what was
\* dropped is missing.
AnswerFits ==
  request.state = "answered" =>
    request.range.start = applied \/ request.range.start <= dropped

\* The cursor is what comes after the characters shown, but for dropped ones.
ShownUpToCursor ==
  shown # <<>> =>
    /\ applied # NoCursor
    /\ \/ applied = shown[Len(shown)] + 1
       \/ shown[Len(shown)] + 1 < applied /\ applied <= dropped

\* A disposed controller has nothing to show and waits for an answer at most.
QuietWhenDisposed ==
  phase = "disposed" => pending = <<>> /\ writing = Nothing /\ task \notin {"drain", "pump"}

Inv ==
  /\ TypeOK /\ NoLostWakeup /\ TailFits /\ Subscribing
  /\ WritesNext /\ AnswerFits /\ ShownUpToCursor /\ QuietWhenDisposed

(***************************************************************************)
(* Lemmas.                                                                 *)
(***************************************************************************)

\* The longest tail that stays after trimming to the limit.
LEMMA TrimmedFits ==
  ASSUME TypeOutput, NEW n \in Nat, AppendOutput(n), TailFits
  PROVE  TypeOutput' /\ TailFits'
<1>1. limit \in Nat /\ limit <= RestoreMaxChars /\ RestoreMaxChars \in Nat
  BY OutputAssumption DEF TypeOutput
<1>2. cursor \in Nat /\ dropped \in Nat /\ dropped <= cursor
  BY DEF TypeOutput
<1>3. cursor' = cursor + n /\ limit' = limit
  BY DEF AppendOutput
<1>4. /\ dropped' >= dropped /\ dropped' >= cursor + n - limit
      /\ dropped' \in {dropped, cursor + n - limit}
  BY <1>1, <1>2 DEF AppendOutput, Greatest
<1>5. dropped' \in 0..cursor'
  BY <1>1, <1>2, <1>3, <1>4
<1>6. cursor' \in Nat /\ dropped' \in Nat
  BY <1>1, <1>2, <1>3, <1>4
<1>7. cursor' - dropped' <= RestoreMaxChars
  <2> DEFINE d == dropped'
             e == cursor'
  <2>1. d \in Nat /\ e \in Nat /\ e = cursor + n /\ d >= cursor + n - limit
    BY <1>3, <1>4, <1>6
  <2> HIDE DEF d, e
  <2>2. e - d <= RestoreMaxChars
    BY <1>1, <1>2, <2>1
  <2> QED BY <2>2 DEF d, e
<1> QED BY <1>3, <1>5, <1>6, <1>7 DEF TypeOutput, TailFits

\* A snapshot starts where the retained output does.
LEMMA SnapshotRange ==
  ASSUME TypeOutput, TailFits
  PROVE  ReadOutput \in ReadRange /\ ReadOutput.start = dropped
<1>1. cursor \in Nat /\ dropped \in Nat /\ dropped <= cursor /\ RestoreMaxChars \in Nat
  BY OutputAssumption DEF TypeOutput
<1>2. Least(RestoreMaxChars, cursor - dropped) = cursor - dropped
  BY <1>1 DEF Least, TailFits
<1>3. ReadOutput = [start |-> cursor - (cursor - dropped), cursor |-> cursor,
                    truncated |-> dropped > 0 \/ cursor - dropped < cursor - dropped]
  BY <1>2 DEF ReadOutput
<1>4. (dropped > 0 \/ cursor - dropped < cursor - dropped) \in BOOLEAN
  OBVIOUS
<1>5. cursor - (cursor - dropped) = dropped /\ dropped \in 0..cursor /\ cursor \in 0..cursor
  BY <1>1
<1> QED BY <1>3, <1>4, <1>5 DEF ReadRange

\* A delta starts at the cursor it was asked from, or where the retained output does.
LEMMA DeltaRange ==
  ASSUME TypeOutput, TailFits, NEW from \in {NoCursor} \cup 0..cursor
  PROVE  /\ ReadOutputDelta(from) \in ReadRange
         /\ \/ ReadOutputDelta(from).start = from
            \/ ReadOutputDelta(from).start <= dropped
<1>1. cursor \in Nat /\ dropped \in Nat /\ dropped <= cursor /\ RestoreMaxChars \in Nat
  BY OutputAssumption DEF TypeOutput
<1> DEFINE first == Greatest(from, dropped)
           size == Least(RestoreMaxChars, cursor - first)
           cut == from < dropped \/ size < cursor - first
<1>2. first \in {from, dropped} /\ first \in dropped..cursor
  BY <1>1 DEF Greatest, NoCursor
<1>3. size = cursor - first
  BY <1>1, <1>2 DEF Least, TailFits
<1>4. cursor - size = first /\ first \in 0..cursor /\ cursor \in 0..cursor /\ cut \in BOOLEAN
  BY <1>1, <1>2, <1>3
<1>5. ReadOutputDelta(from) = [start |-> cursor - size, cursor |-> cursor, truncated |-> cut]
  BY DEF ReadOutputDelta
<1> HIDE DEF first, size, cut
<1>6. ReadOutputDelta(from) \in ReadRange /\ ReadOutputDelta(from).start = first
  BY <1>4, <1>5 DEF ReadRange
<1> QED BY <1>1, <1>2, <1>6

\* Events stay within output that only grows.
LEMMA EventsGrow ==
  ASSUME cursor \in Nat, cursor' \in Nat, cursor <= cursor'
  PROVE  Event \subseteq Event' /\ Seq(Event) \subseteq Seq(Event')
<1>1. 0..cursor \subseteq 0..cursor'
  OBVIOUS
<1>2. Event \subseteq Event'
  BY <1>1 DEF Event
<1> QED BY <1>2, SeqMonotonic

\* The characters from one position to a later one, as a sequence.
LEMMA RunFacts ==
  ASSUME NEW from \in Nat, NEW to \in Nat, from < to
  PROVE  /\ Stream!Run(from, to) \in Seq(Nat)
         /\ Len(Stream!Run(from, to)) = to - from
         /\ Stream!Run(from, to)[to - from] = to - 1
<1>1. to - from \in Nat /\ to - from \in 1..(to - from)
  OBVIOUS
<1>2. \A i \in 1..(to - from) : from + i - 1 \in Nat
  OBVIOUS
<1>3. Stream!Run(from, to) \in Seq(Nat) /\ Len(Stream!Run(from, to)) = to - from
  BY <1>1, <1>2 DEF Stream!Run
<1>4. Stream!Run(from, to)[to - from] = from + (to - from) - 1
  BY <1>1 DEF Stream!Run
<1> QED BY <1>3, <1>4

\* What is written is the last of what is shown.
LEMMA ShownRun ==
  ASSUME NEW s \in Seq(Nat), NEW from \in Nat, NEW to \in Nat, from < to
  PROVE  /\ s \o Stream!Run(from, to) \in Seq(Nat)
         /\ s \o Stream!Run(from, to) # <<>>
         /\ (s \o Stream!Run(from, to))[Len(s \o Stream!Run(from, to))] = to - 1
<1> DEFINE r == Stream!Run(from, to)
<1>1. r \in Seq(Nat) /\ Len(r) = to - from /\ r[to - from] = to - 1
  BY RunFacts
<1> HIDE DEF r
<1>2. /\ s \o r \in Seq(Nat) /\ Len(s \o r) = Len(s) + Len(r)
      /\ \A i \in 1..Len(s) + Len(r) : (s \o r)[i] = IF i <= Len(s) THEN s[i] ELSE r[i - Len(s)]
  BY <1>1, ConcatProperties
<1>3. Len(s) \in Nat /\ Len(s) + Len(r) \in 1..Len(s) + Len(r) /\ ~(Len(s) + Len(r) <= Len(s))
      /\ Len(s) + Len(r) - Len(s) = to - from
  BY <1>1
<1>4. (s \o r)[Len(s \o r)] = to - 1
  BY <1>1, <1>2, <1>3
<1>5. s \o r # <<>>
  BY <1>2, <1>3
<1> QED BY <1>2, <1>4, <1>5 DEF r

(***************************************************************************)
(* The steps of the session.                                               *)
(***************************************************************************)

\* What a step of the session leaves alone keeps its properties while the output
\* grows and more of it is dropped.
LEMMA ViewFrame ==
  ASSUME Inv, UNCHANGED viewVars, TypeOutput', cursor <= cursor', dropped <= dropped'
  PROVE  /\ TypeView' /\ TaskMatches' /\ NoLostWakeup' /\ Subscribing'
         /\ WritesNext' /\ AnswerFits' /\ ShownUpToCursor' /\ QuietWhenDisposed'
<1>1. TypeOutput /\ TypeView /\ TaskMatches
  BY DEF Inv, TypeOK
<1>2. cursor \in Nat /\ cursor' \in Nat /\ dropped \in Nat /\ dropped' \in Nat
  BY <1>1 DEF TypeOutput
<1>3. 0..cursor \subseteq 0..cursor'
  BY <1>2
<1>4. Seq(Event) \subseteq Seq(Event')
  BY <1>2, EventsGrow
<1>5. ReadRange \subseteq ReadRange'
  BY <1>3 DEF ReadRange
<1>6. pending' \in Seq(Event')
  BY <1>1, <1>4 DEF TypeView, viewVars
<1>7. applied' \in {NoCursor} \cup 0..cursor'
  BY <1>1, <1>3 DEF TypeView, viewVars
<1>8. writing' \in [from : 0..cursor', to : 0..cursor']
  BY <1>1, <1>3 DEF TypeView, viewVars
<1>9. request' \in {NoRequest} \cup [state : {"asked", "failed"}]
                  \cup [state : {"answered"}, range : ReadRange']
  BY <1>1, <1>5 DEF TypeView, viewVars
<1>10. TypeView'
  BY <1>1, <1>6, <1>7, <1>8, <1>9 DEF TypeView, viewVars
<1>11. TaskMatches' /\ NoLostWakeup' /\ Subscribing' /\ WritesNext' /\ QuietWhenDisposed'
  BY DEF Inv, TypeOK, TaskMatches, NoLostWakeup, Subscribing, WritesNext, QuietWhenDisposed, viewVars
<1>12. AnswerFits'
  <2> SUFFICES ASSUME request.state = "answered"
               PROVE  request.range.start = applied \/ request.range.start <= dropped'
    BY DEF AnswerFits, viewVars
  <2>1. request.range.start = applied \/ request.range.start <= dropped
    BY DEF Inv, AnswerFits
  <2>2. request.range.start \in Nat
    BY <1>1, <1>2 DEF TypeView, NoRequest, ReadRange
  <2> QED BY <1>2, <2>1, <2>2
<1>13. ShownUpToCursor'
  <2> SUFFICES ASSUME shown # <<>>
               PROVE  /\ applied # NoCursor
                      /\ \/ applied = shown[Len(shown)] + 1
                         \/ shown[Len(shown)] + 1 < applied /\ applied <= dropped'
    BY DEF ShownUpToCursor, viewVars
  <2>1. applied # NoCursor
    BY DEF Inv, ShownUpToCursor
  <2>2. applied \in Nat
    BY <1>1, <1>2, <2>1 DEF TypeView
  <2> QED BY <1>2, <2>1, <2>2 DEF Inv, ShownUpToCursor
<1> QED BY <1>10, <1>11, <1>12, <1>13

LEMMA ProduceStep == ASSUME Inv, NEW n \in Chunk, Produce(n) PROVE Inv'
<1>1. TypeOutput /\ TypeSession /\ TailFits
  BY DEF Inv, TypeOK
<1>2. n \in Nat
  BY OutputAssumption
<1>3. TypeOutput' /\ TailFits'
  BY <1>1, <1>2, TrimmedFits DEF Produce
<1>4. cursor \in Nat /\ cursor' = cursor + n /\ cursor' \in Nat /\ cursor <= cursor'
  BY <1>1, <1>2 DEF TypeOutput, Produce, AppendOutput
<1>5. limit \in Nat /\ dropped \in Nat
  BY <1>1, <1>4, OutputAssumption DEF TypeOutput
<1>6. dropped <= dropped'
  BY <1>2, <1>4, <1>5 DEF Produce, AppendOutput, Greatest
<1>7. wire' \in Seq(Event')
  BY <1>1, <1>4, EventsGrow DEF TypeSession, Produce
<1>8. cursor \in 0..cursor' /\ cursor + n \in 0..cursor'
  BY <1>2, <1>4
<1>9. emission' \in Event'
  BY <1>8 DEF Produce, Output, Event
<1>10. emitted' \in 0..MaxEvents
  BY <1>1, SyncAssumption DEF TypeSession, Produce
<1>11. TypeSession'
  BY <1>7, <1>9, <1>10 DEF TypeSession
<1>12. UNCHANGED viewVars
  BY DEF Produce
<1> QED BY <1>3, <1>4, <1>6, <1>11, <1>12, ViewFrame DEF Inv, TypeOK

\* A step that only sends or changes the limit.
LEMMA SendStep ==
  ASSUME Inv, UNCHANGED <<cursor, dropped, viewVars>>, limit' \in Limits, TypeSession'
  PROVE  Inv'
<1>1. TypeOutput /\ TailFits
  BY DEF Inv, TypeOK
<1>2. TypeOutput' /\ TailFits'
  BY <1>1 DEF TypeOutput, TailFits
<1>3. cursor \in Nat /\ dropped \in Nat
  BY <1>1 DEF TypeOutput
<1>4. cursor <= cursor' /\ dropped <= dropped'
  BY <1>3
<1> QED BY <1>2, <1>4, ViewFrame DEF Inv, TypeOK

\* Sending appends an event to the wire, or loses it.
LEMMA SendTypes ==
  ASSUME TypeSession, NEW event \in Event, NEW c, Send(event, c), UNCHANGED cursor
  PROVE  wire' \in Seq(Event')
<1>1. Event' = Event
  BY DEF Event
<1>2. Append(wire, event) \in Seq(Event) /\ wire \in Seq(Event)
  BY DEF TypeSession
<1> QED BY <1>1, <1>2 DEF Send

LEMMA EmitStep == ASSUME Inv, NEW c \in Channel, Emit(c) PROVE Inv'
<1>1. TypeOutput /\ TypeSession
  BY DEF Inv, TypeOK
<1>2. UNCHANGED <<cursor, dropped, limit, emitted, viewVars>>
  BY DEF Emit, outputVars
<1>3. emission \in Event
  BY <1>1 DEF Emit, TypeSession
<1>4. wire' \in Seq(Event')
  BY <1>1, <1>2, <1>3, SendTypes DEF Emit
<1>5. TypeSession'
  BY <1>1, <1>2, <1>4 DEF TypeSession, Emit
<1> QED BY <1>1, <1>2, <1>5, SendStep DEF TypeOutput

LEMMA EmitNoticeStep == ASSUME Inv, EmitNotice PROVE Inv'
<1>1. TypeOutput /\ TypeSession
  BY DEF Inv, TypeOK
<1>2. UNCHANGED <<cursor, dropped, limit, emission, viewVars>>
  BY DEF EmitNotice, outputVars
<1>3. Notice \in Event /\ Event' = Event
  BY <1>2 DEF Notice, Event
<1>4. wire' \in Seq(Event')
  BY <1>1, <1>2, <1>3, SendTypes DEF EmitNotice
<1>5. emitted' \in 0..MaxEvents
  BY <1>1, SyncAssumption DEF TypeSession, EmitNotice
<1>6. TypeSession'
  BY <1>1, <1>2, <1>3, <1>4, <1>5 DEF TypeSession
<1> QED BY <1>1, <1>2, <1>6, SendStep DEF TypeOutput

LEMMA SetLimitStep == ASSUME Inv, NEW l \in Limits, SetLimit(l) PROVE Inv'
<1>1. TypeSession
  BY DEF Inv, TypeOK
<1>2. UNCHANGED <<cursor, dropped, emission, emitted, wire, viewVars>> /\ limit' = l
  BY DEF SetLimit, SetOutputLimit
<1>3. Event' = Event
  BY <1>2 DEF Event
<1>4. TypeSession'
  BY <1>1, <1>2, <1>3 DEF TypeSession
<1> QED BY <1>2, <1>4, SendStep

(***************************************************************************)
(* The steps of the controller and of the requests it makes.               *)
(***************************************************************************)

\* They leave the session alone.
LEMMA SessionFrame ==
  ASSUME Inv, UNCHANGED sessionVars
  PROVE  /\ TypeOutput' /\ TypeSession' /\ TailFits'
         /\ Event' = Event /\ ReadRange' = ReadRange
         /\ cursor \in Nat /\ dropped \in Nat
<1>1. TypeOutput /\ TypeSession /\ TailFits
  BY DEF Inv, TypeOK
<1>2. Event' = Event /\ ReadRange' = ReadRange
  BY DEF sessionVars, Event, ReadRange
<1>3. TypeOutput' /\ TailFits'
  BY <1>1 DEF sessionVars, TypeOutput, TailFits
<1>4. TypeSession'
  BY <1>1, <1>2 DEF sessionVars, TypeSession
<1> QED BY <1>1, <1>2, <1>3, <1>4 DEF TypeOutput

LEMMA AnswerStep == ASSUME Inv, Answer PROVE Inv'
<1>1. UNCHANGED sessionVars /\ UNCHANGED <<listener, phase, applied, pending, heard, retained,
                                          task, drains, writing, failures, shown>>
  BY DEF Answer
<1>2. TypeOutput' /\ TypeSession' /\ TailFits' /\ Event' = Event /\ ReadRange' = ReadRange
  BY <1>1, SessionFrame
<1>3. TypeOutput /\ TailFits /\ TypeView /\ TaskMatches
  BY DEF Inv, TypeOK
<1> DEFINE read == IF task = "snapshot" THEN ReadOutput ELSE ReadOutputDelta(applied)
<1>4. read \in ReadRange /\ (read.start = applied \/ read.start <= dropped)
  <2>1. CASE task = "snapshot"
    <3>1. ReadOutput \in ReadRange /\ ReadOutput.start = dropped /\ dropped \in Nat
      BY <1>3, SnapshotRange DEF TypeOutput
    <3> QED BY <2>1, <3>1
  <2>2. CASE task # "snapshot"
    <3>1. applied \in {NoCursor} \cup 0..cursor
      BY <1>3 DEF TypeView
    <3> QED BY <1>3, <2>2, <3>1, DeltaRange
  <2> QED BY <2>1, <2>2
<1>5. request' = [state |-> "answered", range |-> read] /\ request.state = "asked"
  BY DEF Answer
<1> HIDE DEF read
<1>6. request' \in [state : {"answered"}, range : ReadRange']
  BY <1>2, <1>4, <1>5
<1>7. TypeView'
  BY <1>1, <1>2, <1>3, <1>6 DEF TypeView, sessionVars
<1>8. request # NoRequest /\ request' # NoRequest
  BY <1>5 DEF NoRequest
<1>9. TaskMatches'
  BY <1>1, <1>3, <1>8 DEF TaskMatches
<1>10. AnswerFits'
  BY <1>1, <1>4, <1>5 DEF AnswerFits, sessionVars
<1>11. (NoLostWakeup /\ Subscribing /\ WritesNext /\ ShownUpToCursor /\ QuietWhenDisposed)'
  BY <1>1 DEF Inv, NoLostWakeup, Subscribing, WritesNext, ShownUpToCursor, QuietWhenDisposed,
              sessionVars
<1> QED BY <1>2, <1>7, <1>9, <1>10, <1>11 DEF Inv, TypeOK

LEMMA RefuseStep == ASSUME Inv, Refuse PROVE Inv'
<1>1. UNCHANGED sessionVars /\ UNCHANGED <<listener, phase, applied, pending, heard, retained,
                                          task, drains, writing, shown>>
  BY DEF Refuse
<1>2. TypeOutput' /\ TypeSession' /\ TailFits' /\ Event' = Event /\ ReadRange' = ReadRange
  BY <1>1, SessionFrame
<1>3. TypeView /\ TaskMatches
  BY DEF Inv, TypeOK
<1>4. request' = [state |-> "failed"] /\ request.state = "asked"
  BY DEF Refuse
<1>5. request' \in [state : {"asked", "failed"}] /\ request' # NoRequest /\ request # NoRequest
  BY <1>4 DEF NoRequest
<1>6. failures' \in 0..MaxFailures
  BY <1>3, SyncAssumption DEF TypeView, Refuse
<1>7. TypeView'
  BY <1>1, <1>2, <1>3, <1>5, <1>6 DEF TypeView, sessionVars
<1>8. TaskMatches'
  BY <1>1, <1>3, <1>5 DEF TaskMatches
<1>9. AnswerFits'
  BY <1>4 DEF AnswerFits
<1>10. (NoLostWakeup /\ Subscribing /\ WritesNext /\ ShownUpToCursor /\ QuietWhenDisposed)'
  BY <1>1 DEF Inv, NoLostWakeup, Subscribing, WritesNext, ShownUpToCursor, QuietWhenDisposed,
              sessionVars
<1> QED BY <1>2, <1>7, <1>8, <1>9, <1>10 DEF Inv, TypeOK

\* Steps that leave the cursor, what is shown, being written or asked for alone, and
\* whose types are given.
LEMMA ControlFrame ==
  ASSUME Inv, UNCHANGED sessionVars, UNCHANGED <<applied, writing, request, shown>>,
         listener' \in [Channel -> {"none", "asked", "active", "held", "failed", "released"}],
         phase' \in {"idle", "subscribing", "syncing", "live", "disposed"},
         pending' \in Seq(Event), heard' \in BOOLEAN, retained' \in BOOLEAN,
         task' \in {"none", "snapshot", "drain", "draining", "pump", "gap"},
         drains' \in 0..DrainLimit, failures' \in 0..MaxFailures
  PROVE  /\ TypeOutput' /\ TypeSession' /\ TailFits' /\ TypeView'
         /\ AnswerFits' /\ ShownUpToCursor'
<1>1. TypeOutput' /\ TypeSession' /\ TailFits' /\ Event' = Event /\ ReadRange' = ReadRange
  BY SessionFrame
<1>2. TypeView
  BY DEF Inv, TypeOK
<1>3. TypeView'
  BY <1>1, <1>2 DEF TypeView, sessionVars
<1>4. AnswerFits' /\ ShownUpToCursor'
  BY DEF Inv, AnswerFits, ShownUpToCursor, sessionVars
<1> QED BY <1>1, <1>3, <1>4

LEMMA StartStep == ASSUME Inv, Start PROVE Inv'
<1>1. TypeView /\ TaskMatches /\ Subscribing
  BY DEF Inv, TypeOK
<1>2. /\ phase = "idle" /\ phase' = "subscribing" /\ task = "none"
      /\ listener' = [c \in Channel |-> "asked"]
      /\ UNCHANGED sessionVars
      /\ UNCHANGED <<applied, pending, heard, retained, task, drains, writing, request, failures,
                     shown>>
  BY <1>1 DEF Start, Subscribing
<1>3. TypeOutput' /\ TypeSession' /\ TailFits' /\ TypeView' /\ AnswerFits' /\ ShownUpToCursor'
  BY <1>1, <1>2, ControlFrame DEF TypeView
<1>4. (TaskMatches /\ NoLostWakeup /\ Subscribing /\ WritesNext /\ QuietWhenDisposed)'
  BY <1>1, <1>2 DEF Inv, TaskMatches, NoLostWakeup, Subscribing, WritesNext, QuietWhenDisposed
<1> QED BY <1>3, <1>4 DEF Inv, TypeOK

LEMMA RegisterStep == ASSUME Inv, NEW c \in Channel, Register(c) PROVE Inv'
<1>1. TypeView /\ TaskMatches /\ Subscribing
  BY DEF Inv, TypeOK
<1>2. /\ listener[c] = "asked" /\ listener' = [listener EXCEPT ![c] = "active"]
      /\ UNCHANGED sessionVars
      /\ UNCHANGED <<phase, applied, pending, heard, retained, task, drains, writing, request,
                     failures, shown>>
  BY DEF Register
<1>3. TypeOutput' /\ TypeSession' /\ TailFits' /\ TypeView' /\ AnswerFits' /\ ShownUpToCursor'
  BY <1>1, <1>2, ControlFrame DEF TypeView
<1>4. Subscribing'
  BY <1>1, <1>2 DEF Subscribing, TypeView
<1>5. (TaskMatches /\ NoLostWakeup /\ WritesNext /\ QuietWhenDisposed)'
  BY <1>1, <1>2 DEF Inv, TaskMatches, NoLostWakeup, WritesNext, QuietWhenDisposed
<1> QED BY <1>3, <1>4, <1>5 DEF Inv, TypeOK

\* A subscription settles; the last of them ends the first part of run.
LEMMA SettleStep ==
  ASSUME Inv, NEW c \in Channel, NEW outcome \in {"held", "failed", "released"},
         listener[c] \in {"asked", "active"},
         listener' = [listener EXCEPT ![c] = outcome],
         AfterSubscribing, UNCHANGED sessionVars,
         UNCHANGED <<applied, pending, heard, retained, drains, writing, shown>>,
         failures' \in 0..MaxFailures
  PROVE  Inv'
<1>1. TypeView /\ TaskMatches /\ Subscribing
  BY DEF Inv, TypeOK
<1>2. phase \in {"subscribing", "disposed"}
  BY <1>1 DEF Subscribing
<1>3. /\ listener' \in [Channel -> {"none", "asked", "active", "held", "failed", "released"}]
      /\ \A d \in Channel : listener'[d] \in {"asked", "active"} => listener[d] \in {"asked", "active"}
  BY <1>1 DEF TypeView
<1>4. CASE phase = "disposed" \/ \E d \in Channel : listener'[d] \in {"asked", "active"}
  <2>1. UNCHANGED <<phase, task, request>>
    BY <1>4 DEF AfterSubscribing
  <2>2. TypeOutput' /\ TypeSession' /\ TailFits' /\ TypeView' /\ AnswerFits' /\ ShownUpToCursor'
    BY <1>1, <1>3, <2>1, ControlFrame DEF TypeView
  <2>3. Subscribing'
    BY <1>1, <1>3, <2>1 DEF Subscribing
  <2>4. (TaskMatches /\ NoLostWakeup /\ WritesNext /\ QuietWhenDisposed)'
    BY <2>1 DEF Inv, TypeOK, TaskMatches, NoLostWakeup, WritesNext, QuietWhenDisposed
  <2> QED BY <2>2, <2>3, <2>4 DEF Inv, TypeOK
<1>5. CASE ~(phase = "disposed" \/ \E d \in Channel : listener'[d] \in {"asked", "active"})
  <2>1. phase = "subscribing" /\ task = "none" /\ request = NoRequest
    BY <1>1, <1>2, <1>5 DEF Subscribing, TaskMatches
  <2>2. writing = Nothing
    BY <2>1 DEF Inv, WritesNext
  <2>3. CASE \E d \in Channel : listener'[d] = "failed"
    <3>1. phase' = "live" /\ request' = request
          /\ task' = IF pending = <<>> THEN "none" ELSE "pump"
      BY <1>5, <2>3 DEF AfterSubscribing, GoLive
    <3>2. TypeOutput' /\ TypeSession' /\ TailFits' /\ TypeView' /\ AnswerFits' /\ ShownUpToCursor'
      BY <1>1, <1>3, <3>1, ControlFrame DEF TypeView
    <3>3. Subscribing' /\ TaskMatches' /\ NoLostWakeup' /\ WritesNext' /\ QuietWhenDisposed'
      BY <1>5, <2>1, <2>2, <3>1
         DEF Subscribing, TaskMatches, NoLostWakeup, WritesNext, QuietWhenDisposed
    <3> QED BY <3>2, <3>3 DEF Inv, TypeOK
  <2>4. CASE ~\E d \in Channel : listener'[d] = "failed"
    <3>1. phase' = "syncing" /\ task' = "snapshot" /\ request' = [state |-> "asked"]
      BY <1>5, <2>4 DEF AfterSubscribing
    <3>2. TypeOutput' /\ TypeSession' /\ TailFits' /\ Event' = Event /\ ReadRange' = ReadRange
      BY SessionFrame
    <3>3. request' \in [state : {"asked", "failed"}] /\ request' # NoRequest
      BY <3>1 DEF NoRequest
    <3>4. TypeView'
      BY <1>1, <1>3, <3>1, <3>2, <3>3 DEF TypeView, sessionVars
    <3>5. Subscribing' /\ TaskMatches' /\ NoLostWakeup' /\ WritesNext' /\ QuietWhenDisposed'
      BY <1>5, <2>1, <2>2, <3>1, <3>3
         DEF Subscribing, TaskMatches, NoLostWakeup, WritesNext, QuietWhenDisposed
    <3>6. AnswerFits' /\ ShownUpToCursor'
      BY <3>1 DEF Inv, AnswerFits, ShownUpToCursor, sessionVars
    <3> QED BY <3>2, <3>4, <3>5, <3>6 DEF Inv, TypeOK
  <2> QED BY <2>3, <2>4
<1> QED BY <1>4, <1>5

LEMMA SubscribedStep == ASSUME Inv, NEW c \in Channel, Subscribed(c) PROVE Inv'
<1> DEFINE outcome == IF phase = "disposed" THEN "released" ELSE "held"
<1>1. /\ outcome \in {"held", "failed", "released"} /\ listener[c] \in {"asked", "active"}
      /\ listener' = [listener EXCEPT ![c] = outcome]
      /\ AfterSubscribing /\ UNCHANGED sessionVars
      /\ UNCHANGED <<applied, pending, heard, retained, drains, writing, shown>>
  BY DEF Subscribed
<1>2. failures' \in 0..MaxFailures
  BY DEF Inv, TypeOK, TypeView, Subscribed
<1> HIDE DEF outcome
<1> QED BY <1>1, <1>2, SettleStep

LEMMA SubscriptionFailsStep ==
  ASSUME Inv, NEW c \in Channel, SubscriptionFails(c) PROVE Inv'
<1>1. failures' \in 0..MaxFailures
  BY SyncAssumption DEF Inv, TypeOK, TypeView, SubscriptionFails
<1> QED BY <1>1, SettleStep DEF SubscriptionFails

\* Steps that end a request or make one, and leave the cursor and what is shown alone.
LEMMA RequestFrame ==
  ASSUME Inv, UNCHANGED sessionVars, UNCHANGED <<applied, shown>>,
         writing' \in {writing, Nothing}, request' \in {request, NoRequest, [state |-> "asked"]},
         listener' \in [Channel -> {"none", "asked", "active", "held", "failed", "released"}],
         phase' \in {"idle", "subscribing", "syncing", "live", "disposed"},
         pending' \in Seq(Event), heard' \in BOOLEAN, retained' \in BOOLEAN,
         task' \in {"none", "snapshot", "drain", "draining", "pump", "gap"},
         drains' \in 0..DrainLimit, failures' \in 0..MaxFailures
  PROVE  /\ TypeOutput' /\ TypeSession' /\ TailFits' /\ TypeView'
         /\ AnswerFits' /\ ShownUpToCursor'
<1>1. /\ TypeOutput' /\ TypeSession' /\ TailFits' /\ Event' = Event /\ ReadRange' = ReadRange
      /\ cursor \in Nat
  BY SessionFrame
<1>2. TypeView
  BY DEF Inv, TypeOK
<1>3. [state |-> "asked"] \in [state : {"asked", "failed"}]
  OBVIOUS
<1>4. request' \in {NoRequest} \cup [state : {"asked", "failed"}]
                  \cup [state : {"answered"}, range : ReadRange']
  BY <1>1, <1>2, <1>3 DEF TypeView
<1>5. Nothing \in [from : 0..cursor, to : 0..cursor]
  BY <1>1 DEF Nothing
<1>6. writing' \in [from : 0..cursor', to : 0..cursor']
  BY <1>2, <1>5 DEF TypeView, sessionVars
<1>7. TypeView'
  BY <1>1, <1>2, <1>4, <1>6 DEF TypeView, sessionVars
<1>8. request'.state = "answered" => request' = request
  BY DEF NoRequest
<1>9. AnswerFits'
  BY <1>8 DEF Inv, AnswerFits, sessionVars
<1>10. ShownUpToCursor'
  BY DEF Inv, ShownUpToCursor, sessionVars
<1> QED BY <1>1, <1>7, <1>9, <1>10

LEMMA StopPumpStep == ASSUME Inv, StopPump PROVE Inv'
<1>1. TypeView /\ TaskMatches /\ Subscribing
  BY DEF Inv, TypeOK
<1>2. /\ task = "pump" /\ task' = "none" /\ writing = Nothing /\ pending = <<>>
      /\ UNCHANGED sessionVars
      /\ UNCHANGED <<listener, phase, applied, pending, heard, retained, drains, writing, request,
                     failures, shown>>
  BY DEF StopPump
<1>3. TypeOutput' /\ TypeSession' /\ TailFits' /\ TypeView' /\ AnswerFits' /\ ShownUpToCursor'
  BY <1>1, <1>2, ControlFrame DEF TypeView
<1>4. (TaskMatches /\ NoLostWakeup /\ Subscribing /\ WritesNext /\ QuietWhenDisposed)'
  BY <1>1, <1>2 DEF Inv, TaskMatches, NoLostWakeup, Subscribing, WritesNext, QuietWhenDisposed
<1> QED BY <1>3, <1>4 DEF Inv, TypeOK

LEMMA AskGapStep == ASSUME Inv, AskGap PROVE Inv'
<1>1. TypeView /\ TaskMatches /\ Subscribing
  BY DEF Inv, TypeOK
<1>2. /\ task = "pump" /\ task' = "gap" /\ writing = Nothing /\ heard' = FALSE
      /\ request' = [state |-> "asked"]
      /\ UNCHANGED sessionVars
      /\ UNCHANGED <<listener, phase, applied, pending, retained, drains, writing, failures, shown>>
  BY DEF AskGap
<1>3. TypeOutput' /\ TypeSession' /\ TailFits' /\ TypeView' /\ AnswerFits' /\ ShownUpToCursor'
  BY <1>1, <1>2, RequestFrame DEF TypeView
<1>4. request' # NoRequest
  BY <1>2 DEF NoRequest
<1>5. (TaskMatches /\ NoLostWakeup /\ Subscribing /\ WritesNext /\ QuietWhenDisposed)'
  BY <1>1, <1>2, <1>4 DEF Inv, TaskMatches, NoLostWakeup, Subscribing, WritesNext, QuietWhenDisposed
<1> QED BY <1>3, <1>5 DEF Inv, TypeOK

LEMMA AskDrainStep == ASSUME Inv, AskDrain PROVE Inv'
<1>1. TypeView /\ TaskMatches /\ Subscribing
  BY DEF Inv, TypeOK
<1>2. /\ task = "drain" /\ task' = "draining" /\ writing = Nothing /\ retained' = FALSE
      /\ request' = [state |-> "asked"] /\ drains < DrainLimit /\ drains' = drains + 1
      /\ UNCHANGED sessionVars
      /\ UNCHANGED <<listener, phase, applied, pending, heard, writing, failures, shown>>
  BY DEF AskDrain, MoreDrains
<1>3. drains' \in 0..DrainLimit
  BY <1>1, <1>2, SyncAssumption DEF TypeView
<1>4. TypeOutput' /\ TypeSession' /\ TailFits' /\ TypeView' /\ AnswerFits' /\ ShownUpToCursor'
  BY <1>1, <1>2, <1>3, RequestFrame DEF TypeView
<1>5. request' # NoRequest
  BY <1>2 DEF NoRequest
<1>6. (TaskMatches /\ NoLostWakeup /\ Subscribing /\ WritesNext /\ QuietWhenDisposed)'
  BY <1>1, <1>2, <1>5 DEF Inv, TaskMatches, NoLostWakeup, Subscribing, WritesNext, QuietWhenDisposed
<1> QED BY <1>4, <1>6 DEF Inv, TypeOK

LEMMA StopDrainingStep == ASSUME Inv, StopDraining PROVE Inv'
<1>1. TypeView /\ TaskMatches /\ Subscribing
  BY DEF Inv, TypeOK
<1>2. /\ task = "drain" /\ writing = Nothing /\ phase' = "live"
      /\ task' = IF pending = <<>> THEN "none" ELSE "pump"
      /\ UNCHANGED sessionVars
      /\ UNCHANGED <<listener, applied, pending, heard, retained, drains, writing, request,
                     failures, shown>>
  BY DEF StopDraining, GoLive
<1>3. TypeOutput' /\ TypeSession' /\ TailFits' /\ TypeView' /\ AnswerFits' /\ ShownUpToCursor'
  BY <1>1, <1>2, ControlFrame DEF TypeView
<1>4. (TaskMatches /\ NoLostWakeup /\ Subscribing /\ WritesNext /\ QuietWhenDisposed)'
  BY <1>1, <1>2 DEF Inv, TaskMatches, NoLostWakeup, Subscribing, WritesNext, QuietWhenDisposed
<1> QED BY <1>3, <1>4 DEF Inv, TypeOK

LEMMA ReceiveStep == ASSUME Inv, Receive PROVE Inv'
<1>1. TypeOutput /\ TypeSession /\ TypeView /\ TaskMatches /\ TailFits /\ Subscribing
  BY DEF Inv, TypeOK
<1>2. /\ wire # <<>> /\ wire' = Tail(wire)
      /\ UNCHANGED <<cursor, dropped, limit, emission, emitted, listener, phase, applied, drains,
                     writing, request, failures, shown>>
  BY DEF Receive, outputVars
<1>3. Head(wire) \in Event /\ Tail(wire) \in Seq(Event)
  BY <1>1, <1>2, HeadTailProperties DEF TypeSession
<1>4. Event' = Event /\ ReadRange' = ReadRange
  BY <1>2 DEF Event, ReadRange
<1>5. TypeOutput' /\ TailFits'
  BY <1>1, <1>2 DEF TypeOutput, TailFits
<1>6. TypeSession'
  BY <1>1, <1>2, <1>3, <1>4 DEF TypeSession
<1>7. /\ pending' \in Seq(Event) /\ heard' \in BOOLEAN
      /\ task' \in {"none", "snapshot", "drain", "draining", "pump", "gap"}
      /\ retained' \in BOOLEAN
  <2>1. CASE phase = "disposed"
    BY <1>1, <2>1 DEF Receive, TypeView
  <2>2. CASE phase # "disposed"
    <3>1. Append(pending, Head(wire)) \in Seq(Event)
      BY <1>1, <1>3 DEF TypeView
    <3> QED BY <1>1, <2>2, <3>1 DEF Receive, TypeView
  <2> QED BY <2>1, <2>2
<1>8. TypeView'
  BY <1>1, <1>2, <1>4, <1>7 DEF TypeView
<1>9. AnswerFits' /\ ShownUpToCursor'
  BY <1>2 DEF Inv, AnswerFits, ShownUpToCursor
<1>10. task' # task => phase = "live" /\ task = "none" /\ task' = "pump"
  BY DEF Receive
<1>11. phase = "disposed" => UNCHANGED <<pending, heard, retained, task>>
  BY DEF Receive
<1>12. phase = "live" => task' # "none"
  BY DEF Receive
<1>13. (TaskMatches /\ NoLostWakeup /\ Subscribing /\ WritesNext /\ QuietWhenDisposed)'
  BY <1>1, <1>2, <1>10, <1>11, <1>12
     DEF Inv, TaskMatches, NoLostWakeup, Subscribing, WritesNext, QuietWhenDisposed
<1> QED BY <1>5, <1>6, <1>8, <1>9, <1>13 DEF Inv, TypeOK

\* Where a range that has been read, or an event that has been reached, leaves the cursor
\* and what is to be written next.
LEMMA ApplyFits ==
  ASSUME Inv, NEW range, NEW gap \in BOOLEAN, Apply(range, gap),
         range.start \in 0..cursor, range.cursor \in 0..cursor,
         gap => range.start = applied \/ range.start <= dropped,
         UNCHANGED <<cursor, dropped, shown>>
  PROVE  /\ applied' \in {NoCursor} \cup 0..cursor
         /\ writing' \in [from : 0..cursor, to : 0..cursor]
         /\ writing' # Nothing =>
              applied' # NoCursor /\ writing'.from = applied' /\ writing'.from < writing'.to
         /\ ShownUpToCursor'
<1>1. cursor \in Nat /\ dropped \in Nat /\ applied \in {NoCursor} \cup 0..cursor
  BY DEF Inv, TypeOK, TypeOutput, TypeView
<1>2. \/ applied' = applied /\ applied # NoCursor
      \/ applied' = range.start /\ applied = NoCursor
      \/ applied' = range.start /\ applied < range.start /\ gap
  BY DEF Apply
<1>3. applied' \in 0..cursor
  BY <1>1, <1>2
<1>4. applied' # NoCursor
  BY <1>1, <1>3 DEF NoCursor
<1>5. /\ writing' \in [from : 0..cursor, to : 0..cursor]
      /\ writing' # Nothing =>
           applied' # NoCursor /\ writing'.from = applied' /\ writing'.from < writing'.to
  <2>1. CASE applied' \in range.start..(range.cursor - 1)
    <3>1. writing' = [from |-> applied', to |-> range.cursor]
      BY <2>1 DEF Apply
    <3>2. applied' < range.cursor
      <4> DEFINE a == applied'
      <4>1. a \in Nat /\ a \in range.start..(range.cursor - 1) /\ range.cursor \in Nat
            /\ range.start \in Nat
        BY <1>1, <1>3, <2>1
      <4> HIDE DEF a
      <4>2. a < range.cursor
        BY <4>1
      <4> QED BY <4>2 DEF a
    <3> QED BY <1>3, <1>4, <3>1, <3>2
  <2>2. CASE ~(applied' \in range.start..(range.cursor - 1))
    <3>1. writing' = Nothing
      BY <2>2 DEF Apply
    <3> QED BY <1>1, <3>1 DEF Nothing
  <2> QED BY <2>1, <2>2
<1>7. ShownUpToCursor'
  <2>1. CASE shown = <<>>
    BY <2>1 DEF ShownUpToCursor
  <2>2. CASE shown # <<>> /\ applied' = applied
    BY <2>2 DEF Inv, ShownUpToCursor
  <2>3. CASE shown # <<>> /\ applied' # applied
    <3> DEFINE last == shown[Len(shown)]
    <3>1. applied # NoCursor /\ (applied = last + 1 \/ last + 1 < applied)
      BY <2>3 DEF Inv, ShownUpToCursor
    <3>2. applied' = range.start /\ applied < range.start /\ range.start <= dropped
      BY <1>1, <1>2, <2>3, <3>1
    <3>3. last \in Nat
      BY <2>3 DEF Inv, TypeOK, TypeView
    <3>4. last + 1 < range.start
      <4> HIDE DEF last
      <4> QED BY <1>1, <3>1, <3>2, <3>3
    <3> QED BY <1>4, <3>2, <3>4 DEF ShownUpToCursor
  <2> QED BY <2>1, <2>2, <2>3
<1> QED BY <1>3, <1>5, <1>7

\* The types of a step that applies a range, makes no request and leaves the session alone.
LEMMA ApplyTypes ==
  ASSUME Inv, UNCHANGED sessionVars,
         UNCHANGED <<listener, heard, retained, drains, failures>>,
         phase' \in {"idle", "subscribing", "syncing", "live", "disposed"},
         applied' \in {NoCursor} \cup 0..cursor,
         writing' \in [from : 0..cursor, to : 0..cursor],
         pending' \in Seq(Event), shown' \in Seq(Nat), request' \in {request, NoRequest},
         task' \in {"none", "snapshot", "drain", "draining", "pump", "gap"}
  PROVE  TypeOutput' /\ TypeSession' /\ TailFits' /\ TypeView'
<1>1. TypeOutput' /\ TypeSession' /\ TailFits' /\ Event' = Event /\ ReadRange' = ReadRange
  BY SessionFrame
<1>2. TypeView /\ cursor' = cursor
  BY DEF Inv, TypeOK, sessionVars
<1>3. request' \in {NoRequest} \cup [state : {"asked", "failed"}]
                  \cup [state : {"answered"}, range : ReadRange']
  BY <1>1, <1>2 DEF TypeView
<1>4. TypeView'
  BY <1>1, <1>2, <1>3 DEF TypeView
<1> QED BY <1>1, <1>4

LEMMA TakeEventStep == ASSUME Inv, TakeEvent PROVE Inv'
<1>1. TypeView /\ TaskMatches /\ Subscribing
  BY DEF Inv, TypeOK
<1>2. /\ task = "pump" /\ writing = Nothing /\ pending # <<>> /\ pending' = Tail(pending)
      /\ UNCHANGED sessionVars
      /\ UNCHANGED <<listener, phase, heard, retained, task, drains, request, failures, shown>>
  BY DEF TakeEvent
<1>3. Head(pending) \in Event /\ pending' \in Seq(Event)
  BY <1>1, <1>2, HeadTailProperties DEF TypeView
<1>4. /\ applied' \in {NoCursor} \cup 0..cursor
      /\ writing' \in [from : 0..cursor, to : 0..cursor]
      /\ writing' # Nothing =>
           applied' # NoCursor /\ writing'.from = applied' /\ writing'.from < writing'.to
      /\ ShownUpToCursor'
  <2>1. CASE Head(pending).kind = "notice"
    <3>1. UNCHANGED <<applied, writing>>
      BY <2>1 DEF TakeEvent
    <3> QED BY <1>1, <1>2, <3>1 DEF Inv, TypeView, ShownUpToCursor, sessionVars
  <2>2. CASE Head(pending).kind # "notice"
    <3>1. Apply(Head(pending), FALSE)
      BY <2>2 DEF TakeEvent
    <3>2. Head(pending).start \in 0..cursor /\ Head(pending).cursor \in 0..cursor
      BY <1>3, <2>2 DEF Event
    <3>3. UNCHANGED <<cursor, dropped, shown>>
      BY <1>2 DEF sessionVars
    <3> QED BY <3>1, <3>2, <3>3, ApplyFits
  <2> QED BY <2>1, <2>2
<1>5. TypeOutput' /\ TypeSession' /\ TailFits' /\ TypeView'
  BY <1>1, <1>2, <1>3, <1>4, ApplyTypes DEF TypeView
<1>6. AnswerFits'
  BY <1>1, <1>2 DEF AnswerFits, TaskMatches, NoRequest
<1>7. WritesNext'
  BY <1>2, <1>4 DEF WritesNext
<1>8. (TaskMatches /\ NoLostWakeup /\ Subscribing /\ QuietWhenDisposed)'
  BY <1>1, <1>2 DEF Inv, TaskMatches, NoLostWakeup, Subscribing, QuietWhenDisposed
<1> QED BY <1>4, <1>5, <1>6, <1>7, <1>8 DEF Inv, TypeOK

\* What both answers to the controller do with a range that came.
LEMMA AnsweredFits ==
  ASSUME Inv, UNCHANGED sessionVars, shown' = shown, request.state = "answered",
         NEW gap \in BOOLEAN, Apply(request.range, gap)
  PROVE  /\ applied' \in {NoCursor} \cup 0..cursor
         /\ writing' \in [from : 0..cursor, to : 0..cursor]
         /\ writing' # Nothing =>
              applied' # NoCursor /\ writing'.from = applied' /\ writing'.from < writing'.to
         /\ ShownUpToCursor'
<1>1. request.range \in ReadRange
  BY DEF Inv, TypeOK, TypeView, NoRequest
<1>2. request.range.start \in 0..cursor /\ request.range.cursor \in 0..cursor
  BY <1>1 DEF ReadRange
<1>3. request.range.start = applied \/ request.range.start <= dropped
  BY DEF Inv, AnswerFits
<1>4. UNCHANGED <<cursor, dropped, shown>>
  BY DEF sessionVars
<1> QED BY <1>2, <1>3, <1>4, ApplyFits

LEMMA GapAnsweredStep == ASSUME Inv, GapAnswered PROVE Inv'
<1>1. TypeView /\ TaskMatches /\ Subscribing /\ WritesNext
  BY DEF Inv, TypeOK
<1>2. /\ task = "gap" /\ phase # "disposed" /\ request.state \in {"answered", "failed"}
      /\ request' = NoRequest
      /\ UNCHANGED sessionVars
      /\ UNCHANGED <<listener, phase, pending, heard, retained, drains, failures, shown>>
  BY DEF GapAnswered
<1>3. writing = Nothing
  BY <1>1, <1>2 DEF WritesNext
<1>4. /\ applied' \in {NoCursor} \cup 0..cursor
      /\ writing' \in [from : 0..cursor, to : 0..cursor]
      /\ writing' # Nothing =>
           applied' # NoCursor /\ writing'.from = applied' /\ writing'.from < writing'.to
      /\ ShownUpToCursor'
      /\ task' \in {"none", "pump"} /\ (task' = "none" => ~heard /\ writing' = Nothing)
  <2>1. CASE request.state = "failed"
    <3>1. UNCHANGED <<applied, writing>> /\ Blocked
      BY <2>1 DEF GapAnswered
    <3> QED BY <1>1, <1>2, <1>3, <3>1 DEF Inv, TypeView, ShownUpToCursor, sessionVars, Blocked
  <2>2. CASE request.state = "answered"
    <3>1. /\ Apply(request.range, request.range.truncated)
          /\ IF applied' = applied /\ writing' = Nothing THEN Blocked ELSE task' = "pump"
      BY <2>2 DEF GapAnswered
    <3>2. request.range.truncated \in BOOLEAN
      BY <1>1, <2>2 DEF TypeView, ReadRange, NoRequest
    <3>3. task' \in {"none", "pump"} /\ (task' = "none" => ~heard /\ writing' = Nothing)
      BY <3>1 DEF Blocked
    <3> QED BY <1>2, <2>2, <3>1, <3>2, <3>3, AnsweredFits
  <2> QED BY <1>2, <2>1, <2>2
<1>5. TypeOutput' /\ TypeSession' /\ TailFits' /\ TypeView'
  BY <1>1, <1>2, <1>4, ApplyTypes DEF TypeView
<1>6. AnswerFits'
  BY <1>2 DEF AnswerFits, NoRequest
<1>7. WritesNext'
  BY <1>4 DEF WritesNext
<1>8. (TaskMatches /\ NoLostWakeup /\ Subscribing /\ QuietWhenDisposed)'
  BY <1>1, <1>2, <1>4 DEF Inv, TaskMatches, NoLostWakeup, Subscribing, QuietWhenDisposed
<1> QED BY <1>4, <1>5, <1>6, <1>7, <1>8 DEF Inv, TypeOK

LEMMA RestoreAnsweredStep == ASSUME Inv, RestoreAnswered PROVE Inv'
<1>1. TypeView /\ TaskMatches /\ Subscribing /\ WritesNext
  BY DEF Inv, TypeOK
<1>2. /\ task \in {"snapshot", "draining"} /\ phase # "disposed"
      /\ request.state \in {"answered", "failed"} /\ request' = NoRequest
      /\ UNCHANGED sessionVars
      /\ UNCHANGED <<listener, pending, heard, retained, drains, failures, shown>>
  BY DEF RestoreAnswered
<1>3. writing = Nothing /\ phase \notin {"idle", "subscribing"}
  BY <1>1, <1>2 DEF WritesNext, Subscribing
<1>4. /\ applied' \in {NoCursor} \cup 0..cursor
      /\ writing' \in [from : 0..cursor, to : 0..cursor]
      /\ writing' # Nothing =>
           /\ applied' # NoCursor /\ writing'.from = applied' /\ writing'.from < writing'.to
           /\ task' = "drain"
      /\ ShownUpToCursor'
      /\ phase' \in {phase, "live"} /\ task' \in {"none", "drain", "pump"}
      /\ task' = "none" => pending = <<>>
      /\ task' = "pump" => phase' = "live"
  <2>1. CASE request.state = "failed"
    <3>1. UNCHANGED <<applied, writing>> /\ GoLive
      BY <2>1 DEF RestoreAnswered
    <3>2. phase' = "live" /\ task' = IF pending = <<>> THEN "none" ELSE "pump"
      BY <3>1 DEF GoLive
    <3> QED BY <1>1, <1>2, <1>3, <3>1, <3>2 DEF Inv, TypeView, ShownUpToCursor, sessionVars
  <2>2. CASE request.state = "answered"
    <3> DEFINE gap == task = "snapshot" \/ request.range.truncated
    <3>1. Apply(request.range, gap) /\ task' = "drain" /\ phase' = phase
      BY <2>2 DEF RestoreAnswered
    <3>2. gap \in BOOLEAN
      OBVIOUS
    <3> HIDE DEF gap
    <3> QED BY <1>2, <2>2, <3>1, <3>2, AnsweredFits
  <2> QED BY <1>2, <2>1, <2>2
<1>5. TypeOutput' /\ TypeSession' /\ TailFits' /\ TypeView'
  BY <1>1, <1>2, <1>4, ApplyTypes DEF TypeView
<1>6. AnswerFits'
  BY <1>2 DEF AnswerFits, NoRequest
<1>7. WritesNext'
  BY <1>4 DEF WritesNext
<1>8. Subscribing'
  BY <1>1, <1>2, <1>3, <1>4 DEF Subscribing
<1>9. (TaskMatches /\ NoLostWakeup /\ QuietWhenDisposed)'
  BY <1>1, <1>2, <1>4 DEF Inv, TaskMatches, NoLostWakeup, QuietWhenDisposed
<1> QED BY <1>4, <1>5, <1>6, <1>7, <1>8, <1>9 DEF Inv, TypeOK

LEMMA WriteStep == ASSUME Inv, Write PROVE Inv'
<1>1. TypeView /\ TaskMatches /\ Subscribing /\ WritesNext
  BY DEF Inv, TypeOK
<1>2. /\ writing # Nothing
      /\ UNCHANGED sessionVars
      /\ UNCHANGED <<listener, phase, pending, heard, retained, task, drains, request, failures>>
  BY DEF Write
<1>3. PICK to \in (writing.from + 1)..writing.to :
        /\ shown' = shown \o Stream!Run(writing.from, to)
        /\ applied' = applied + (to - writing.from)
        /\ writing' = IF to = writing.to THEN Nothing ELSE [writing EXCEPT !.from = to]
  BY DEF Write
<1>4. /\ applied = writing.from /\ applied # NoCursor /\ writing.from < writing.to
      /\ task \in {"drain", "pump"} /\ writing \in [from : 0..cursor, to : 0..cursor]
      /\ cursor \in Nat /\ shown \in Seq(Nat)
  BY <1>1, <1>2 DEF WritesNext, Inv, TypeOK, TypeOutput, TypeView
<1>5. writing.from \in Nat /\ to \in Nat /\ to \in 0..cursor /\ writing.from < to
      /\ to <= writing.to
  BY <1>4
<1>6. applied' = to /\ to # NoCursor
  BY <1>3, <1>4, <1>5 DEF NoCursor
<1>7. /\ shown' \in Seq(Nat) /\ shown' # <<>> /\ shown'[Len(shown')] = to - 1
  BY <1>3, <1>4, <1>5, ShownRun
<1>8. /\ writing' \in [from : 0..cursor, to : 0..cursor]
      /\ writing' # Nothing => writing'.from = to /\ writing'.from < writing'.to
  <2>1. CASE to = writing.to
    BY <1>3, <1>4, <2>1 DEF Nothing
  <2>2. CASE to # writing.to
    <3>1. writing' = [from |-> to, to |-> writing.to] /\ to < writing.to
      BY <1>3, <1>4, <1>5, <2>2
    <3> QED BY <1>4, <1>5, <3>1
  <2> QED BY <2>1, <2>2
<1>9. TypeOutput' /\ TypeSession' /\ TailFits' /\ TypeView'
  BY <1>1, <1>2, <1>5, <1>6, <1>7, <1>8, ApplyTypes DEF TypeView
<1>10. ShownUpToCursor'
  BY <1>5, <1>6, <1>7 DEF ShownUpToCursor
<1>11. AnswerFits'
  BY <1>1, <1>2, <1>4 DEF AnswerFits, TaskMatches, NoRequest
<1>12. WritesNext'
  BY <1>2, <1>4, <1>6, <1>8 DEF WritesNext
<1>13. (TaskMatches /\ NoLostWakeup /\ Subscribing /\ QuietWhenDisposed)'
  BY <1>1, <1>2, <1>4 DEF Inv, TaskMatches, NoLostWakeup, Subscribing, QuietWhenDisposed
<1> QED BY <1>9, <1>10, <1>11, <1>12, <1>13 DEF Inv, TypeOK

LEMMA DisposeStep == ASSUME Inv, Dispose PROVE Inv'
<1>1. TypeView /\ TaskMatches /\ Subscribing
  BY DEF Inv, TypeOK
<1>2. /\ phase' = "disposed" /\ pending' = <<>> /\ writing' = Nothing
      /\ task' = (IF request = NoRequest THEN "none" ELSE task)
      /\ UNCHANGED sessionVars
      /\ UNCHANGED <<applied, heard, retained, drains, request, failures, shown>>
  BY DEF Dispose
<1>3. listener' \in [Channel -> {"none", "asked", "active", "held", "failed", "released"}]
  BY <1>1 DEF Dispose, TypeView
<1>4. pending' \in Seq(Event)
  BY <1>2
<1>5. TypeOutput' /\ TypeSession' /\ TailFits' /\ TypeView' /\ AnswerFits' /\ ShownUpToCursor'
  BY <1>1, <1>2, <1>3, <1>4, RequestFrame DEF TypeView
<1>6. (TaskMatches /\ NoLostWakeup /\ Subscribing /\ WritesNext /\ QuietWhenDisposed)'
  BY <1>1, <1>2 DEF TaskMatches, NoLostWakeup, Subscribing, WritesNext, QuietWhenDisposed
<1> QED BY <1>5, <1>6 DEF Inv, TypeOK

LEMMA AnsweredLateStep == ASSUME Inv, AnsweredLate PROVE Inv'
<1>1. TypeView /\ TaskMatches /\ Subscribing
  BY DEF Inv, TypeOK
<1>2. /\ phase = "disposed" /\ request' = NoRequest /\ task' = "none"
      /\ UNCHANGED sessionVars
      /\ UNCHANGED <<listener, phase, applied, pending, heard, retained, drains, writing,
                     failures, shown>>
  BY DEF AnsweredLate
<1>3. TypeOutput' /\ TypeSession' /\ TailFits' /\ TypeView' /\ AnswerFits' /\ ShownUpToCursor'
  BY <1>1, <1>2, RequestFrame DEF TypeView
<1>4. (TaskMatches /\ NoLostWakeup /\ Subscribing /\ WritesNext /\ QuietWhenDisposed)'
  BY <1>1, <1>2 DEF Inv, TaskMatches, NoLostWakeup, Subscribing, WritesNext, QuietWhenDisposed
<1> QED BY <1>3, <1>4 DEF Inv, TypeOK

(***************************************************************************)
(* The theorems.                                                           *)
(***************************************************************************)

LEMMA InitInv == Init => Inv
<1> SUFFICES ASSUME Init PROVE Inv
  OBVIOUS
<1>1. /\ cursor = 0 /\ dropped = 0 /\ limit \in Limits
      /\ emission = NoEvent /\ emitted = 0 /\ wire = <<>>
      /\ listener = [c \in Channel |-> "none"]
      /\ phase = "idle" /\ applied = NoCursor /\ pending = <<>>
      /\ heard = FALSE /\ retained = FALSE
      /\ task = "none" /\ drains = 0 /\ writing = Nothing
      /\ request = NoRequest /\ failures = 0 /\ shown = <<>>
  BY DEF Init, InitOutput
<1>2. MaxEvents \in Nat /\ DrainLimit \in Nat /\ MaxFailures \in Nat /\ RestoreMaxChars \in Nat
  BY SyncAssumption, OutputAssumption
<1>3. TypeOutput /\ TailFits
  BY <1>1, <1>2 DEF TypeOutput, TailFits
<1>4. TypeSession
  BY <1>1, <1>2 DEF TypeSession
<1>5. TypeView
  <2>1. pending \in Seq(Event) /\ shown \in Seq(Nat)
    BY <1>1
  <2>2. writing \in [from : 0..cursor, to : 0..cursor]
    BY <1>1 DEF Nothing
  <2>3. drains \in 0..DrainLimit /\ failures \in 0..MaxFailures
    BY <1>1, <1>2
  <2> QED BY <1>1, <2>1, <2>2, <2>3 DEF TypeView
<1>6. TaskMatches /\ NoLostWakeup /\ Subscribing /\ WritesNext /\ ShownUpToCursor
      /\ QuietWhenDisposed
  BY <1>1 DEF TaskMatches, NoLostWakeup, Subscribing, WritesNext, ShownUpToCursor,
              QuietWhenDisposed
<1>7. AnswerFits
  BY <1>1 DEF AnswerFits, NoRequest
<1> QED BY <1>3, <1>4, <1>5, <1>6, <1>7 DEF Inv, TypeOK

LEMMA StutterStep == ASSUME Inv, UNCHANGED vars PROVE Inv'
<1>1. UNCHANGED viewVars /\ UNCHANGED sessionVars
  BY DEF vars, viewVars, sessionVars
<1>2. TypeOutput' /\ TypeSession' /\ TailFits' /\ cursor \in Nat /\ dropped \in Nat
  BY <1>1, SessionFrame
<1>3. cursor <= cursor' /\ dropped <= dropped'
  BY <1>1, <1>2 DEF sessionVars
<1> QED BY <1>1, <1>2, <1>3, ViewFrame DEF Inv, TypeOK

LEMMA InvStep == Inv /\ [Next]_vars => Inv'
<1> SUFFICES ASSUME Inv, [Next]_vars PROVE Inv'
  OBVIOUS
<1>1. CASE Session
  BY <1>1, ProduceStep, EmitStep, EmitNoticeStep, SetLimitStep, AnswerStep, RefuseStep DEF Session
<1>2. CASE Controller
  <2>1. CASE \E c \in Channel : Subscribed(c)
    BY <2>1, SubscribedStep
  <2>2. CASE Start \/ Receive \/ Write \/ AnsweredLate
    BY <2>2, StartStep, ReceiveStep, WriteStep, AnsweredLateStep
  <2>3. CASE TakeEvent \/ StopPump \/ AskGap \/ GapAnswered
    BY <2>3, TakeEventStep, StopPumpStep, AskGapStep, GapAnsweredStep
  <2>4. CASE RestoreAnswered \/ AskDrain \/ StopDraining
    BY <2>4, RestoreAnsweredStep, AskDrainStep, StopDrainingStep
  <2> QED BY <1>2, <2>1, <2>2, <2>3, <2>4 DEF Controller
<1>3. CASE Dispose
  BY <1>3, DisposeStep
<1>4. CASE \E c \in Channel : Register(c) \/ SubscriptionFails(c)
  BY <1>4, RegisterStep, SubscriptionFailsStep
<1>5. CASE UNCHANGED vars
  BY <1>5, StutterStep
<1> QED BY <1>1, <1>2, <1>3, <1>4, <1>5 DEF Next

LEMMA InvHolds == Spec => []Inv
<1> QED BY InitInv, InvStep, PTL DEF Spec

\* The controller waits for exactly the answer that is under way, and no cursor, event
\* or range it holds lies beyond the output of the session.
THEOREM TypeCorrect == Spec => []TypeOK
<1>1. Inv => TypeOK
  BY DEF Inv
<1> QED BY <1>1, InvHolds, PTL

\* However an event and the end of a failed recovery interleave, the event starts the
\* pump again: schedulePump and the receivedVersion of terminalOutputSyncController.ts.
THEOREM NoLostWakeupHolds == Spec => []NoLostWakeup
<1>1. Inv => NoLostWakeup
  BY DEF Inv
<1> QED BY <1>1, InvHolds, PTL

\* A step that shows something writes: the others leave the screen alone.
LEMMA OnlyWriteShows ==
  ASSUME Next
  PROVE  Write \/ shown' = shown
<1>1. CASE Session
  BY <1>1 DEF Session, Produce, Emit, EmitNotice, SetLimit, Answer, Refuse, viewVars
<1>2. CASE Controller
  <2>1. CASE \E c \in Channel : Subscribed(c)
    BY <2>1 DEF Subscribed
  <2>2. CASE Start \/ Receive \/ AnsweredLate
    BY <2>2 DEF Start, Receive, AnsweredLate
  <2>3. CASE TakeEvent \/ StopPump \/ AskGap \/ GapAnswered
    BY <2>3 DEF TakeEvent, StopPump, AskGap, GapAnswered
  <2>4. CASE RestoreAnswered \/ AskDrain \/ StopDraining
    BY <2>4 DEF RestoreAnswered, AskDrain, StopDraining
  <2> QED BY <1>2, <2>1, <2>2, <2>3, <2>4 DEF Controller
<1>3. CASE Dispose
  BY <1>3 DEF Dispose
<1>4. CASE \E c \in Channel : Register(c) \/ SubscriptionFails(c)
  BY <1>4 DEF Register, SubscriptionFails
<1> QED BY <1>1, <1>2, <1>3, <1>4 DEF Next

\* A closed view writes nothing: dispose clears what is left to write, and the answers
\* and events that come later are dropped.
THEOREM SilentAfterDisposeHolds == Spec => SilentAfterDispose
<1>1. Inv /\ [Next]_vars => [phase = "disposed" => shown' = shown]_vars
  <2> SUFFICES ASSUME Inv, Next, phase = "disposed" PROVE shown' = shown
    OBVIOUS
  <2>1. ~Write
    BY DEF Inv, QuietWhenDisposed, Write
  <2> QED BY <2>1, OnlyWriteShows
<1> QED BY <1>1, InvHolds, PTL DEF Spec, SilentAfterDispose

\* A step of the session is a step of the stream, or none.
LEMMA OnlyProduceProduces ==
  ASSUME Next
  PROVE  (\E n \in Chunk : Produce(n)) \/ UNCHANGED <<cursor, dropped>>
<1>1. CASE Session
  BY <1>1 DEF Session, Emit, EmitNotice, SetLimit, SetOutputLimit, Answer, Refuse, outputVars,
              sessionVars
<1>2. CASE Controller
  <2>1. CASE \E c \in Channel : Subscribed(c)
    BY <2>1 DEF Subscribed, sessionVars
  <2>2. CASE Start \/ Receive \/ Write \/ AnsweredLate
    BY <2>2 DEF Start, Receive, Write, AnsweredLate, sessionVars, outputVars
  <2>3. CASE TakeEvent \/ StopPump \/ AskGap \/ GapAnswered
    BY <2>3 DEF TakeEvent, StopPump, AskGap, GapAnswered, sessionVars
  <2>4. CASE RestoreAnswered \/ AskDrain \/ StopDraining
    BY <2>4 DEF RestoreAnswered, AskDrain, StopDraining, sessionVars
  <2> QED BY <1>2, <2>1, <2>2, <2>3, <2>4 DEF Controller
<1>3. CASE Dispose
  BY <1>3 DEF Dispose, sessionVars
<1>4. CASE \E c \in Channel : Register(c) \/ SubscriptionFails(c)
  BY <1>4 DEF Register, SubscriptionFails, sessionVars
<1> QED BY <1>1, <1>2, <1>3, <1>4 DEF Next

LEMMA ProduceIsProduce == ASSUME Inv, NEW n \in Chunk, Produce(n) PROVE Stream!Produce
<1>1. n \in Nat /\ cursor \in Nat /\ dropped \in 0..cursor /\ limit \in Nat
  BY OutputAssumption DEF Inv, TypeOK, TypeOutput
<1>2. cursor' = cursor + n /\ dropped' = Greatest(dropped, cursor + n - limit)
  BY DEF Produce, AppendOutput
<1>3. cursor' \in Nat /\ cursor' >= cursor
  BY <1>1, <1>2
<1>4. dropped' >= dropped
  BY <1>1, <1>2 DEF Greatest
<1>5. dropped' \in 0..cursor'
  BY ProduceStep DEF Inv, TypeOK, TypeOutput
<1>6. dropped' \in dropped..cursor'
  BY <1>1, <1>3, <1>4, <1>5
<1>7. shown' = shown
  BY DEF Produce, viewVars
<1> QED BY <1>3, <1>6, <1>7 DEF Stream!Produce

LEMMA WriteIsShow == ASSUME Inv, Write PROVE Stream!Show
<1>1. PICK to \in (writing.from + 1)..writing.to : shown' = shown \o Stream!Run(writing.from, to)
  BY DEF Write
<1>2. /\ writing \in [from : 0..cursor, to : 0..cursor] /\ cursor \in Nat /\ dropped \in Nat
      /\ writing.from = applied /\ UNCHANGED <<cursor, dropped>>
  BY DEF Inv, TypeOK, TypeView, TypeOutput, WritesNext, Write, sessionVars
<1>3. writing.from \in 0..cursor /\ to \in (writing.from + 1)..cursor
  BY <1>2
<1>4. Stream!MayFollow(writing.from)
  BY <1>2 DEF Inv, ShownUpToCursor, Stream!MayFollow
<1> QED BY <1>1, <1>2, <1>3, <1>4 DEF Stream!Show

\* Whatever is lost, delayed or restored, the view writes every character at most once
\* and in order and skips only what is not retained: the controller implements
\* OutputStream.
THEOREM RefinesStreamHolds == Spec => RefinesStream
<1>1. Init => Stream!Init
  BY DEF Init, InitOutput, Stream!Init
<1>2. Inv /\ [Next]_vars => [Stream!Next]_(Stream!vars)
  <2> SUFFICES ASSUME Inv, [Next]_vars PROVE [Stream!Next]_(Stream!vars)
    OBVIOUS
  <2>1. CASE \E n \in Chunk : Produce(n)
    BY <2>1, ProduceIsProduce DEF Stream!Next
  <2>2. CASE Write
    BY <2>2, WriteIsShow DEF Stream!Next
  <2>3. CASE Next /\ ~(\E n \in Chunk : Produce(n)) /\ ~Write
    BY <2>3, OnlyWriteShows, OnlyProduceProduces DEF Stream!vars
  <2>4. CASE UNCHANGED vars
    BY <2>4 DEF vars, Stream!vars
  <2> QED BY <2>1, <2>2, <2>3, <2>4
<1> QED BY <1>1, <1>2, InvHolds, PTL DEF Spec, RefinesStream, Stream!Spec
=============================================================================
