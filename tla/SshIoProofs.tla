------------------------------ MODULE SshIoProofs ------------------------------
(***************************************************************************)
(* Proofs about SSH host keys and the output of a session, for any number  *)
(* of handshakes, keys, chunks, writers and disconnects.                   *)
(*                                                                         *)
(* ConsentInv follows a key from the user's answer through every step of   *)
(* the handshake to the lines that are about to be written; SavedInv says  *)
(* whose lines those are as long as writes do not overlap.  OutputInv      *)
(* says that the retained output and the queue, one after the other, are   *)
(* the chunks received and not dropped, in their order; it needs that the  *)
(* processor begins only with a terminal to append to.                     *)
(***************************************************************************)
EXTENDS SshIo, SequenceTheorems, FiniteSetTheorems, TLAPS

Phase == {"inspect", "ask", "wait", "answered", "expired", "dropped", "recheck", "read",
          "remove", "rename", "verified", "refused"}

ConsentInv ==
  /\ phase \in [Conn -> Phase]
  /\ reply \in [Conn -> {"none", "yes", "no"}]
  /\ known \subseteq consent
  /\ lines \in [Conn -> SUBSET consent]
  /\ \A c \in Conn : reply[c] = "yes" => Line(c) \in consent
  /\ \A c \in Conn :
       phase[c] \in {"recheck", "read", "remove", "rename", "verified"} => Line(c) \in consent

LEMMA ConsentBegins == Init => ConsentInv
  BY DEF Init, HostKeyInit, ConsentInv, Phase

LEMMA PromptKeeps ==
  ASSUME ConsentInv, NEW c \in Conn,
         \/ Ask(c) \/ Cancel(c) \/ Abandon(c) \/ Answered(c) \/ Expire(c) \/ Finish(c)
         \/ \E accept \in BOOLEAN : Submit(c, accept)
  PROVE  ConsentInv'
<1> USE DEF ConsentInv, Phase, Goto, Line, prompting
<1>1. CASE Ask(c)
  BY <1>1 DEF Ask
<1>2. CASE Cancel(c)
  BY <1>2 DEF Cancel, Send
<1>3. CASE Abandon(c) \/ Answered(c) \/ Expire(c)
  BY <1>3 DEF Abandon, Answered, Expire
<1>4. CASE Finish(c)
  BY <1>4 DEF Finish
<1>5. ASSUME NEW accept \in BOOLEAN, Submit(c, accept) PROVE ConsentInv'
  <2>1. consent \subseteq consent' /\ UNCHANGED <<known, phase, shown, lines>>
    BY <1>5 DEF Submit
  <2>2. \A d \in Conn : reply'[d] = "yes" =>
          reply[d] = "yes" \/ (d = c /\ accept /\ phase[c] = "wait")
    BY <1>5 DEF Submit, Send
  <2>3. accept /\ phase[c] = "wait" => Line(c) \in consent'
    BY <1>5 DEF Submit
  <2>4. reply' \in [Conn -> {"none", "yes", "no"}]
    BY <1>5 DEF Submit, Send
  <2> QED BY <2>1, <2>2, <2>3, <2>4
<1> QED BY <1>1, <1>2, <1>3, <1>4, <1>5

LEMMA FileKeeps ==
  ASSUME ConsentInv, NEW c \in Conn,
         \/ Inspect(c) \/ Recheck(c) \/ ReadLines(c) \/ RemoveOld(c) \/ Rename(c)
         \/ HostKeyWriteFails(c)
  PROVE  ConsentInv'
<1> USE DEF ConsentInv, Phase, Goto, Line, prompting
<1>1. CASE Inspect(c)
  BY <1>1 DEF Inspect, Inspected
<1>2. CASE Recheck(c)
  BY <1>2 DEF Recheck, Inspected
<1>3. CASE ReadLines(c)
  <2>1. NewLines(c) \subseteq consent
    BY <1>3 DEF ReadLines, NewLines
  <2> QED BY <1>3, <2>1 DEF ReadLines
<1>4. CASE RemoveOld(c)
  BY <1>4 DEF RemoveOld
<1>5. CASE Rename(c)
  BY <1>5 DEF Rename
<1>6. CASE HostKeyWriteFails(c)
  BY <1>6 DEF HostKeyWriteFails, Writing
<1> QED BY <1>1, <1>2, <1>3, <1>4, <1>5, <1>6

LEMMA ConsentStepKeeps ==
  ASSUME ConsentInv, [Next]_vars
  PROVE  ConsentInv'
<1>1. CASE HostKeyNext
  <2>1. PICK c \in Conn : \/ Verify(c) \/ Cancel(c) \/ Abandon(c) \/ HostKeyWriteFails(c)
                          \/ \E accept \in BOOLEAN : Submit(c, accept)
    BY <1>1 DEF HostKeyNext
  <2> QED BY <2>1, PromptKeeps, FileKeeps DEF Verify
<1>2. CASE UNCHANGED hostKeyVars
  BY <1>2 DEF hostKeyVars, prompting, ConsentInv, Line
<1> QED BY <1>1, <1>2 DEF Next, vars

\* A key is saved, and a connection goes on with it, only if the user has accepted it
\* (ssh/host_key_prompt.rs, confirm).
THEOREM TrustNeedsConsentHolds == Spec => []TrustNeedsConsent
<1>1. ConsentInv => TrustNeedsConsent
  BY DEF ConsentInv, TrustNeedsConsent
<1> QED BY <1>1, ConsentBegins, ConsentStepKeeps, PTL DEF Spec

-----------------------------------------------------------------------------

\* While no two writes have overlapped there is at most one, its lines are those the
\* file still has, and it replaces only what the user was shown as a mismatch.
SavedInv ==
  /\ phase \in [Conn -> Phase]
  /\ status \in [Conn -> {"unknown", "mismatch", "trusted"}]
  /\ lines \in [Conn -> SUBSET consent]
  /\ overlapped \in BOOLEAN
  /\ ~overlapped => \A c, d \in Conn : Writing(c) /\ Writing(d) => c = d
  /\ ~overlapped => \A c \in Conn : phase[c] = "remove" => lines[c] = NewLines(c)
  /\ \A c \in Conn :
       phase[c] \notin {"inspect", "refused", "verified"} /\ status[c] = "mismatch" =>
         "mismatch" \in Prompts[c]

Renaming == {c \in Conn : phase[c] = "rename"}

LEMMA SavedIs ==
  ASSUME SavedInv, ~overlapped
  PROVE  /\ \A c \in Conn : phase[c] = "rename" => Renaming = {c} /\ Saved = lines[c]
         /\ Renaming = {} => Saved = known
<1>1. ASSUME NEW c \in Conn, phase[c] = "rename" PROVE Renaming = {c} /\ Saved = lines[c]
  <2>1. \A d \in Conn : phase[d] = "rename" => d = c
    BY <1>1 DEF SavedInv, Writing
  <2>2. (CHOOSE d \in Conn : phase[d] = "rename") = c
    BY <1>1, <2>1
  <2> QED BY <1>1, <2>1, <2>2 DEF Renaming, Saved
<1>2. Renaming = {} => Saved = known
  BY DEF Renaming, Saved
<1> QED BY <1>1, <1>2

LEMMA SavedBegins == Init => SavedInv
  BY DEF Init, HostKeyInit, SavedInv, Phase, Writing

\* A step that neither begins nor ends a write, nor changes what one will leave.
LEMMA NoWrite ==
  ASSUME SavedInv, SavedInv', UNCHANGED <<known, lines, overlapped, shown>>,
         \A c \in Conn : phase[c] = "rename" <=> phase'[c] = "rename"
  PROVE  ~overlapped' => Saved' = Saved
<1>1. Renaming' = Renaming
  BY DEF Renaming
<1>2. ASSUME ~overlapped' PROVE Saved' = Saved
  <2>1. CASE Renaming = {}
    <3>1. Saved = known
      BY <1>2, <2>1, SavedIs
    <3>2. \A c \in Conn : phase'[c] # "rename"
      BY <2>1 DEF Renaming
    <3> QED BY <3>1, <3>2 DEF Saved
  <2>2. CASE Renaming # {}
    <3>1. PICK c \in Conn : phase[c] = "rename"
      BY <2>2 DEF Renaming
    <3>2. Saved = lines[c]
      BY <1>2, <3>1, SavedIs
    <3>3. \A d \in Conn : phase'[d] = "rename" => d = c
      BY <1>2, <3>1 DEF SavedInv, Writing
    <3>4. (CHOOSE d \in Conn : phase'[d] = "rename") = c
      BY <3>1, <3>3
    <3> QED BY <3>1, <3>2, <3>4 DEF Saved
  <2> QED BY <2>1, <2>2
<1> QED BY <1>2

LEMMA PromptSaves ==
  ASSUME SavedInv, ConsentInv, ConsentInv', NEW c \in Conn,
         \/ Inspect(c) \/ Ask(c) \/ Cancel(c) \/ Abandon(c) \/ Answered(c) \/ Expire(c)
         \/ Finish(c) \/ Recheck(c) \/ \E accept \in BOOLEAN : Submit(c, accept)
  PROVE  SavedInv' /\ (~overlapped' => Saved' = Saved)
<1>1. /\ UNCHANGED <<known, lines, overlapped, shown>>
      /\ phase' \in [Conn -> Phase] /\ lines' \in [Conn -> SUBSET consent']
      /\ \A d \in Conn : Writing(d) <=> Writing(d)'
      /\ \A d \in Conn : phase[d] = "rename" <=> phase'[d] = "rename"
  BY DEF Inspect, Ask, Cancel, Abandon, Answered, Expire, Finish, Recheck, Submit, Send, Goto,
     Inspected, Writing, prompting, ConsentInv, SavedInv
<1>2. /\ status' \in [Conn -> {"unknown", "mismatch", "trusted"}]
      /\ \A d \in Conn : Writing(d) => status'[d] = status[d] /\ phase'[d] = phase[d]
  BY DEF Inspect, Ask, Cancel, Abandon, Answered, Expire, Finish, Recheck, Submit, Send, Goto,
     Inspected, Writing, prompting, SavedInv
<1>3. \A d \in Conn :
        phase'[d] \notin {"inspect", "refused", "verified"} /\ status'[d] = "mismatch" =>
          "mismatch" \in Prompts[d]
  BY DEF Inspect, Ask, Cancel, Abandon, Answered, Expire, Finish, Recheck, Submit, Send, Goto,
     Inspected, prompting, SavedInv
<1>4. \A d \in Conn : phase'[d] = "remove" => NewLines(d)' = NewLines(d) /\ phase[d] = "remove"
  BY <1>1, <1>2 DEF NewLines, Line, Writing
<1>5. SavedInv'
  BY <1>1, <1>2, <1>3, <1>4 DEF SavedInv
<1> QED BY <1>1, <1>5, NoWrite

\* A handshake reads the lines: it writes alone unless the writes overlap from then on.
LEMMA ReadSaves ==
  ASSUME SavedInv, ConsentInv, ConsentInv', NEW c \in Conn, ReadLines(c)
  PROVE  SavedInv' /\ (~overlapped' => Saved' = Saved)
<1>1. /\ phase[c] = "read" /\ phase' = [phase EXCEPT ![c] = "remove"]
      /\ lines' = [lines EXCEPT ![c] = NewLines(c)]
      /\ overlapped' = (overlapped \/ \E d \in Conn \ {c} : Writing(d))
      /\ UNCHANGED <<known, shown, status, prompting, consent, writeFailures>>
  BY DEF ReadLines, Goto
<1>2. /\ phase'[c] = "remove" /\ lines'[c] = NewLines(c)
      /\ \A d \in Conn \ {c} : phase'[d] = phase[d] /\ lines'[d] = lines[d]
  BY <1>1 DEF SavedInv
<1>3. \A d \in Conn : NewLines(d)' = NewLines(d)
  BY <1>1 DEF NewLines, Line
<1>4. ~overlapped' => ~overlapped /\ \A d \in Conn : ~Writing(d)
  BY <1>1 DEF Writing
<1>5. SavedInv'
  <2>1. /\ phase' \in [Conn -> Phase] /\ lines' \in [Conn -> SUBSET consent']
        /\ overlapped' \in BOOLEAN
    BY <1>1 DEF ConsentInv, SavedInv
  <2>2. ~overlapped' => \A d, e \in Conn : Writing(d)' /\ Writing(e)' => d = e
    BY <1>2, <1>4 DEF Writing
  <2>3. ~overlapped' => \A d \in Conn : phase'[d] = "remove" => lines'[d] = NewLines(d)'
    BY <1>2, <1>3, <1>4 DEF SavedInv
  <2>4. \A d \in Conn :
          phase'[d] \notin {"inspect", "refused", "verified"} /\ status'[d] = "mismatch" =>
            "mismatch" \in Prompts[d]
    BY <1>1, <1>2 DEF SavedInv
  <2> QED BY <1>1, <2>1, <2>2, <2>3, <2>4 DEF SavedInv
<1>6. ASSUME ~overlapped' PROVE Saved' = Saved
  <2>1. \A d \in Conn : phase[d] # "rename" /\ phase'[d] # "rename"
    BY <1>1, <1>2, <1>4, <1>6 DEF Writing
  <2> QED BY <1>1, <2>1 DEF Saved
<1> QED BY <1>5, <1>6

\* The step that makes the new lines the saved ones.
LEMMA RemoveSaves ==
  ASSUME SavedInv, ConsentInv', NEW c \in Conn, RemoveOld(c)
  PROVE  /\ SavedInv'
         /\ ~overlapped' => Saved = known /\ Saved' = NewLines(c)
<1>1. /\ phase[c] = "remove" /\ phase' = [phase EXCEPT ![c] = "rename"]
      /\ UNCHANGED <<shown, status, prompting, lines, consent, overlapped, writeFailures>>
  BY DEF RemoveOld, Goto
<1>2. phase'[c] = "rename" /\ \A d \in Conn \ {c} : phase'[d] = phase[d]
  BY <1>1 DEF SavedInv
<1>3. ~overlapped => \A d \in Conn \ {c} : ~Writing(d)
  BY <1>1 DEF SavedInv, Writing
<1>4. SavedInv'
  <2>1. ~overlapped => \A d, e \in Conn : Writing(d)' /\ Writing(e)' => d = e
    BY <1>2, <1>3 DEF Writing
  <2>2. ~overlapped => \A d \in Conn : phase'[d] # "remove"
    BY <1>2, <1>3 DEF Writing
  <2>3. \A d \in Conn :
          phase'[d] \notin {"inspect", "refused", "verified"} /\ status'[d] = "mismatch" =>
            "mismatch" \in Prompts[d]
    BY <1>1, <1>2 DEF SavedInv
  <2> QED BY <1>1, <2>1, <2>2, <2>3 DEF SavedInv, ConsentInv
<1>5. ASSUME ~overlapped' PROVE Saved = known /\ Saved' = NewLines(c)
  <2>1. Renaming = {}
    BY <1>1, <1>3, <1>5 DEF Renaming, Writing
  <2>2. Saved = known /\ lines[c] = NewLines(c)
    BY <1>1, <1>5, <2>1, SavedIs DEF SavedInv
  <2>3. \A d \in Conn : phase'[d] = "rename" <=> d = c
    BY <1>1, <1>2, <1>3, <1>5 DEF Writing
  <2>4. (CHOOSE d \in Conn : phase'[d] = "rename") = c
    BY <2>3
  <2> QED BY <1>1, <1>2, <2>2, <2>4 DEF Saved
<1> QED BY <1>4, <1>5

LEMMA RenameSaves ==
  ASSUME SavedInv, ConsentInv', NEW c \in Conn, Rename(c)
  PROVE  SavedInv' /\ (~overlapped' => Saved' = Saved)
<1>1. /\ phase[c] = "rename" /\ phase' = [phase EXCEPT ![c] = "verified"]
      /\ known' = lines[c]
      /\ UNCHANGED <<shown, status, prompting, lines, consent, overlapped, writeFailures>>
  BY DEF Rename, Goto
<1>2. phase'[c] = "verified" /\ \A d \in Conn \ {c} : phase'[d] = phase[d]
  BY <1>1 DEF SavedInv
<1>3. ~overlapped => \A d \in Conn : ~Writing(d)'
  BY <1>1, <1>2 DEF SavedInv, Writing
<1>4. SavedInv'
  <2>1. \A d \in Conn :
          phase'[d] \notin {"inspect", "refused", "verified"} /\ status'[d] = "mismatch" =>
            "mismatch" \in Prompts[d]
    BY <1>1, <1>2 DEF SavedInv
  <2> QED BY <1>1, <1>3, <2>1 DEF SavedInv, ConsentInv, Writing
<1>5. ASSUME ~overlapped' PROVE Saved' = Saved
  <2>1. Saved = lines[c]
    BY <1>1, <1>5, SavedIs
  <2>2. \A d \in Conn : phase'[d] # "rename"
    BY <1>1, <1>3, <1>5 DEF Writing
  <2> QED BY <1>1, <2>1, <2>2 DEF Saved
<1> QED BY <1>4, <1>5

LEMMA FailSaves ==
  ASSUME SavedInv, ConsentInv', NEW c \in Conn, HostKeyWriteFails(c)
  PROVE  SavedInv' /\ overlapped'
<1>1. /\ phase' = [phase EXCEPT ![c] = "refused"] /\ overlapped' = TRUE
      /\ UNCHANGED <<known, shown, status, prompting, lines, consent>>
  BY DEF HostKeyWriteFails, Goto
<1>2. phase'[c] = "refused" /\ \A d \in Conn \ {c} : phase'[d] = phase[d]
  BY <1>1 DEF SavedInv
<1> QED BY <1>1, <1>2 DEF SavedInv, ConsentInv

\* What a step may take out of the saved lines.
Replaces ==
  ~overlapped' =>
    \A l \in Saved \ Saved' :
      \E c \in Conn : /\ HostOf[c] = l.host /\ status[c] = "mismatch"
                      /\ "mismatch" \in Prompts[c] /\ Line(c) \in Saved'

LEMMA SavedStepKeeps ==
  ASSUME SavedInv, ConsentInv, ConsentInv', [Next]_vars
  PROVE  SavedInv' /\ Replaces
<1>1. CASE HostKeyNext
  <2>1. PICK c \in Conn : \/ Verify(c) \/ Cancel(c) \/ Abandon(c) \/ HostKeyWriteFails(c)
                          \/ \E accept \in BOOLEAN : Submit(c, accept)
    BY <1>1 DEF HostKeyNext
  <2>2. CASE RemoveOld(c)
    <3>1. /\ SavedInv'
          /\ ~overlapped' => Saved = known /\ Saved' = NewLines(c)
      BY <2>2, RemoveSaves
    <3>2. ASSUME ~overlapped', NEW l \in Saved \ Saved'
          PROVE  /\ HostOf[c] = l.host /\ status[c] = "mismatch"
                 /\ "mismatch" \in Prompts[c] /\ Line(c) \in Saved'
      <4>1. l \in known /\ l \notin NewLines(c)
        BY <3>1, <3>2
      <4>2. status[c] = "mismatch" /\ l.host = HostOf[c]
        BY <4>1 DEF NewLines
      <4>3. phase[c] = "remove"
        BY <2>2 DEF RemoveOld
      <4> QED BY <3>1, <3>2, <4>2, <4>3 DEF SavedInv, NewLines
    <3> QED BY <3>1, <3>2 DEF Replaces
  <2>3. CASE HostKeyWriteFails(c)
    BY <2>3, FailSaves DEF Replaces
  <2>4. CASE ReadLines(c)
    BY <2>4, ReadSaves DEF Replaces
  <2>5. CASE Rename(c)
    BY <2>5, RenameSaves DEF Replaces
  <2>6. CASE \/ Inspect(c) \/ Ask(c) \/ Cancel(c) \/ Abandon(c) \/ Answered(c) \/ Expire(c)
             \/ Finish(c) \/ Recheck(c) \/ \E accept \in BOOLEAN : Submit(c, accept)
    BY <2>6, PromptSaves DEF Replaces
  <2> QED BY <2>1, <2>2, <2>3, <2>4, <2>5, <2>6 DEF Verify
<1>2. CASE UNCHANGED hostKeyVars
  <2>1. SavedInv'
    BY <1>2 DEF hostKeyVars, prompting, SavedInv, Writing, NewLines, Line
  <2>2. Saved' = Saved
    BY <1>2 DEF hostKeyVars, Saved
  <2> QED BY <2>1, <2>2 DEF Replaces
<1> QED BY <1>1, <1>2 DEF Next, vars

\* A saved key disappears only for another key of its host that the user was shown as a
\* mismatch, as long as no two writes overlap and none fails (ssh_known_hosts.rs,
\* write_trusted_host_with_path).
THEOREM SavedKeysStayHolds == Spec => SavedKeysStay
<1>1. SavedInv /\ ConsentInv /\ ConsentInv' /\ [Next]_vars =>
        SavedInv' /\ [~overlapped' =>
           \A l \in Saved \ Saved' :
             \E c \in Conn : HostOf[c] = l.host /\ status[c] = "mismatch" /\ "mismatch" \in Prompts[c]
                               /\ Line(c) \in Saved']_hostKeyVars
  BY SavedStepKeeps DEF Replaces
<1> QED BY <1>1, SavedBegins, ConsentBegins, ConsentStepKeeps, PTL DEF Spec, SavedKeysStay

-----------------------------------------------------------------------------

\* The chunks in s, in their order, are those of 1..n that are not in d.
Accounts(s, n, d) ==
  /\ \A i, j \in 1..Len(s) : i < j => s[i] < s[j]
  /\ {s[i] : i \in 1..Len(s)} = (1..n) \ d

OutputTypes ==
  /\ received \in Nat /\ dropped \subseteq 1..received
  /\ recorded \in Seq(Nat) /\ queue \in Seq(Nat)
  /\ notices \in Nat

OutputInv ==
  /\ OutputTypes
  /\ connect \in {"registered", "running"} => terminal # "absent"
  /\ Accounts(recorded \o queue, received, dropped)
  /\ dropped # {} => notices > 0

LEMMA OutputBegins == Init => OutputInv
<1> SUFFICES ASSUME Init PROVE OutputInv
  OBVIOUS
<1>1. recorded = << >> /\ queue = << >> /\ received = 0 /\ dropped = {} /\ notices = 0
  BY DEF Init, IoInit
<1>2. recorded \o queue = << >>
  BY <1>1
<1>3. Accounts(<< >>, 0, {})
  BY DEF Accounts
<1> QED BY <1>1, <1>2, <1>3 DEF OutputInv, OutputTypes, Init, IoInit

LEMMA AppendAccounts ==
  ASSUME NEW s \in Seq(Nat), NEW n \in Nat, NEW d \in SUBSET (1..n), Accounts(s, n, d)
  PROVE  /\ Accounts(Append(s, n + 1), n + 1, d)
         /\ Accounts(s, n + 1, d \union {n + 1})
<1> DEFINE t == Append(s, n + 1)
<1>1. Len(t) = Len(s) + 1 /\ t[Len(s) + 1] = n + 1 /\ \A i \in 1..Len(s) : t[i] = s[i]
  BY AppendProperties
<1>2. \A i \in 1..Len(s) : s[i] \in 1..n
  BY DEF Accounts
<1>3. Len(s) \in Nat
  OBVIOUS
<1> HIDE DEF t
<1>4. \A i, j \in 1..Len(t) : i < j => t[i] < t[j]
  BY <1>1, <1>2, <1>3 DEF Accounts
<1>5. {t[i] : i \in 1..Len(t)} = {s[i] : i \in 1..Len(s)} \union {n + 1}
  BY <1>1, <1>3
<1>6. (1..n + 1) \ d = ((1..n) \ d) \union {n + 1}
        /\ (1..n + 1) \ (d \union {n + 1}) = (1..n) \ d
  OBVIOUS
<1>7. Accounts(t, n + 1, d)
  BY <1>4, <1>5, <1>6 DEF Accounts
<1> QED BY <1>6, <1>7 DEF Accounts, t

LEMMA ReceiveKeeps ==
  ASSUME OutputInv, Receive
  PROVE  OutputInv'
<1>1. received' = received + 1 /\ UNCHANGED <<recorded, connect, terminal>>
  BY DEF Receive, session
<1>2. CASE queue' = Append(queue, received') /\ UNCHANGED <<dropped, notices>>
  <2>1. recorded \o queue' = Append(recorded \o queue, received + 1)
    <3>1. received + 1 \in Nat
      BY DEF OutputInv, OutputTypes
    <3>2. queue' = queue \o <<received + 1>>
      BY <1>1, <1>2, <3>1, AppendIsConcat DEF OutputInv, OutputTypes
    <3>3. (recorded \o queue) \o <<received + 1>> = recorded \o (queue \o <<received + 1>>)
      BY <3>1, ConcatAssociative DEF OutputInv, OutputTypes
    <3> QED BY <3>1, <3>2, <3>3, AppendIsConcat, ConcatProperties DEF OutputInv, OutputTypes
  <2>2. Accounts(recorded' \o queue', received', dropped')
    BY <1>1, <1>2, <2>1, AppendAccounts, ConcatProperties DEF OutputInv, OutputTypes
  <2>3. OutputTypes'
    BY <1>1, <1>2, AppendProperties DEF OutputInv, OutputTypes
  <2> QED BY <1>1, <1>2, <2>2, <2>3 DEF OutputInv
<1>3. CASE /\ dropped' = dropped \union {received'}
           /\ notices' = RecordDrop(Cardinality(dropped'))
           /\ UNCHANGED queue
  <2>1. Accounts(recorded' \o queue', received', dropped')
    BY <1>1, <1>3, AppendAccounts, ConcatProperties DEF OutputInv, OutputTypes
  <2>2. notices' \in Nat /\ notices' >= notices
    BY <1>3 DEF RecordDrop, OutputInv, OutputTypes
  <2>3. dropped = {} => notices' > 0
    <3>1. dropped = {} => Cardinality(dropped') = 1
      BY <1>3, FS_Singleton
    <3> QED BY <1>3, <3>1 DEF RecordDrop, OutputInv, OutputTypes
  <2>4. OutputTypes'
    BY <1>1, <1>3, <2>2 DEF OutputInv, OutputTypes
  <2> QED BY <1>1, <2>1, <2>2, <2>3, <2>4 DEF OutputInv, OutputTypes
<1> QED BY <1>2, <1>3 DEF Receive

LEMMA ProcessKeeps ==
  ASSUME OutputInv, ProcessOutput
  PROVE  OutputInv'
<1>1. /\ queue # << >> /\ queue' = Tail(queue) /\ recorded' = Append(recorded, Head(queue))
      /\ UNCHANGED <<received, dropped, notices, connect, terminal>>
  BY DEF ProcessOutput, OutputInv, session
<1>2. Head(queue) \in Nat /\ Tail(queue) \in Seq(Nat) /\ queue = <<Head(queue)>> \o Tail(queue)
  BY <1>1, HeadTailProperties DEF OutputInv, OutputTypes
<1>3. recorded' = recorded \o <<Head(queue)>> /\ recorded' \in Seq(Nat)
  BY <1>1, <1>2, AppendIsConcat, AppendProperties DEF OutputInv, OutputTypes
<1>4. (recorded \o <<Head(queue)>>) \o Tail(queue) = recorded \o (<<Head(queue)>> \o Tail(queue))
  BY <1>2, ConcatAssociative DEF OutputInv, OutputTypes
<1>5. recorded' \o queue' = recorded \o queue
  BY <1>1, <1>2, <1>3, <1>4
<1> QED BY <1>1, <1>2, <1>3, <1>5 DEF OutputInv, OutputTypes

LEMMA OutputStepKeeps ==
  ASSUME OutputInv, [Next]_vars
  PROVE  OutputInv'
<1>1. CASE Receive \/ ProcessOutput
  BY <1>1, ReceiveKeeps, ProcessKeeps
<1> USE DEF OutputInv, OutputTypes, reading, session
<1>2. CASE StartShell \/ SetupFails \/ InsertSession \/ RegisterTerminal \/ SpawnReadProcessor
           \/ StartLog
  BY <1>2 DEF StartShell, SetupFails, InsertSession, RegisterTerminal, SpawnReadProcessor, StartLog
<1>3. ASSUME NEW w \in Writer, WriteStep(w) PROVE OutputInv'
  BY <1>3 DEF WriteStep
<1>4. ASSUME NEW o \in Owner, OwnerStep(o) PROVE OutputInv'
  BY <1>4 DEF OwnerStep, OwnerRemoves, OwnerClosesJump, OwnerMarks, OwnerClears, Marked
<1>5. CASE ChannelCloses \/ TransportEnds \/ HandlerDropped
  BY <1>5 DEF ChannelCloses, TransportEnds, HandlerDropped
<1>6. ASSUME NEW d \in Caller, CallDisconnect(d) \/ DisconnectStep(d) PROVE OutputInv'
  BY <1>6 DEF CallDisconnect, DisconnectStep, LockChannel, CloseChannel, DisconnectTarget,
     DisconnectJump, CallerMarks, CallerClears, Marked
<1>7. CASE UNCHANGED ioVars
  BY <1>7 DEF ioVars
<1> QED BY <1>1, <1>2, <1>3, <1>4, <1>5, <1>6, <1>7 DEF Next, IoNext, ConnectStep, vars

\* Every chunk is retained, queued or dropped with a notice, and nothing is shown out
\* of order (ssh/io.rs, enqueue_ssh_read and process_ssh_output).
THEOREM OutputAccountedHolds == Spec => []OutputAccounted
<1>1. OutputInv => OutputAccounted
  BY DEF OutputInv, OutputAccounted, Accounts
<1> QED BY <1>1, OutputBegins, OutputStepKeeps, PTL DEF Spec
=============================================================================
