---------------------------- MODULE RemoteProofs ----------------------------
(***************************************************************************)
(* Proofs about the remote sessions: SshConnect, for any number of         *)
(* attempts, keys and clears; Telnet, for any number of resizes and        *)
(* disconnects, any queue and however much is read and written; and        *)
(* TelnetCodec, for any stream of bytes, any cut of it, any input and any  *)
(* sizes.                                                                  *)
(*                                                                         *)
(* The Telnet part needs two invariants.  SizeInv follows the window size  *)
(* from the codec through the queue to the peer: the reader announces a    *)
(* size only while it holds the codec, and a resize changes the size and   *)
(* queues it in one step.  FinalInv says what each step of the end of a    *)
(* session has left behind.                                                *)
(*                                                                         *)
(* So does the codec.  ReadInv says where the parser is in the peer's      *)
(* command under way, and SpeakInv where the peer is in the message being  *)
(* written to it, with what either has made of the bytes before.           *)
(***************************************************************************)
EXTENDS SshConnect, Telnet, TelnetCodec, SequenceTheorems, WellFoundedInduction, TLAPS


\* The attempt was asked for a password, or has typed one.
Asked(a) ==
  \/ pc[a] \in {"prompting", "waiting"} /\ method[a] = "password"
  \/ pc[a] \in {"trying", "accepted"}

\* The attempt holds a lease it may still write through.
Holding(a) == pc[a] = "cached" \/ Asked(a)

\* The password of attempt b for hop h has been stored or never will be.
Spent(b, h) ==
  \/ pc[b] \in {"shell", "started", "registering", "done", "cleanup", "ended"}
  \/ h = "jump" /\ pc[b] = "forwarding"
  \/ h = "jump" /\ hop[b] = "target" /\ pc[b] # "idle"

\* Cancellation and completion exclude each other.
ControlInv ==
  \A a \in Attempt :
    /\ cancelled[a] => a \notin External
    /\ pc[a] \in {"registering", "done"} => ~cancelled[a] /\ a \notin pending
    /\ a \in sessions => pc[a] = "done"
    /\ began[a] <= generation
    /\ pc[a] = "responding" => method[a] = "keyboard"
    /\ pc[a] = "accepted" => <<a, hop[a]>> \in accepted

\* A stored password was accepted for its key, in this generation.
StoredInv ==
  \A k \in Key, b \in Attempt, h \in Hop : Stored(k) = <<b, h>> =>
    /\ <<b, h>> \in accepted
    /\ KeyOf(b, h) = k
    /\ began[b] = generation

\* No password that is stored, leased or refused will be stored again.
SpentInv ==
  \A b \in Attempt, h \in Hop :
    \/ \E k \in Key : Stored(k) = <<b, h>>
    \/ \E a \in Attempt : lease[a].password = <<b, h>>
    \/ <<b, h>> \in refused
    => Spent(b, h)

\* A lease that is tried was accepted for the same key, in the same generation.
TriedInv ==
  \A a, b \in Attempt, h \in Hop :
    pc[a] = "cached" /\ lease[a].password = <<b, h>> =>
      /\ <<b, h>> \in accepted
      /\ KeyOf(b, h) = KeyOf(a, hop[a])
      /\ began[b] = began[a]

\* A lease is the entry it was taken from, or that entry has changed since.
LeaseInv ==
  \A a \in Attempt :
    /\ Asked(a) => lease[a].password = NoPassword
    /\ Holding(a) /\ began[a] = generation =>
         LET e == entry[KeyOf(a, hop[a])] IN
         /\ lease[a].revision <= e.revision
         /\ lease[a].revision = e.revision => e.password = lease[a].password
         /\ pc[a] = "cached" /\ lease[a].revision < e.revision
              => e.password # lease[a].password

\* The jump host exists while it is being talked to.
HopInv == \A a \in Attempt : KeyOf(a, hop[a]) \in Key

CacheInv == StoredInv /\ SpentInv /\ TriedInv /\ LeaseInv /\ RefusedIsForgotten
Inv == TypeOK /\ ControlInv /\ HopInv /\ CacheInv

-----------------------------------------------------------------------------
\* A step that leaves the cache and the leases alone, moves no attempt back
\* before its answer and gives none a lease.
Quiet ==
  /\ UNCHANGED cacheVars
  /\ \A b \in Attempt : \A h \in Hop : Spent(b, h) => Spent(b, h)'
  /\ \A b \in Attempt : pc'[b] = "cached" => pc[b] = "cached" /\ hop'[b] = hop[b]
  /\ \A b \in Attempt : Asked(b)' => Asked(b) /\ hop'[b] = hop[b]

\* A quiet step keeps what is said about the cache.
LEMMA QuietKeeps ==
  ASSUME Inv, Quiet
  PROVE  CacheInv'
<1> USE DEF Stored, KeyOf
<1>1. /\ entry' = entry /\ lease' = lease /\ began' = began
      /\ generation' = generation /\ accepted' = accepted /\ refused' = refused
  BY DEF Quiet, cacheVars
<1>2. StoredInv'
  BY <1>1, Zenon DEF Inv, CacheInv, StoredInv
<1>3. SpentInv'
  BY <1>1, Zenon DEF Inv, CacheInv, SpentInv, Quiet
<1>4. TriedInv'
  BY <1>1 DEF Inv, CacheInv, TriedInv, Quiet
<1>5. LeaseInv'
  BY <1>1 DEF Inv, CacheInv, LeaseInv, Quiet, Holding
<1>6. RefusedIsForgotten'
  BY <1>1 DEF Inv, CacheInv, RefusedIsForgotten
<1> QED
  BY <1>2, <1>3, <1>4, <1>5, <1>6 DEF CacheInv


\* What every action has to keep apart from the cache.
Rest == TypeOK /\ ControlInv /\ HopInv

\* An attempt that goes on without the cache.
LEMMA GoesOn ==
  ASSUME Inv, NEW a \in Attempt,
         \/ Handshake(a) \/ Forward(a) \/ StartShell(a) \/ OtherMethod(a)
         \/ AskKeyboard(a) \/ KeyboardResult(a) \/ SuppliedResult(a)
         \/ CachedAccepted(a) \/ TypedRefused(a)
  PROVE  Rest' /\ Quiet
<1> USE SshAssumption DEF Inv, TypeOK, ControlInv, HopInv, Rest, Goto, Fail, Authenticated,
        Live, attemptVars, promptVars, cacheVars, Place, Awaiting, Hop, KeyOf, Quiet, Spent, Asked
<1>1. CASE Handshake(a)
  <2>1. TypeOK'
    BY <1>1 DEF Handshake
  <2>2. ControlInv' /\ HopInv'
    BY <1>1 DEF Handshake
  <2>3. Quiet
    BY <1>1 DEF Handshake
  <2> QED
    BY <2>1, <2>2, <2>3
<1>2. CASE Forward(a)
  <2>1. TypeOK'
    BY <1>2 DEF Forward
  <2>2. /\ pc[a] = "forwarding" /\ pc'[a] # "accepted" /\ pc' \in [Attempt -> Place]
        /\ \A b \in Attempt : b # a => pc'[b] = pc[b] /\ hop'[b] = hop[b]
    BY <1>2 DEF Forward
  <2>3. ControlInv'
    <3>1. pc'[a] \notin {"accepted", "responding", "registering", "done"}
      BY <1>2 DEF Forward
    <3>2. UNCHANGED <<cancelled, pending, sessions, began, generation, method, accepted>>
      BY <1>2 DEF Forward
    <3>3. a \notin sessions
      BY <2>2
    <3> QED
      BY <2>2, <3>1, <3>2, <3>3
  <2>4. HopInv'
    BY <1>2 DEF Forward
  <2>5. Quiet
    BY <1>2 DEF Forward
  <2> QED
    BY <2>1, <2>3, <2>4, <2>5
<1>3. CASE StartShell(a)
  <2>1. TypeOK'
    BY <1>3 DEF StartShell
  <2>2. ControlInv' /\ HopInv'
    BY <1>3 DEF StartShell
  <2>3. Quiet
    BY <1>3 DEF StartShell
  <2> QED
    BY <2>1, <2>2, <2>3
<1>4. CASE OtherMethod(a)
  <2>1. TypeOK'
    BY <1>4 DEF OtherMethod
  <2>2. ControlInv' /\ HopInv'
    BY <1>4 DEF OtherMethod
  <2>3. Quiet
    BY <1>4 DEF OtherMethod
  <2> QED
    BY <2>1, <2>2, <2>3
<1>5. CASE AskKeyboard(a)
  <2>1. TypeOK'
    BY <1>5 DEF AskKeyboard
  <2>2. ControlInv' /\ HopInv'
    BY <1>5 DEF AskKeyboard
  <2>3. Quiet
    BY <1>5 DEF AskKeyboard
  <2> QED
    BY <2>1, <2>2, <2>3
<1>6. CASE KeyboardResult(a)
  <2>1. TypeOK'
    BY <1>6 DEF KeyboardResult
  <2>2. ControlInv' /\ HopInv'
    BY <1>6 DEF KeyboardResult
  <2>3. Quiet
    <3>1. /\ UNCHANGED <<hop, method, cacheVars>>
          /\ pc[a] = "responding"
          /\ pc'[a] \in {"cleanup", "forwarding", "shell", "password", "prompting", "responding"}
          /\ pc'[a] = "prompting" => method[a] = "keyboard"
          /\ \A b \in Attempt : b # a => pc'[b] = pc[b]
      BY <1>6 DEF KeyboardResult
    <3>2. ASSUME NEW b \in Attempt
          PROVE  /\ \A h \in Hop : Spent(b, h) => Spent(b, h)'
                 /\ pc'[b] = "cached" => pc[b] = "cached" /\ hop'[b] = hop[b]
                 /\ Asked(b)' => Asked(b) /\ hop'[b] = hop[b]
      BY <3>1
    <3> QED
      BY <3>1, <3>2
  <2> QED
    BY <2>1, <2>2, <2>3
<1>7. CASE SuppliedResult(a)
  <2>1. TypeOK'
    BY <1>7 DEF SuppliedResult
  <2>2. ControlInv' /\ HopInv'
    BY <1>7 DEF SuppliedResult
  <2>3. Quiet
    BY <1>7 DEF SuppliedResult
  <2> QED
    BY <2>1, <2>2, <2>3
<1>8. CASE CachedAccepted(a)
  <2>1. TypeOK'
    BY <1>8 DEF CachedAccepted
  <2>2. ControlInv' /\ HopInv'
    BY <1>8 DEF CachedAccepted
  <2>3. Quiet
    BY <1>8 DEF CachedAccepted
  <2> QED
    BY <2>1, <2>2, <2>3
<1>9. CASE TypedRefused(a)
  <2>1. TypeOK'
    BY <1>9 DEF TypedRefused
  <2>2. ControlInv' /\ HopInv'
    BY <1>9 DEF TypedRefused
  <2>3. Quiet
    BY <1>9 DEF TypedRefused
  <2> QED
    BY <2>1, <2>2, <2>3
<1> QED
  BY <1>1, <1>2, <1>3, <1>4, <1>5, <1>6, <1>7, <1>8, <1>9

\* An attempt that completes, is cleaned up, or deals with its prompt.
LEMMA Finishes ==
  ASSUME Inv, NEW a \in Attempt,
         \/ Complete(a) \/ RegisterSession(a) \/ Cleanup(a) \/ Abort(a)
         \/ InsertPrompt(a) \/ PromptReturns(a) \/ PromptTimeout(a)
  PROVE  Rest' /\ Quiet
<1> USE SshAssumption DEF Inv, TypeOK, ControlInv, HopInv, Rest, Goto, Fail,
        Live, attemptVars, promptVars, cacheVars, Place, Awaiting, Hop, KeyOf, Quiet, Spent, Asked
<1>1. CASE Complete(a)
  <2>1. TypeOK'
    BY <1>1 DEF Complete
  <2>2. ControlInv' /\ HopInv'
    BY <1>1 DEF Complete
  <2>3. Quiet
    BY <1>1 DEF Complete
  <2> QED
    BY <2>1, <2>2, <2>3
<1>2. CASE RegisterSession(a)
  <2>1. TypeOK'
    BY <1>2 DEF RegisterSession
  <2>2. ControlInv' /\ HopInv'
    BY <1>2 DEF RegisterSession
  <2>3. Quiet
    BY <1>2 DEF RegisterSession
  <2> QED
    BY <2>1, <2>2, <2>3
<1>3. CASE Cleanup(a)
  <2>1. TypeOK'
    BY <1>3 DEF Cleanup
  <2>2. ControlInv' /\ HopInv'
    BY <1>3 DEF Cleanup
  <2>3. Quiet
    BY <1>3 DEF Cleanup
  <2> QED
    BY <2>1, <2>2, <2>3
<1>4. CASE Abort(a)
  <2>1. TypeOK'
    BY <1>4 DEF Abort
  <2>2. ControlInv' /\ HopInv'
    BY <1>4 DEF Abort
  <2>3. Quiet
    BY <1>4 DEF Abort
  <2> QED
    BY <2>1, <2>2, <2>3
<1>5. CASE InsertPrompt(a)
  <2>1. TypeOK'
    BY <1>5 DEF InsertPrompt
  <2>2. ControlInv' /\ HopInv'
    BY <1>5 DEF InsertPrompt
  <2>3. Quiet
    BY <1>5 DEF InsertPrompt
  <2> QED
    BY <2>1, <2>2, <2>3
<1>6. CASE PromptReturns(a)
  <2>1. TypeOK'
    BY <1>6 DEF PromptReturns
  <2>2. ControlInv' /\ HopInv'
    BY <1>6 DEF PromptReturns
  <2>3. Quiet
    BY <1>6 DEF PromptReturns
  <2> QED
    BY <2>1, <2>2, <2>3
<1>7. CASE PromptTimeout(a)
  <2>1. TypeOK'
    BY <1>7 DEF PromptTimeout
  <2>2. ControlInv' /\ HopInv'
    BY <1>7 DEF PromptTimeout
  <2>3. Quiet
    BY <1>7 DEF PromptTimeout
  <2> QED
    BY <2>1, <2>2, <2>3
<1> QED
  BY <1>1, <1>2, <1>3, <1>4, <1>5, <1>6, <1>7

\* Cancelling an attempt, and what other tasks do to prompts.
LEMMA OtherTask ==
  ASSUME Inv, NEW a \in Attempt,
         NEW S \in SUBSET Attempt, NEW answer \in {"once", "remember", "cancel"},
         \/ Cancel(a) \/ CancelPrompts(a) \/ DropPrompt(a)
         \/ Submit(a, answer) \/ CancelWindow(S)
  PROVE  Rest' /\ Quiet
<1> USE SshAssumption DEF Inv, TypeOK, ControlInv, HopInv, Rest, Goto, Fail,
        Live, attemptVars, promptVars, cacheVars, Place, Awaiting, Hop, KeyOf, Quiet, Spent, Asked
<1>1. CASE Cancel(a)
  <2>1. TypeOK'
    BY <1>1 DEF Cancel
  <2>2. ControlInv' /\ HopInv'
    BY <1>1 DEF Cancel
  <2>3. Quiet
    BY <1>1 DEF Cancel
  <2> QED
    BY <2>1, <2>2, <2>3
<1>2. CASE CancelPrompts(a)
  <2>1. TypeOK'
    BY <1>2 DEF CancelPrompts, Answer
  <2>2. ControlInv' /\ HopInv'
    BY <1>2 DEF CancelPrompts, Answer
  <2>3. Quiet
    BY <1>2 DEF CancelPrompts, Answer
  <2> QED
    BY <2>1, <2>2, <2>3
<1>3. CASE DropPrompt(a)
  <2>1. TypeOK'
    BY <1>3 DEF DropPrompt
  <2>2. ControlInv' /\ HopInv'
    BY <1>3 DEF DropPrompt
  <2>3. Quiet
    BY <1>3 DEF DropPrompt
  <2> QED
    BY <2>1, <2>2, <2>3
<1>4. CASE Submit(a, answer)
  <2>1. TypeOK'
    BY <1>4 DEF Submit, Answer
  <2>2. ControlInv' /\ HopInv'
    BY <1>4 DEF Submit, Answer
  <2>3. Quiet
    BY <1>4 DEF Submit, Answer
  <2> QED
    BY <2>1, <2>2, <2>3
<1>5. CASE CancelWindow(S)
  <2>1. TypeOK'
    BY <1>5 DEF CancelWindow, Answer
  <2>2. ControlInv' /\ HopInv'
    BY <1>5 DEF CancelWindow, Answer
  <2>3. Quiet
    BY <1>5 DEF CancelWindow, Answer
  <2> QED
    BY <2>1, <2>2, <2>3
<1> QED
  BY <1>1, <1>2, <1>3, <1>4, <1>5

-----------------------------------------------------------------------------
\* What every step has to show about the cache.
CacheKept == CacheInv' /\ StoredByActive /\ NewerStays

\* A quiet step keeps the cache.
LEMMA QuietCacheKept ==
  ASSUME Inv, Quiet
  PROVE  CacheKept
<1>1. CacheInv'
  BY QuietKeeps
<1>2. \A k \in Key : Stored(k)' = Stored(k)
  BY DEF Quiet, cacheVars, Stored
<1> QED
  BY <1>1, <1>2, Zenon DEF CacheKept, StoredByActive, NewerStays

\* No password of an attempt that has not begun is spent.
LEMMA BeginStep ==
  ASSUME Inv, NEW a \in Attempt, Begin(a)
  PROVE  Rest' /\ CacheKept
<1> USE SshAssumption DEF Inv, Rest, Goto, KeyOf, Stored
<1>1. Rest'
  <2>1. a \notin sessions
    BY DEF Begin, ControlInv
  <2>2. TypeOK'
    BY <2>1 DEF Begin, TypeOK, Place, Awaiting, Hop, promptVars
  <2>3. ControlInv'
    BY <2>1 DEF Begin, TypeOK, ControlInv, promptVars
  <2>4. HopInv'
    BY DEF Begin, TypeOK, HopInv, Hop
  <2> QED
    BY <2>2, <2>3, <2>4
<1>2. /\ pc[a] = "idle" /\ pc' = [pc EXCEPT ![a] = "connecting"]
      /\ hop' = [hop EXCEPT ![a] = IF JumpKey[a] = NoKey THEN "target" ELSE "jump"]
      /\ began' = [began EXCEPT ![a] = generation]
      /\ entry' = entry /\ lease' = lease /\ generation' = generation
      /\ accepted' = accepted /\ refused' = refused /\ method' = method
  BY DEF Begin, promptVars
<1>3. pc \in [Attempt -> Place] /\ hop \in [Attempt -> Hop] /\ began \in [Attempt -> 0..MaxClears]
  BY DEF TypeOK
<1>4. \A h \in Hop : ~Spent(a, h)
  BY <1>2 DEF Spent
<1>5. \A b \in Attempt, h \in Hop : Spent(b, h) => b # a /\ Spent(b, h)'
  BY <1>2, <1>3, <1>4 DEF Spent
<1>6. \A b \in Attempt : b # a => pc'[b] = pc[b] /\ hop'[b] = hop[b] /\ began'[b] = began[b]
  BY <1>2, <1>3
<1>7. pc'[a] = "connecting"
  BY <1>2, <1>3
<1>8. SpentInv'
  BY <1>2, <1>5, Zenon DEF CacheInv, SpentInv
<1>9. StoredInv'
  BY <1>2, <1>5, <1>6 DEF CacheInv, StoredInv, SpentInv
<1>10. TriedInv'
  BY <1>2, <1>5, <1>6, <1>7 DEF CacheInv, TriedInv, SpentInv
<1>11. LeaseInv'
  BY <1>2, <1>6, <1>7 DEF CacheInv, LeaseInv, Holding, Asked
<1>12. RefusedIsForgotten'
  BY <1>2 DEF CacheInv, RefusedIsForgotten
<1>13. StoredByActive /\ NewerStays
  BY <1>2, Zenon DEF StoredByActive, NewerStays
<1> QED
  BY <1>1, <1>8, <1>9, <1>10, <1>11, <1>12, <1>13 DEF CacheKept, CacheInv

\* After a clear every lease is of an older generation.
LEMMA ClearStep ==
  ASSUME Inv, Clear
  PROVE  Rest' /\ CacheKept
<1> USE SshAssumption DEF Inv, Rest, Stored, EmptyEntry
<1>1. Rest'
  BY DEF Clear, TypeOK, ControlInv, HopInv, KeyOf, Entry, attemptVars, promptVars
<1>2. /\ pc' = pc /\ hop' = hop /\ method' = method /\ began' = began /\ lease' = lease
      /\ accepted' = accepted /\ refused' = refused
      /\ generation' = generation + 1
      /\ entry' = [k \in Key |-> EmptyEntry]
  BY DEF Clear, attemptVars, promptVars
<1>3. \A k \in Key : Stored(k)' = NoPassword
  BY <1>2
<1>4. \A b \in Attempt, h \in Hop : <<b, h>> # NoPassword
  BY DEF Password
<1>5. StoredInv'
  BY <1>3, <1>4 DEF StoredInv
<1>6. SpentInv'
  BY <1>2, <1>3, <1>4 DEF CacheInv, SpentInv, Spent
<1>7. TriedInv'
  BY <1>2 DEF CacheInv, TriedInv, KeyOf
<1>8. LeaseInv'
  <2>1. \A a \in Attempt : began[a] # generation + 1
    <3>1. \A a \in Attempt : began[a] \in Int /\ generation \in Int
      BY DEF TypeOK
    <3>2. \A a \in Attempt : began[a] <= generation
      BY DEF ControlInv
    <3> QED
      BY <3>1, <3>2
  <2> QED
    BY <1>2, <2>1 DEF CacheInv, LeaseInv, Asked
<1>9. RefusedIsForgotten'
  BY <1>2, <1>3 DEF RefusedIsForgotten, TypeOK
<1>10. generation' # generation
  BY <1>2 DEF TypeOK
<1>11. StoredByActive /\ NewerStays
  BY <1>3, <1>10, Zenon DEF StoredByActive, NewerStays
<1> QED
  BY <1>1, <1>5, <1>6, <1>7, <1>8, <1>9, <1>11 DEF CacheKept, CacheInv

\* A checkout in the current generation leases the entry as it is; one of an
\* older generation leases nothing.
LEMMA CheckoutStep ==
  ASSUME Inv, NEW a \in Attempt, Checkout(a)
  PROVE  Rest' /\ CacheKept
<1> USE SshAssumption DEF Inv, Rest, Goto, Stored
<1> DEFINE K == KeyOf(a, hop[a])
<1>1. K \in Key
  BY DEF HopInv
<1>2. /\ Lease(a) \in Entry
      /\ Lease(a).password # NoPassword => generation = began[a] /\ Lease(a) = entry[K]
      /\ generation = began[a] => Lease(a) = entry[K]
  BY <1>1 DEF Lease, TypeOK, EmptyEntry, Entry
<1> HIDE DEF K
<1>3. Rest'
  <2>1. TypeOK'
    BY <1>2 DEF Checkout, TypeOK, Place, Awaiting
  <2>2. ControlInv' /\ HopInv'
    BY DEF Checkout, TypeOK, ControlInv, HopInv, KeyOf
  <2> QED
    BY <2>1, <2>2
<1>4. /\ hop' = hop /\ began' = began /\ generation' = generation /\ entry' = entry
      /\ accepted' = accepted /\ refused' = refused
      /\ lease' = [lease EXCEPT ![a] = Lease(a)]
      /\ pc[a] \in {"methods", "password"}
      /\ \A b \in Attempt : b # a => pc'[b] = pc[b] /\ method'[b] = method[b]
      /\ pc'[a] = "supplied" \/ pc'[a] = "cached" \/ (pc'[a] = "prompting" /\ Lease(a).password = NoPassword)
  BY DEF Checkout, TypeOK
<1>5. /\ lease'[a] = Lease(a)
      /\ \A b \in Attempt : b # a => lease'[b] = lease[b]
  BY <1>4 DEF TypeOK
<1>6. \A b \in Attempt, h \in Hop : Spent(b, h) => Spent(b, h)'
  BY <1>4 DEF Spent
<1>7. StoredInv'
  BY <1>4 DEF CacheInv, StoredInv, KeyOf
<1>8. SpentInv'
  <2> SUFFICES ASSUME NEW b \in Attempt, NEW h \in Hop,
                      \/ \E k \in Key : Stored(k)' = <<b, h>>
                      \/ \E c \in Attempt : lease'[c].password = <<b, h>>
                      \/ <<b, h>> \in refused'
               PROVE  Spent(b, h)
    BY <1>6, Zenon DEF SpentInv
  <2>1. <<b, h>> # NoPassword
    BY DEF Password
  <2>2. CASE lease'[a].password = <<b, h>>
    BY <1>1, <1>2, <1>5, <2>1, <2>2 DEF CacheInv, SpentInv
  <2>3. CASE lease'[a].password # <<b, h>>
    BY <1>4, <1>5, <2>3 DEF CacheInv, SpentInv
  <2> QED
    BY <2>2, <2>3
<1>9. TriedInv'
  <2> SUFFICES ASSUME NEW c \in Attempt, NEW b \in Attempt, NEW h \in Hop,
                      pc'[c] = "cached", lease'[c].password = <<b, h>>
               PROVE  /\ <<b, h>> \in accepted
                      /\ KeyOf(b, h) = KeyOf(c, hop[c])
                      /\ began[b] = began[c]
    BY <1>4 DEF TriedInv, KeyOf
  <2>1. CASE c = a
    <3>1. <<b, h>> # NoPassword
      BY DEF Password
    <3>2. Stored(K) = <<b, h>> /\ generation = began[a]
      BY <1>2, <1>5, <2>1, <3>1
    <3> QED
      BY <1>1, <2>1, <3>2 DEF CacheInv, StoredInv, K
  <2>2. CASE c # a
    BY <1>4, <1>5, <2>2 DEF CacheInv, TriedInv
  <2> QED
    BY <2>1, <2>2
<1>10. LeaseInv'
  <2> SUFFICES ASSUME NEW c \in Attempt
               PROVE  /\ Asked(c)' => lease'[c].password = NoPassword
                      /\ Holding(c)' /\ began[c] = generation =>
                           LET e == entry[KeyOf(c, hop[c])] IN
                           /\ lease'[c].revision <= e.revision
                           /\ lease'[c].revision = e.revision => e.password = lease'[c].password
                           /\ pc'[c] = "cached" /\ lease'[c].revision < e.revision
                                => e.password # lease'[c].password
    BY <1>4 DEF LeaseInv, KeyOf
  <2>1. CASE c = a
    <3>1. Asked(a)' => lease'[a].password = NoPassword
      BY <1>4, <1>5 DEF Asked
    <3>2. began[a] = generation => lease'[a] = entry[K] /\ entry[K].revision \in Nat
      BY <1>1, <1>2, <1>5 DEF TypeOK, Entry
    <3> QED
      BY <2>1, <3>1, <3>2 DEF K
  <2>2. CASE c # a
    BY <1>4, <1>5, <2>2 DEF CacheInv, LeaseInv, Holding, Asked
  <2> QED
    BY <2>1, <2>2
<1>11. RefusedIsForgotten' /\ StoredByActive /\ NewerStays
  BY <1>4, Zenon DEF CacheInv, RefusedIsForgotten, StoredByActive, NewerStays
<1> QED
  BY <1>3, <1>7, <1>8, <1>9, <1>10, <1>11 DEF CacheKept, CacheInv

\* An accepted password is not in the cache yet.
LEMMA AcceptedStep ==
  ASSUME Inv, NEW a \in Attempt, TypedAccepted(a)
  PROVE  Rest' /\ CacheKept
<1> USE SshAssumption DEF Inv, Rest, Goto, Stored
<1>1. Rest'
  <2>1. Typed(a) \in Password
    BY DEF Typed, TypeOK, Password
  <2>2. TypeOK'
    BY <2>1 DEF TypedAccepted, TypeOK, promptVars, Place, Awaiting
  <2>3. ControlInv' /\ HopInv'
    BY DEF TypedAccepted, Typed, TypeOK, ControlInv, HopInv, KeyOf, promptVars
  <2> QED
    BY <2>2, <2>3
<1>2. /\ hop' = hop /\ began' = began /\ generation' = generation /\ entry' = entry
      /\ lease' = lease /\ refused' = refused /\ accepted \subseteq accepted' /\ method' = method
      /\ pc[a] = "trying" /\ pc'[a] = "accepted"
      /\ \A b \in Attempt : b # a => pc'[b] = pc[b]
  BY DEF TypedAccepted, TypeOK, promptVars
<1>3. \A b \in Attempt, h \in Hop : Spent(b, h) => Spent(b, h)'
  BY <1>2 DEF Spent
<1>4. StoredInv'
  BY <1>2 DEF CacheInv, StoredInv, KeyOf
<1>5. SpentInv'
  BY <1>2, <1>3, Zenon DEF CacheInv, SpentInv
<1>6. TriedInv'
  BY <1>2 DEF CacheInv, TriedInv, KeyOf
<1>7. LeaseInv'
  BY <1>2 DEF CacheInv, LeaseInv, KeyOf, Holding, Asked
<1>8. RefusedIsForgotten' /\ StoredByActive /\ NewerStays
  BY <1>2, Zenon DEF CacheInv, RefusedIsForgotten, StoredByActive, NewerStays
<1> QED
  BY <1>1, <1>4, <1>5, <1>6, <1>7, <1>8 DEF CacheKept, CacheInv

\* A rejected lease that is still the entry empties it; one that is not leaves
\* an entry that holds another password, or none.
LEMMA RejectStep ==
  ASSUME Inv, NEW a \in Attempt, CachedRefused(a)
  PROVE  Rest' /\ CacheKept
<1> USE SshAssumption DEF Inv, Rest, Goto, Fail, Stored
<1> DEFINE K == KeyOf(a, hop[a])
           p == lease[a].password
<1>1. K \in Key
  BY DEF HopInv
<1>2. pc[a] = "cached" /\ p \in Password /\ p # NoPassword
  BY DEF CachedRefused, TypeOK, Entry
<1>3. PICK b0 \in Attempt, h0 \in Hop : p = <<b0, h0>>
  BY <1>2 DEF Password
<1>4. /\ p \in accepted /\ KeyOf(b0, h0) = K /\ began[b0] = began[a]
  BY <1>2, <1>3 DEF CacheInv, TriedInv
<1>5. /\ hop' = hop /\ began' = began /\ generation' = generation
      /\ accepted' = accepted /\ method' = method
      /\ refused' = refused \cup {p}
      /\ pc'[a] \in {"prompting", "cleanup"}
      /\ \A b \in Attempt : b # a => pc'[b] = pc[b]
  BY <1>2 DEF CachedRefused, TypeOK, promptVars
<1>6. lease[a] \in Entry /\ entry[K] \in Entry
  BY <1>1 DEF TypeOK
<1>7. PICK r \in Entry : lease' = [lease EXCEPT ![a] = r] /\ r.password = NoPassword
                        /\ (~MayWrite(a) => r.revision = lease[a].revision)
                        /\ (MayWrite(a) => r.revision = lease[a].revision + 1)
  <2>1. CASE MayWrite(a)
    <3> DEFINE r == [revision |-> lease[a].revision + 1, password |-> NoPassword]
    <3>1. r \in Entry
      BY <1>6 DEF Entry
    <3>2. lease' = [lease EXCEPT ![a] = r]
      BY <2>1 DEF CachedRefused, Reject
    <3> QED
      BY <2>1, <3>1, <3>2
  <2>2. CASE ~MayWrite(a)
    <3> DEFINE r == [lease[a] EXCEPT !.password = NoPassword]
    <3>1. r \in Entry /\ r.password = NoPassword /\ r.revision = lease[a].revision
      BY <1>6 DEF Entry
    <3>2. lease' = [lease EXCEPT ![a] = r]
      BY <2>2 DEF CachedRefused, Reject
    <3> QED
      BY <2>2, <3>1, <3>2
  <2> QED
    BY <2>1, <2>2
<1>8. /\ lease' \in [Attempt -> Entry] /\ lease'[a] = r
      /\ \A b \in Attempt : b # a => lease'[b] = lease[b]
  BY <1>7 DEF TypeOK
<1>9. \/ MayWrite(a) /\ entry' = [entry EXCEPT ![K] =
            [revision |-> entry[K].revision + 1, password |-> NoPassword]]
      \/ ~MayWrite(a) /\ entry' = entry
  BY DEF CachedRefused, Reject, Write
<1>10. [revision |-> entry[K].revision + 1, password |-> NoPassword] \in Entry
  BY <1>6 DEF Entry
<1>11. /\ entry' \in [Key -> Entry]
       /\ \A k \in Key : k # K => entry'[k] = entry[k]
       /\ MayWrite(a) => entry'[K].password = NoPassword
                         /\ entry'[K].revision = entry[K].revision + 1
       /\ ~MayWrite(a) => entry'[K] = entry[K]
  BY <1>1, <1>9, <1>10 DEF TypeOK
<1>12. MayWrite(a) => Stored(K) = p /\ generation = began[a]
                      /\ r.revision = entry'[K].revision
  BY <1>2, <1>6, <1>7, <1>11 DEF MayWrite, CacheInv, LeaseInv, Holding
<1>13. ~MayWrite(a) /\ generation = began[a] =>
          lease[a].revision < entry[K].revision /\ Stored(K) # p
  BY <1>2, <1>6 DEF MayWrite, CacheInv, LeaseInv, Holding, Entry
<1> HIDE DEF K, p
<1>14. \A k \in Key : Stored(k)' = Stored(k)
                       \/ (k = K /\ Stored(k)' = NoPassword /\ Stored(k) = p)
  BY <1>11, <1>12
<1>15. \A k \in Key : Stored(k)' # p
  <2> SUFFICES ASSUME NEW k \in Key, Stored(k)' = p PROVE FALSE
    OBVIOUS
  <2>1. Stored(k) = p
    BY <1>2, <1>14
  <2>2. k = K /\ generation = began[a]
    BY <1>3, <1>4, <2>1 DEF CacheInv, StoredInv
  <2> QED
    BY <1>2, <1>11, <1>13, <2>1, <2>2
<1>16. Rest'
  <2>1. TypeOK'
    BY <1>2, <1>5, <1>8, <1>11 DEF CachedRefused, TypeOK, Place, Awaiting, promptVars
  <2>2. ControlInv' /\ HopInv'
    BY <1>2, <1>5 DEF CachedRefused, TypeOK, ControlInv, HopInv, KeyOf, promptVars
  <2> QED
    BY <2>1, <2>2
<1>17. \A b \in Attempt, h \in Hop : Spent(b, h) => Spent(b, h)'
  BY <1>2, <1>5 DEF Spent
<1>18. \A b \in Attempt, h \in Hop : <<b, h>> # NoPassword
  BY DEF Password
<1>19. StoredInv'
  BY <1>5, <1>14, <1>18 DEF CacheInv, StoredInv, KeyOf
<1>20. SpentInv'
  <2> SUFFICES ASSUME NEW b \in Attempt, NEW h \in Hop,
                      \/ \E k \in Key : Stored(k)' = <<b, h>>
                      \/ \E c \in Attempt : lease'[c].password = <<b, h>>
                      \/ <<b, h>> \in refused'
               PROVE  Spent(b, h)
    BY <1>17, Zenon DEF SpentInv
  <2>1. CASE \E k \in Key : Stored(k)' = <<b, h>>
    BY <1>14, <1>18, <2>1 DEF CacheInv, SpentInv
  <2>2. CASE \E c \in Attempt : lease'[c].password = <<b, h>>
    BY <1>7, <1>8, <1>18, <2>2 DEF CacheInv, SpentInv
  <2>3. CASE <<b, h>> \in refused'
    BY <1>5, <2>3 DEF CacheInv, SpentInv, p
  <2> QED
    BY <2>1, <2>2, <2>3
<1>21. TriedInv'
  BY <1>5, <1>8 DEF CacheInv, TriedInv, KeyOf
<1>22. LeaseInv'
  <2> SUFFICES ASSUME NEW c \in Attempt
               PROVE  /\ Asked(c)' => lease'[c].password = NoPassword
                      /\ Holding(c)' /\ began[c] = generation =>
                           LET e == entry'[KeyOf(c, hop[c])] IN
                           /\ lease'[c].revision <= e.revision
                           /\ lease'[c].revision = e.revision => e.password = lease'[c].password
                           /\ pc'[c] = "cached" /\ lease'[c].revision < e.revision
                                => e.password # lease'[c].password
    BY <1>5 DEF LeaseInv, KeyOf
  <2>1. CASE c = a
    <3>1. began[a] = generation =>
            /\ r.revision <= entry'[K].revision
            /\ r.revision = entry'[K].revision => entry'[K].password = NoPassword
      BY <1>6, <1>7, <1>11, <1>12, <1>13 DEF Entry
    <3> QED
      BY <1>5, <1>7, <1>8, <2>1, <3>1 DEF K
  <2>2. CASE c # a
    <3> DEFINE k == KeyOf(c, hop[c])
    <3>1. k \in Key
      BY DEF HopInv
    <3>2. lease'[c] = lease[c] /\ lease[c] \in Entry /\ entry[k] \in Entry
      BY <1>8, <2>2, <3>1 DEF TypeOK
    <3>3. /\ Asked(c)' => Asked(c)
          /\ Holding(c)' => Holding(c)
          /\ pc'[c] = pc[c]
      BY <1>5, <2>2 DEF Asked, Holding
    <3>4. \/ entry'[k] = entry[k]
          \/ entry'[k].revision = entry[k].revision + 1 /\ entry'[k].password = NoPassword
      BY <1>11, <3>1
    <3>5. pc[c] = "cached" => lease[c].password # NoPassword
      BY DEF TypeOK
    <3>6. Asked(c) => lease[c].password = NoPassword
      BY DEF CacheInv, LeaseInv
    <3>7. Holding(c) /\ began[c] = generation =>
             /\ lease[c].revision <= entry[k].revision
             /\ lease[c].revision = entry[k].revision => entry[k].password = lease[c].password
             /\ pc[c] = "cached" /\ lease[c].revision < entry[k].revision
                  => entry[k].password # lease[c].password
      BY DEF CacheInv, LeaseInv
    <3> HIDE DEF k
    <3>8. lease[c].revision \in Nat /\ entry[k].revision \in Nat
      BY <3>2 DEF Entry
    <3> QED
      BY <3>2, <3>3, <3>4, <3>5, <3>6, <3>7, <3>8 DEF k
  <2> QED
    BY <2>1, <2>2
<1>23. RefusedIsForgotten'
  BY <1>2, <1>5, <1>14, <1>15 DEF CacheInv, RefusedIsForgotten, TypeOK
<1>24. StoredByActive /\ NewerStays
  BY <1>5, <1>14 DEF StoredByActive, NewerStays
<1> QED
  BY <1>16, <1>19, <1>20, <1>21, <1>22, <1>23, <1>24 DEF CacheKept, CacheInv

\* A password is written only over the entry its lease was taken from, which
\* then holds none.
LEMMA RememberStep ==
  ASSUME Inv, NEW a \in Attempt, Remember(a)
  PROVE  Rest' /\ CacheKept
<1> USE SshAssumption DEF Inv, Rest, Goto, Authenticated, Stored
<1> DEFINE K == KeyOf(a, hop[a])
           q == <<a, hop[a]>>
           Writes == reply[a] = "remember" /\ IfActive(a) /\ MayWrite(a)
<1>1. K \in Key /\ hop[a] \in Hop /\ q \in Password /\ q # NoPassword
  BY DEF HopInv, TypeOK, Password
<1>2. /\ hop' = hop /\ began' = began /\ generation' = generation /\ lease' = lease
      /\ accepted' = accepted /\ method' = method /\ refused' = refused
      /\ pc[a] = "accepted"
      /\ pc'[a] = IF hop[a] = "jump" THEN "forwarding" ELSE "shell"
      /\ \A b \in Attempt : b # a => pc'[b] = pc[b]
  BY DEF Remember, TypeOK, promptVars
<1>3. q \in accepted
  BY <1>2 DEF ControlInv
<1>4. ~Spent(a, hop[a])
  BY <1>2 DEF Spent
<1>5. \A b \in Attempt, h \in Hop : Spent(b, h) => Spent(b, h)'
  BY <1>2 DEF Spent
<1>6. entry[K] \in Entry
  BY <1>1 DEF TypeOK
<1>7. [revision |-> entry[K].revision + 1, password |-> q] \in Entry
  BY <1>1, <1>6 DEF Entry
<1>8. \/ Writes /\ entry' = [entry EXCEPT ![K] =
             [revision |-> entry[K].revision + 1, password |-> q]]
      \/ ~Writes /\ entry' = entry
  BY DEF Remember, Write, Typed
<1>9. /\ entry' \in [Key -> Entry]
      /\ \A k \in Key : k # K => entry'[k] = entry[k]
      /\ Writes => entry'[K].password = q /\ entry'[K].revision = entry[K].revision + 1
      /\ ~Writes => entry'[K] = entry[K]
  BY <1>1, <1>7, <1>8 DEF TypeOK
<1>10. Writes => began[a] = generation /\ ~cancelled[a] /\ Stored(K) = NoPassword
  BY <1>2 DEF MayWrite, IfActive, Live, CacheInv, LeaseInv, ControlInv, Holding, Asked
<1> HIDE DEF K, q, Writes
<1>11. Rest'
  <2>1. TypeOK'
    BY <1>9 DEF Remember, TypeOK, Place, Awaiting, promptVars
  <2>2. ControlInv' /\ HopInv'
    BY DEF Remember, TypeOK, ControlInv, HopInv, KeyOf, promptVars
  <2> QED
    BY <2>1, <2>2
<1>12. \A k \in Key : Stored(k)' = Stored(k) \/ (Writes /\ k = K /\ Stored(k)' = q)
  BY <1>9
<1>13. \A c \in Attempt : lease[c].password # q
  BY <1>1, <1>4 DEF CacheInv, SpentInv, q
<1>14. StoredInv'
  BY <1>1, <1>2, <1>3, <1>10, <1>12 DEF CacheInv, StoredInv, KeyOf, K, q
<1>15. SpentInv'
  <2> SUFFICES ASSUME NEW b \in Attempt, NEW h \in Hop,
                      \/ \E k \in Key : Stored(k)' = <<b, h>>
                      \/ \E c \in Attempt : lease'[c].password = <<b, h>>
                      \/ <<b, h>> \in refused'
               PROVE  Spent(b, h)'
    BY Zenon DEF SpentInv
  <2>1. CASE <<b, h>> = q
    <3>1. b = a /\ h = hop[a]
      BY <2>1 DEF q
    <3> QED
      BY <1>1, <1>2, <3>1 DEF Spent, Hop
  <2>2. CASE <<b, h>> # q
    BY <1>2, <1>5, <1>12, <2>2 DEF CacheInv, SpentInv
  <2> QED
    BY <2>1, <2>2
<1>16. TriedInv'
  BY <1>2 DEF CacheInv, TriedInv, KeyOf
<1>17. LeaseInv'
  <2> SUFFICES ASSUME NEW c \in Attempt
               PROVE  /\ Asked(c)' => lease[c].password = NoPassword
                      /\ Holding(c)' /\ began[c] = generation =>
                           LET e == entry'[KeyOf(c, hop[c])] IN
                           /\ lease[c].revision <= e.revision
                           /\ lease[c].revision = e.revision => e.password = lease[c].password
                           /\ pc'[c] = "cached" /\ lease[c].revision < e.revision
                                => e.password # lease[c].password
    BY <1>2 DEF LeaseInv, KeyOf
  <2>1. CASE c = a
    BY <1>2, <2>1 DEF Asked, Holding
  <2>2. CASE c # a
    <3> DEFINE k == KeyOf(c, hop[c])
    <3>1. k \in Key
      BY DEF HopInv
    <3>2. lease[c] \in Entry /\ entry[k] \in Entry
      BY <3>1 DEF TypeOK
    <3>3. /\ Asked(c)' => Asked(c)
          /\ Holding(c)' => Holding(c)
          /\ pc'[c] = pc[c]
      BY <1>2, <2>2 DEF Asked, Holding
    <3>4. \/ entry'[k] = entry[k]
          \/ entry'[k].revision = entry[k].revision + 1 /\ entry'[k].password = q
      BY <1>9, <3>1
    <3>5. Asked(c) => lease[c].password = NoPassword
      BY DEF CacheInv, LeaseInv
    <3>6. Holding(c) /\ began[c] = generation =>
             /\ lease[c].revision <= entry[k].revision
             /\ lease[c].revision = entry[k].revision => entry[k].password = lease[c].password
             /\ pc[c] = "cached" /\ lease[c].revision < entry[k].revision
                  => entry[k].password # lease[c].password
      BY DEF CacheInv, LeaseInv
    <3> HIDE DEF k
    <3>7. lease[c].revision \in Nat /\ entry[k].revision \in Nat
      BY <3>2 DEF Entry
    <3> QED
      BY <1>13, <3>3, <3>4, <3>5, <3>6, <3>7 DEF k
  <2> QED
    BY <2>1, <2>2
<1>18. RefusedIsForgotten'
  <2>1. q \notin refused
    BY <1>1, <1>4 DEF CacheInv, SpentInv, q
  <2> QED
    BY <1>2, <1>12, <2>1 DEF CacheInv, RefusedIsForgotten
<1>19. StoredByActive
  BY <1>10, <1>12 DEF StoredByActive, q
<1>20. NewerStays
  BY <1>10, <1>12 DEF NewerStays
<1> QED
  BY <1>11, <1>14, <1>15, <1>16, <1>17, <1>18, <1>19, <1>20 DEF CacheKept, CacheInv

-----------------------------------------------------------------------------
\* The invariant holds initially.
LEMMA InitInv == Init => Inv
<1> SUFFICES ASSUME Init PROVE Inv
  OBVIOUS
<1> USE SshAssumption DEF Init
<1>1. TypeOK
  BY DEF TypeOK, Place, Hop, Entry, EmptyEntry
<1>2. ControlInv /\ HopInv
  BY DEF ControlInv, HopInv, KeyOf
<1>3. \A b \in Attempt, h \in Hop : <<b, h>> # NoPassword
  BY DEF Password
<1>4. CacheInv
  BY <1>3 DEF CacheInv, StoredInv, SpentInv, TriedInv, LeaseInv, RefusedIsForgotten,
              Stored, EmptyEntry, Holding, Asked
<1> QED
  BY <1>1, <1>2, <1>4 DEF Inv

\* The invariant is inductive, and no step breaks an action property.
LEMMA NextInv ==
  Inv /\ [Next]_vars => Inv' /\ StoredByActive /\ NewerStays
<1> SUFFICES ASSUME Inv, [Next]_vars PROVE Inv' /\ StoredByActive /\ NewerStays
  OBVIOUS
<1>1. ASSUME Rest' /\ CacheKept PROVE Inv' /\ StoredByActive /\ NewerStays
  BY <1>1 DEF Inv, Rest, CacheKept
<1>2. ASSUME Rest' /\ Quiet PROVE Inv' /\ StoredByActive /\ NewerStays
  BY <1>1, <1>2, QuietCacheKept
<1>3. CASE UNCHANGED vars
  <2>1. Rest'
    BY <1>3 DEF Inv, Rest, TypeOK, ControlInv, HopInv, KeyOf, vars, attemptVars, promptVars, cacheVars
  <2>2. Quiet
    BY <1>3 DEF Quiet, Spent, Asked, vars, attemptVars, promptVars, cacheVars
  <2> QED
    BY <1>2, <2>1, <2>2
<1>4. ASSUME NEW a \in Attempt, AttemptStep(a) PROVE Inv' /\ StoredByActive /\ NewerStays
  <2>1. CASE \/ Handshake(a) \/ Forward(a) \/ StartShell(a) \/ OtherMethod(a)
             \/ AskKeyboard(a) \/ KeyboardResult(a) \/ SuppliedResult(a)
             \/ CachedAccepted(a) \/ TypedRefused(a)
    BY <1>2, <2>1, GoesOn
  <2>2. CASE \/ Complete(a) \/ RegisterSession(a) \/ Cleanup(a) \/ Abort(a)
             \/ InsertPrompt(a) \/ PromptReturns(a) \/ PromptTimeout(a)
    BY <1>2, <2>2, Finishes
  <2>3. CASE Checkout(a)
    BY <1>1, <2>3, CheckoutStep
  <2>4. CASE CachedRefused(a)
    BY <1>1, <2>4, RejectStep
  <2>5. CASE TypedAccepted(a)
    BY <1>1, <2>5, AcceptedStep
  <2>6. CASE Remember(a)
    BY <1>1, <2>6, RememberStep
  <2> QED
    BY <1>4, <2>1, <2>2, <2>3, <2>4, <2>5, <2>6 DEF AttemptStep
<1>5. CASE OtherStep
  <2>1. ASSUME NEW a \in Attempt, Begin(a) PROVE Inv' /\ StoredByActive /\ NewerStays
    BY <1>1, <2>1, BeginStep
  <2>2. ASSUME NEW a \in Attempt, Cancel(a) \/ CancelPrompts(a) \/ DropPrompt(a)
        PROVE  Inv' /\ StoredByActive /\ NewerStays
    BY <1>2, <2>2, OtherTask
  <2>3. ASSUME NEW a \in Attempt, NEW answer \in {"once", "remember", "cancel"}, Submit(a, answer)
        PROVE  Inv' /\ StoredByActive /\ NewerStays
    BY <1>2, <2>3, OtherTask
  <2>4. ASSUME NEW S \in SUBSET Attempt, CancelWindow(S) PROVE Inv' /\ StoredByActive /\ NewerStays
    <3>1. PICK a : a \in S
      BY <2>4 DEF CancelWindow
    <3>2. a \in Attempt
      BY <3>1
    <3> QED
      BY <1>2, <2>4, <3>2, OtherTask
  <2>5. CASE Clear
    BY <1>1, <2>5, ClearStep
  <2> QED
    BY <1>5, <2>1, <2>2, <2>3, <2>4, <2>5 DEF OtherStep
<1> QED
  BY <1>3, <1>4, <1>5 DEF Next

\* Inv is an invariant.
THEOREM Invariant == Spec => []Inv
<1> QED
  BY InitInv, NextInv, PTL DEF Spec

\* Type correctness: every variable keeps the type of its field.
THEOREM TypeCorrect == Spec => []TypeOK
<1>1. Inv => TypeOK
  BY DEF Inv
<1> QED
  BY <1>1, Invariant, PTL

\* An attempt whose cancellation was acknowledged registers no session.
THEOREM CancelledNeverRegistersHolds == Spec => []CancelledNeverRegisters
<1>1. Inv => CancelledNeverRegisters
  BY DEF Inv, ControlInv, CancelledNeverRegisters
<1> QED
  BY <1>1, Invariant, PTL

\* A cached password is tried only where it was accepted.
THEOREM TriedWhereAcceptedHolds == Spec => []TriedWhereAccepted
<1>1. Inv => TriedWhereAccepted
  <2> SUFFICES ASSUME Inv, NEW a \in Attempt, pc[a] = "cached"
               PROVE  LET p == lease[a].password IN
                      p \in accepted /\ KeyOf(p[1], p[2]) = KeyOf(a, hop[a])
    BY DEF TriedWhereAccepted
  <2>1. lease[a].password \in Attempt \X Hop
    BY DEF Inv, TypeOK, Entry, Password
  <2>2. PICK b \in Attempt, h \in Hop : lease[a].password = <<b, h>>
    BY <2>1
  <2> QED
    BY <2>2 DEF Inv, CacheInv, TriedInv
<1> QED
  BY <1>1, Invariant, PTL

\* No entry holds a password of an attempt that began before the last clear.
THEOREM ClearIsFinalHolds == Spec => []ClearIsFinal
<1>1. Inv => ClearIsFinal
  <2> SUFFICES ASSUME Inv, NEW k \in Key, Stored(k) # NoPassword
               PROVE  began[Stored(k)[1]] = generation
    BY DEF ClearIsFinal
  <2>1. Stored(k) \in Attempt \X Hop
    BY DEF Inv, TypeOK, Entry, Password, Stored
  <2>2. PICK b \in Attempt, h \in Hop : Stored(k) = <<b, h>>
    BY <2>1
  <2> QED
    BY <2>2 DEF Inv, CacheInv, StoredInv
<1> QED
  BY <1>1, Invariant, PTL

\* A refused password is not in the cache again.
THEOREM RefusedIsForgottenHolds == Spec => []RefusedIsForgotten
<1>1. Inv => RefusedIsForgotten
  BY DEF Inv, CacheInv
<1> QED
  BY <1>1, Invariant, PTL

\* What the cache hands out was accepted where it is tried, after the latest clear,
\* and has not failed since.
THEOREM CacheIsTrueHolds == Spec => []CacheIsTrue
<1> QED
  BY TriedWhereAcceptedHolds, ClearIsFinalHolds, RefusedIsForgottenHolds, PTL
  DEF CacheIsTrue

\* No step of a cancelled attempt puts its password into the cache, and no older
\* attempt takes a stored password out of it.
THEOREM EntriesChangeRightlyHolds == Spec => EntriesChangeRightly
<1>1. Inv /\ [Next]_vars => [StoredByActive /\ NewerStays]_vars
  BY NextInv
<1> QED
  BY <1>1, Invariant, PTL DEF Spec, EntriesChangeRightly

-----------------------------------------------------------------------------
(* The Telnet session.                                                     *)

Sizes == Resizer \union {NoSize, FirstSize}
Request == [kind : {"none", "reply", "input", "naws"}, size : Sizes]

\* The requests that tell the peer a size, and the last of those queued.
IsNaws(q, i) == q[i].kind = "naws"
NewestNaws(q, i) == IsNaws(q, i) /\ \A j \in DOMAIN q : IsNaws(q, j) => j <= i
Newest(q) == (\E i \in DOMAIN q : IsNaws(q, i)) => \E i \in DOMAIN q : NewestNaws(q, i)

\* The size that the peer will have been told last.
FinalSize(q, x) ==
  \/ \E i \in DOMAIN q : NewestNaws(q, i) /\ q[i].size = x
  \/ /\ \A i \in DOMAIN q : ~IsNaws(q, i)
     /\ x = IF writing.kind = "naws" THEN writing.size ELSE told

\* While the reader holds the codec the size it is about to announce cannot change.
ReaderHolds ==
  reader \in {"append", "send"} =>
    codec = "reader" /\ response \in {Nothing, Reply, SizeOf(size)}

TelnetTypes ==
  /\ size \in Resizer \union {FirstSize} /\ told \in Sizes
  /\ writing \in Request /\ queue \in Seq(Request) /\ response \in Request

SizeInv ==
  /\ TelnetTypes
  /\ attempt # "completed" =>
       /\ task = "none" /\ reader = "read"
       /\ queue = << >> /\ writing = Nothing /\ told = NoSize
  /\ task = "running" =>
       ReaderHolds /\ \E x \in {NoSize, size} : FinalSize(queue, x)

LEMMA Requests ==
  /\ Nothing \in Request /\ Reply \in Request /\ Input \in Request
  /\ \A s \in Sizes : SizeOf(s) \in Request /\ SizeOf(s).kind = "naws" /\ SizeOf(s).size = s
  /\ Nothing.kind # "naws" /\ Reply.kind # "naws" /\ Input.kind # "naws"
  BY DEF Nothing, Reply, Input, SizeOf, Request, Sizes

\* A request joins the queue.
LEMMA Queued ==
  ASSUME NEW q \in Seq(Request), NEW m \in Request
  PROVE  /\ Append(q, m) \in Seq(Request)
         /\ m.kind = "naws" => FinalSize(Append(q, m), m.size)
         /\ \A x : m.kind # "naws" /\ FinalSize(q, x) => FinalSize(Append(q, m), x)
<1> DEFINE p == Append(q, m)
           n == Len(q)
<1>1. /\ p \in Seq(Request) /\ n \in Nat /\ DOMAIN q = 1..n /\ DOMAIN p = 1..(n + 1)
      /\ p[n + 1] = m /\ \A i \in 1..n : p[i] = q[i]
  BY AppendProperties
<1> HIDE DEF p, n
<1>2. ASSUME m.kind = "naws" PROVE FinalSize(p, m.size)
  <2>1. NewestNaws(p, n + 1)
    BY <1>1, <1>2 DEF NewestNaws, IsNaws
  <2> QED BY <1>1, <2>1 DEF FinalSize
<1>3. ASSUME NEW x, m.kind # "naws", FinalSize(q, x) PROVE FinalSize(p, x)
  <2>1. \A i \in 1..n : IsNaws(p, i) <=> IsNaws(q, i)
    BY <1>1 DEF IsNaws
  <2>2. ~IsNaws(p, n + 1)
    BY <1>1, <1>3 DEF IsNaws
  <2>3. ASSUME NEW i \in 1..n, NewestNaws(q, i), q[i].size = x PROVE FinalSize(p, x)
    <3>1. NewestNaws(p, i) /\ i \in DOMAIN p /\ p[i].size = x
      BY <1>1, <2>1, <2>2, <2>3 DEF NewestNaws
    <3> QED BY <3>1 DEF FinalSize
  <2>4. ASSUME \A i \in 1..n : ~IsNaws(q, i) PROVE \A i \in DOMAIN p : ~IsNaws(p, i)
    BY <1>1, <2>1, <2>2, <2>4
  <2> QED BY <1>1, <1>3, <2>3, <2>4 DEF FinalSize
<1> QED BY <1>1, <1>2, <1>3 DEF p

\* The writer takes the first request.
LEMMA Taken ==
  ASSUME NEW q \in Seq(Request), q # << >>, writing' = Head(q), writing.kind # "naws",
         UNCHANGED told, NEW x, FinalSize(q, x), queue' = Tail(q)
  PROVE  /\ FinalSize(queue, x)' /\ writing' \in Request /\ queue' \in Seq(Request)
<1> DEFINE p == Tail(q)
           n == Len(p)
<1>1. /\ p \in Seq(Request) /\ n \in Nat /\ DOMAIN q = 1..(n + 1) /\ DOMAIN p = 1..n
      /\ Head(q) = q[1] /\ q[1] \in Request /\ \A i \in 1..n : p[i] = q[i + 1]
  BY HeadTailProperties
<1> HIDE DEF p, n
<1>2. \A i \in 1..n : IsNaws(p, i) <=> IsNaws(q, i + 1)
  BY <1>1 DEF IsNaws
<1>3. ASSUME NEW i \in 1..(n + 1), NewestNaws(q, i), q[i].size = x PROVE FinalSize(queue, x)'
  <2>1. CASE i = 1
    <3>1. writing'.kind = "naws" /\ writing'.size = x
      BY <1>1, <1>3, <2>1 DEF NewestNaws, IsNaws
    <3>2. ASSUME NEW j \in 1..n PROVE ~IsNaws(p, j)
      <4>1. j + 1 \in DOMAIN q /\ ~(j + 1 <= i)
        BY <1>1, <2>1
      <4> QED BY <1>2, <1>3, <4>1 DEF NewestNaws
    <3> QED BY <1>1, <3>1, <3>2 DEF FinalSize, p
  <2>2. CASE i # 1
    <3>1. i - 1 \in 1..n /\ i = (i - 1) + 1
      BY <1>1, <2>2
    <3>2. IsNaws(p, i - 1) /\ p[i - 1].size = x
      BY <1>1, <1>2, <1>3, <3>1 DEF NewestNaws
    <3>3. ASSUME NEW j \in 1..n, IsNaws(p, j) PROVE j + 1 <= i
      <4>1. j + 1 \in DOMAIN q /\ IsNaws(q, j + 1)
        BY <1>1, <1>2, <3>3
      <4> QED BY <1>3, <4>1 DEF NewestNaws
    <3>4. NewestNaws(p, i - 1)
      BY <1>1, <3>1, <3>2, <3>3 DEF NewestNaws
    <3> QED BY <1>1, <3>1, <3>2, <3>4 DEF FinalSize, p
  <2> QED BY <2>1, <2>2
<1>4. ASSUME \A i \in 1..(n + 1) : ~IsNaws(q, i), x = told PROVE FinalSize(queue, x)'
  <2>1. \A i \in 1..n : ~IsNaws(p, i)
    BY <1>1, <1>2, <1>4
  <2>2. writing'.kind # "naws"
    BY <1>1, <1>4 DEF IsNaws
  <2> QED BY <1>1, <1>4, <2>1, <2>2 DEF FinalSize, p
<1> QED BY <1>1, <1>3, <1>4 DEF FinalSize, p

\* What a step does that changes neither the queue nor what is being written.
LEMMA SameSizes ==
  ASSUME SizeInv, UNCHANGED <<size, told, writing, queue, response>>,
         attempt' # "completed" => attempt # "completed" /\ UNCHANGED <<task, reader>>,
         task' = "running" => task = "running" /\ ReaderHolds'
  PROVE  SizeInv'
<1>1. \A x : FinalSize(queue, x)' <=> FinalSize(queue, x)
  BY DEF FinalSize
<1>2. TelnetTypes'
  BY DEF SizeInv, TelnetTypes
<1>3. task' = "running" => \E x \in {NoSize, size'} : FinalSize(queue, x)'
  BY <1>1 DEF SizeInv
<1> QED BY <1>2, <1>3 DEF SizeInv

LEMMA SizeBegins == TelnetInit => SizeInv
  BY Requests, EmptySeq DEF TelnetInit, SizeInv, TelnetTypes, Sizes

LEMMA EndsKeeps ==
  ASSUME SizeInv, NEW outcome, outcome # "running", task = "running", Ends(outcome)
  PROVE  SizeInv'
  BY Requests, EmptySeq DEF Ends, SizeInv, TelnetTypes

LEMMA SizeStepKeeps ==
  ASSUME SizeInv, [TelnetNext]_telnetVars
  PROVE  SizeInv'
<1> USE TelnetAssumption
<1>1. CASE UNCHANGED telnetVars
  BY <1>1, SameSizes DEF telnetVars, io, shared, ReaderHolds, SizeInv
<1>2. CASE CancelAttempt \/ StartLog
  BY <1>2, SameSizes DEF CancelAttempt, StartLog, io, shared, ReaderHolds, SizeInv
<1>3. CASE Register
  <2>1. /\ attempt = "pending" /\ attempt' = "completed"
        /\ UNCHANGED <<reader, response, size, queue, writing, told>>
    BY <1>3 DEF Register, shared
  <2>2. queue' = << >> /\ writing' = Nothing /\ told' = NoSize /\ reader' = "read"
    BY <2>1 DEF SizeInv
  <2>3. FinalSize(queue, NoSize)'
    BY <2>2, Requests DEF FinalSize
  <2> QED BY <2>1, <2>2, <2>3 DEF SizeInv, TelnetTypes, ReaderHolds
<1>4. CASE Stopped \/ ReadEof \/ IoFails
  BY <1>4, EndsKeeps DEF Stopped, ReadEof, IoFails
<1>5. CASE Read
  BY <1>5, SameSizes DEF Read, shared, ReaderHolds, SizeInv
<1>6. CASE Written
  <2>1. /\ task = "running" /\ writing' = Nothing /\ attempt = "completed"
        /\ told' = IF writing.kind = "naws" THEN writing.size ELSE told
        /\ UNCHANGED <<attempt, task, reader, response, shared>>
    BY <1>6 DEF Written, SizeInv
  <2>2. \A x : FinalSize(queue, x) => FinalSize(queue, x)'
    BY <2>1, Requests DEF FinalSize, shared
  <2>3. TelnetTypes'
    BY <2>1, Requests DEF SizeInv, TelnetTypes, Request, shared
  <2>4. \E x \in {NoSize, size'} : FinalSize(queue, x)'
    BY <2>1, <2>2 DEF SizeInv, shared
  <2> QED BY <2>1, <2>3, <2>4 DEF SizeInv, ReaderHolds, shared
<1>7. CASE ReaderParse
  BY <1>7, Requests DEF ReaderParse, SizeInv, TelnetTypes, ReaderHolds, FinalSize, Sizes
<1>8. CASE ReaderAppend
  BY <1>8, SameSizes DEF ReaderAppend, SizeInv, ReaderHolds
<1>9. CASE ReaderSend
  <2>1. /\ task = "running" /\ queue' = Append(queue, response) /\ response' = Nothing
        /\ reader' = "read" /\ UNCHANGED <<attempt, task, writing, told, size>>
        /\ queue \in Seq(Request) /\ response \in {Nothing, Reply, SizeOf(size)}
        /\ size \in Sizes /\ response \in Request /\ attempt = "completed"
    BY <1>9 DEF ReaderSend, SizeInv, TelnetTypes, ReaderHolds, Sizes
  <2>2. PICK x \in {NoSize, size} : FinalSize(queue, x)
    BY <2>1 DEF SizeInv
  <2>3. \E y \in {NoSize, size} : FinalSize(Append(queue, response), y)
    <3>1. CASE response.kind = "naws"
      BY <2>1, <3>1, Queued, Requests
    <3>2. CASE response.kind # "naws"
      BY <2>1, <2>2, <3>2, Queued
    <3> QED BY <3>1, <3>2
  <2>4. \E y \in {NoSize, size} : FinalSize(queue, y)'
    BY <2>1, <2>3 DEF FinalSize
  <2>5. TelnetTypes'
    BY <2>1, Queued, Requests DEF SizeInv, TelnetTypes
  <2> QED BY <2>1, <2>4, <2>5 DEF SizeInv, ReaderHolds
<1>10. CASE TakeRequest
  <2>1. /\ task = "running" /\ writing = Nothing /\ queue # << >>
        /\ writing' = Head(queue) /\ queue' = Tail(queue) /\ queue \in Seq(Request)
        /\ UNCHANGED <<attempt, task, reader, response, told, codec, size>>
        /\ attempt = "completed"
    BY <1>10 DEF TakeRequest, SizeInv, TelnetTypes
  <2>2. PICK x \in {NoSize, size} : FinalSize(queue, x)
    BY <2>1 DEF SizeInv
  <2>3. writing.kind # "naws"
    BY <2>1, Requests
  <2>4. /\ FinalSize(queue, x)' /\ writing' \in Request /\ queue' \in Seq(Request)
    BY <2>1, <2>2, <2>3, Taken
  <2>5. \E y \in {NoSize, size} : FinalSize(queue, y)'
    BY <2>4
  <2> QED BY <2>1, <2>4, <2>5 DEF SizeInv, TelnetTypes, ReaderHolds
<1>11. CASE TaskEnd
  BY <1>11, SameSizes DEF TaskEnd, Notice, MarkTerminal, MarkWorkspace, TaskClearsLog, Unlist, shared,
     SizeInv
<1>12. ASSUME NEW r \in Resizer, BeginResize(r) \/ LockCodec(r) \/ ResizeFails(r) PROVE SizeInv'
  BY <1>12, SameSizes DEF BeginResize, LockCodec, ResizeFails, io, shared, SizeInv, ReaderHolds
<1>13. ASSUME NEW r \in Resizer, Resize(r) PROVE SizeInv'
  <2>1. /\ task = "running" /\ codec = r /\ size' = r /\ queue' = Append(queue, SizeOf(r))
        /\ UNCHANGED <<attempt, task, reader, response, writing, told>>
        /\ queue \in Seq(Request) /\ r \in Sizes /\ attempt = "completed"
    BY <1>13 DEF Resize, io, SizeInv, TelnetTypes, Sizes
  <2>2. FinalSize(Append(queue, SizeOf(r)), r) /\ Append(queue, SizeOf(r)) \in Seq(Request)
    BY <2>1, Queued, Requests
  <2>3. FinalSize(queue, r)'
    BY <2>1, <2>2 DEF FinalSize
  <2>4. reader \notin {"append", "send"}
    BY <2>1 DEF SizeInv, ReaderHolds
  <2>5. \E x \in {NoSize, size'} : FinalSize(queue, x)'
    BY <2>1, <2>3
  <2> QED BY <2>1, <2>2, <2>4, <2>5 DEF SizeInv, TelnetTypes, ReaderHolds
<1>14. CASE WriteData
  <2>1. /\ task = "running" /\ queue' = Append(queue, Input) /\ queue \in Seq(Request)
        /\ UNCHANGED <<attempt, task, reader, response, writing, told, codec, size>>
        /\ attempt = "completed"
    BY <1>14 DEF WriteData, io, SizeInv, TelnetTypes
  <2>2. PICK x \in {NoSize, size} : FinalSize(queue, x)
    BY <2>1 DEF SizeInv
  <2>3. FinalSize(Append(queue, Input), x) /\ Append(queue, Input) \in Seq(Request)
    BY <2>1, <2>2, Queued, Requests
  <2>4. FinalSize(queue, x)'
    BY <2>1, <2>3 DEF FinalSize
  <2>5. \E y \in {NoSize, size} : FinalSize(queue, y)'
    BY <2>4
  <2> QED BY <2>1, <2>3, <2>5 DEF SizeInv, TelnetTypes, ReaderHolds
<1>15. ASSUME NEW c \in Caller, Disconnect(c) \/ Waited(c) \/ CallerClearsLog(c) PROVE SizeInv'
  BY <1>15, SameSizes DEF Disconnect, Waited, CallerClearsLog, io, shared, ReaderHolds, SizeInv
<1> QED
  BY <1>1, <1>2, <1>3, <1>4, <1>5, <1>6, <1>7, <1>8, <1>9, <1>10, <1>11, <1>12, <1>13, <1>14,
     <1>15 DEF TelnetNext, Task, ResizeStep

\* The last of the sizes under way is the one FinalSize speaks of.
LEMMA LastUnderWay ==
  ASSUME TelnetTypes, NEW x, FinalSize(queue, x)
  PROVE  Last(SizesUnderWay) = x
<1> DEFINE naws == {i \in DOMAIN queue : queue[i].kind = "naws"}
           first == <<told>> \o (IF writing.kind = "naws" THEN <<writing.size>> ELSE << >>)
           y == IF writing.kind = "naws" THEN writing.size ELSE told
<1>1. queue \in Seq(Request) /\ told \in Sizes /\ writing.size \in Sizes
  BY DEF TelnetTypes, Request
<1>2. first \in Seq(Sizes) /\ first # << >> /\ Last(first) = y
  BY <1>1 DEF Last
<1> HIDE DEF first
<1>3. CASE naws = {}
  <2>1. SizesUnderWay = first \o << >>
    BY <1>3 DEF SizesUnderWay, first
  <2>2. SizesUnderWay = first
    BY <1>2, <2>1, ConcatEmptySeq
  <2>3. x = y
    BY <1>3 DEF FinalSize, IsNaws, NewestNaws
  <2> QED BY <1>2, <2>2, <2>3
<1>4. CASE naws # {}
  <2>1. PICK i \in DOMAIN queue : NewestNaws(queue, i) /\ queue[i].size = x
    BY <1>4 DEF FinalSize, IsNaws
  <2>2. Max(naws) = i
    <3>1. i \in naws /\ \A j \in naws : j \in Nat /\ i >= j
      BY <1>1, <2>1 DEF NewestNaws, IsNaws
    <3> HIDE DEF naws
    <3>2. \A k \in naws : (\A j \in naws : k >= j) => k = i
      BY <3>1
    <3> QED BY <3>1, <3>2 DEF Max
  <2>3. SizesUnderWay = first \o <<x>>
    BY <1>4, <2>1, <2>2 DEF SizesUnderWay, first
  <2>4. x \in Sizes
    <3>1. i \in 1..Len(queue) /\ queue[i] \in Request
      BY <1>1, <2>1, ElementOfSeq
    <3> QED BY <2>1, <3>1 DEF Request
  <2> HIDE DEF naws
  <2> QED BY <1>2, <2>3, <2>4 DEF Last
<1> QED BY <1>3, <1>4

\* The peer ends up with the codec's window size, whichever of the reader's reply and
\* the resizes comes first (telnet/session.rs, the codec's lock is held while a size is
\* put into the queue).
THEOREM SizeInOrderHolds == TelnetSpec => []SizeInOrder
<1>1. SizeInv => SizeInOrder
  BY LastUnderWay DEF SizeInv, SizeInOrder
<1> QED BY <1>1, SizeBegins, SizeStepKeeps, PTL DEF TelnetSpec

-----------------------------------------------------------------------------
(* The end of a Telnet session.                                            *)

\* What each step of the end has left behind, and what a disconnect waits for.
FinalInv ==
  /\ attempt # "completed" => task = "none" /\ ~listed /\ \A c \in Caller : caller[c] = "new"
  /\ attempt = "completed" => task # "none"
  /\ listed <=> task \notin {"none", "done"}
  /\ task \in {"workspace", "log", "remove", "done"} => terminal = "disconnected"
  /\ task \in {"log", "remove", "done"} => workspace
  /\ \A c \in Caller : caller[c] \in {"clear", "returned"} => task = "done"
  /\ \A c \in Caller : caller[c] = "returned" => log # "active"
  /\ caller \in [Caller -> {"new", "wait", "clear", "returned"}]

LEMMA FinalBegins == TelnetInit => FinalInv
  BY DEF TelnetInit, FinalInv

LEMMA FinalStepKeeps ==
  ASSUME FinalInv, [TelnetNext]_telnetVars
  PROVE  FinalInv'
<1> USE DEF FinalInv, registry, commands, io
<1>1. CASE UNCHANGED telnetVars
  BY <1>1 DEF telnetVars
<1>2. CASE CancelAttempt \/ Register
  BY <1>2 DEF CancelAttempt, Register
<1>3. CASE Stopped \/ ReadEof \/ IoFails
  BY <1>3 DEF Stopped, ReadEof, IoFails, Ends
<1>4. CASE Read \/ Written \/ ReaderParse \/ ReaderAppend \/ ReaderSend \/ TakeRequest
  BY <1>4 DEF Read, Written, ReaderParse, ReaderAppend, ReaderSend, TakeRequest
<1>5. CASE TaskEnd
  BY <1>5 DEF TaskEnd, Notice, MarkTerminal, MarkWorkspace, TaskClearsLog, Unlist, Closed
<1>6. ASSUME NEW r \in Resizer, BeginResize(r) \/ ResizeStep(r) PROVE FinalInv'
  BY <1>6 DEF BeginResize, ResizeStep, LockCodec, Resize, ResizeFails
<1>7. CASE WriteData
  BY <1>7 DEF WriteData
<1>8. ASSUME NEW c \in Caller, Disconnect(c) \/ Waited(c) PROVE FinalInv'
  BY <1>8 DEF Disconnect, Waited
<1>9. ASSUME NEW c \in Caller, CallerClearsLog(c) PROVE FinalInv'
  <2>1. log' # "active"
    BY <1>9 DEF CallerClearsLog, Closed
  <2> QED BY <1>9, <2>1 DEF CallerClearsLog
<1>10. CASE StartLog
  BY <1>10 DEF StartLog
<1> QED BY <1>1, <1>2, <1>3, <1>4, <1>5, <1>6, <1>7, <1>8, <1>9, <1>10 DEF TelnetNext, Task

\* A disconnect returns only when the session is gone everywhere and no log of it is
\* active (telnet/session.rs, disconnect and the end of the task).
THEOREM ReturnedMeansFinalHolds == TelnetSpec => []ReturnedMeansFinal
<1>1. FinalInv => ReturnedMeansFinal
  BY DEF FinalInv, ReturnedMeansFinal
<1> QED BY <1>1, FinalBegins, FinalStepKeeps, PTL DEF TelnetSpec

-----------------------------------------------------------------------------
(* Sequences of bytes that are escaped one by one: FlattenSeq goes from    *)
(* its end, the peer reads from the front.                                 *)

\* Induction over the natural numbers, for a set of them.
LEMMA AllNaturals ==
  ASSUME NEW T \in SUBSET Nat, 0 \in T, \A n \in T : n + 1 \in T
  PROVE  T = Nat
<1> DEFINE R == {p \in Nat \X Nat : p[1] < p[2]}
<1>1. OpToRel(<, Nat) = R
  BY Zenon DEF OpToRel
<1>2. IsWellFoundedOn(R, Nat)
  BY <1>1, NatLessThanWellFounded, Zenon
<1>3. \A x, y \in Nat : y < x => <<y, x>> \in R
  OBVIOUS
<1> HIDE DEF R
<1>4. ASSUME Nat \ T # {} PROVE FALSE
  <2> DEFINE Others == Nat \ T
  <2>1. Others \subseteq Nat /\ Others # {}
    BY <1>4
  <2>2. PICK x \in Others : \A y \in Others : <<y, x>> \notin R
    BY <1>2, <2>1, WFMin
  <2>3. x \in Nat /\ x # 0
    BY <2>2
  <2>4. x - 1 \in Nat /\ x - 1 < x
    BY <2>3
  <2>5. x - 1 \in T
    BY <1>3, <2>2, <2>3, <2>4
  <2>6. (x - 1) + 1 = x
    BY <2>3
  <2> QED BY <2>2, <2>5, <2>6
<1> QED BY <1>4

\* The recursive function of FlattenSeq, over the first n of the sequences.
Flattens(f, s, n) == f = [i \in 1..n |-> IF i = 1 THEN s[i] ELSE f[i - 1] \o s[i]]

\* Two functions that flatten the same sequences agree.
LEMMA FlattensOn ==
  ASSUME NEW f, NEW s, NEW n \in Nat
  PROVE  Flattens(f, s, n) <=>
           /\ f = [i \in 1..n |-> f[i]]
           /\ n >= 1 => f[1] = s[1]
           /\ \A i \in 2..n : f[i] = f[i - 1] \o s[i]
<1> DEFINE E(i) == IF i = 1 THEN s[i] ELSE f[i - 1] \o s[i]
<1>1. Flattens(f, s, n) <=> f = [i \in 1..n |-> E(i)]
  BY Zenon DEF Flattens
<1>2. /\ n >= 1 => E(1) = s[1] /\ 1 \in 1..n
      /\ \A i \in 2..n : E(i) = f[i - 1] \o s[i] /\ i \in 1..n
      /\ \A i \in 1..n : i = 1 \/ i \in 2..n
  <2>1. \A i \in 2..n : i # 1 /\ i \in 1..n
    OBVIOUS
  <2>2. \A i \in 1..n : i = 1 \/ i \in 2..n
    OBVIOUS
  <2>3. n >= 1 => 1 \in 1..n
    OBVIOUS
  <2> QED BY <2>1, <2>2, <2>3, Zenon
<1>3. \A i \in 1..n : i = 1 => n >= 1
  OBVIOUS
<1> HIDE DEF E
<1>4. ASSUME f = [i \in 1..n |-> E(i)]
      PROVE  /\ f = [i \in 1..n |-> f[i]]
             /\ \A i \in 1..n : f[i] = E(i)
  <2>1. \A i \in 1..n : f[i] = E(i)
    BY <1>4, Zenon
  <2> QED BY <1>4, <2>1, Zenon
<1>5. ASSUME f = [i \in 1..n |-> f[i]], \A i \in 1..n : f[i] = E(i)
      PROVE  f = [i \in 1..n |-> E(i)]
  BY <1>5, Zenon
<1> QED BY <1>1, <1>2, <1>3, <1>4, <1>5, Zenon

\* There is one for every number of sequences, by induction on it.
LEMMA FlattensExists ==
  ASSUME NEW s, NEW n \in Nat
  PROVE  \E f : Flattens(f, s, n)
<1> DEFINE T == {m \in Nat : \E f : Flattens(f, s, m)}
<1>1. 0 \in T
  <2>1. Flattens(<< >>, s, 0)
    BY SMT DEF Flattens
  <2> QED BY <2>1
<1>2. ASSUME NEW m \in T PROVE m + 1 \in T
  <2>1. m \in Nat
    OBVIOUS
  <2>2. PICK f : Flattens(f, s, m)
    OBVIOUS
  <2> DEFINE last == IF m = 0 THEN s[1] ELSE f[m] \o s[m + 1]
             g == [i \in 1..(m + 1) |-> IF i = m + 1 THEN last ELSE f[i]]
  <2>3. g = [i \in 1..(m + 1) |-> g[i]]
    OBVIOUS
  <2>4. g[m + 1] = last
    BY <2>1
  <2>5. \A i \in 1..m : g[i] = f[i]
    BY <2>1
  <2>6. m >= 1 => f[1] = s[1]
    BY <2>1, <2>2, FlattensOn
  <2>7. g[1] = s[1]
    <3>1. CASE m = 0
      BY <2>4, <3>1
    <3>2. CASE m >= 1
      BY <2>1, <2>5, <2>6, <3>2
    <3> QED BY <2>1, <3>1, <3>2
  <2>8. ASSUME NEW i \in 2..(m + 1) PROVE g[i] = g[i - 1] \o s[i]
    <3> HIDE DEF g
    <3>1. CASE i = m + 1
      <4>1. m \in 1..m /\ m + 1 = i /\ i - 1 = m /\ m # 0
        BY <2>1, <3>1
      <4> QED BY <2>4, <2>5, <4>1
    <3>2. CASE i # m + 1
      <4>1. i \in 2..m /\ i - 1 \in 1..m /\ i \in 1..m
        BY <2>1, <3>2
      <4>2. f[i] = f[i - 1] \o s[i]
        BY <2>1, <2>2, <4>1, FlattensOn
      <4> QED BY <2>5, <4>1, <4>2
    <3> QED BY <3>1, <3>2
  <2> HIDE DEF g
  <2>9. Flattens(g, s, m + 1)
    <3>1. m + 1 \in Nat
      BY <2>1
    <3> QED BY <2>3, <2>7, <2>8, <3>1, FlattensOn, Zenon
  <2> QED BY <2>1, <2>9
<1> HIDE DEF T
<1>3. T \subseteq Nat
  BY DEF T
<1>4. T = Nat
  BY <1>1, <1>2, <1>3, AllNaturals
<1> QED BY <1>4 DEF T

\* FlattenSeq is its last value.
LEMMA FlattenIs ==
  ASSUME NEW S, NEW s \in Seq(S), s # << >>
  PROVE  \E f : Flattens(f, s, Len(s)) /\ FlattenSeq(s) = f[Len(s)]
<1> DEFINE flat == CHOOSE f : Flattens(f, s, Len(s))
<1>1. Len(s) \in Nat /\ Len(s) # 0
  OBVIOUS
<1>2. Flattens(flat, s, Len(s))
  BY <1>1, FlattensExists
<1>3. FlattenSeq(s) = flat[Len(s)]
  BY <1>1, Zenon DEF FlattenSeq, Flattens
<1> QED BY <1>2, <1>3

\* What it has at each point is a sequence over the same elements.
LEMMA FlattensTypes ==
  ASSUME NEW B, NEW n \in Nat, NEW s, \A i \in 1..n : s[i] \in Seq(B),
         NEW f, Flattens(f, s, n)
  PROVE  \A i \in 1..n : f[i] \in Seq(B)
<1> DEFINE T == {k \in Nat : k \in 1..n => f[k] \in Seq(B)}
<1>2. /\ n >= 1 => f[1] = s[1]
      /\ \A i \in 2..n : f[i] = f[i - 1] \o s[i]
  BY FlattensOn
<1>3. 0 \in T
  OBVIOUS
<1>4. ASSUME NEW k \in T PROVE k + 1 \in T
  <2>1. SUFFICES ASSUME k + 1 \in 1..n PROVE f[k + 1] \in Seq(B)
    OBVIOUS
  <2>2. CASE k = 0
    BY <1>2, <2>1, <2>2
  <2>3. CASE k # 0
    <3>1. k \in 1..n /\ k + 1 \in 2..n /\ (k + 1) - 1 = k
      BY <2>1, <2>3
    <3>2. f[k] \in Seq(B) /\ s[k + 1] \in Seq(B)
      BY <2>1, <3>1
    <3>3. f[k + 1] = f[k] \o s[k + 1]
      BY <1>2, <3>1
    <3> QED BY <3>2, <3>3, ConcatProperties, Zenon
  <2> QED BY <2>2, <2>3
<1>5. T \subseteq Nat
  OBVIOUS
<1>6. \A k \in T : k \in 1..n => f[k] \in Seq(B)
  OBVIOUS
<1>7. \A k \in 1..n : k \in Nat
  OBVIOUS
<1> HIDE DEF T
<1>8. T = Nat
  BY <1>3, <1>4, <1>5, AllNaturals
<1> QED BY <1>6, <1>7, <1>8, Zenon

\* The first of some sequences, then the others flattened.
LEMMA FlattenUnfolds ==
  ASSUME NEW B, NEW S, S = Seq(B), NEW s \in Seq(S), s # << >>
  PROVE  FlattenSeq(s) \in S /\ FlattenSeq(s) = s[1] \o FlattenSeq(Tail(s))
<1>1. PICK f : Flattens(f, s, Len(s)) /\ FlattenSeq(s) = f[Len(s)]
  BY FlattenIs
<1>2. /\ Len(s) \in Nat /\ Len(s) >= 1
      /\ \A i \in 1..Len(s) : s[i] \in S
      /\ 1 \in 1..Len(s) /\ Len(s) \in 1..Len(s)
  OBVIOUS
<1>3. \A i \in 1..Len(s) : f[i] \in Seq(B)
  BY <1>1, <1>2, FlattensTypes, Zenon
<1>4. /\ f[1] = s[1]
      /\ \A i \in 2..Len(s) : f[i] = f[i - 1] \o s[i]
  BY <1>1, <1>2, FlattensOn
<1>5. CASE Len(s) = 1
  <2>1. Tail(s) \in Seq(S) /\ Len(Tail(s)) = 0
    BY <1>2, <1>5
  <2>2. Tail(s) = << >>
    BY <2>1, EmptySeq
  <2>3. FlattenSeq(Tail(s)) = << >>
    BY <2>2 DEF FlattenSeq
  <2>4. s[1] \in Seq(B)
    BY <1>2
  <2>5. s[1] \o << >> = s[1]
    BY <2>4, ConcatEmptySeq, Zenon
  <2>6. FlattenSeq(s) = s[1]
    BY <1>1, <1>4, <1>5
  <2> QED BY <2>3, <2>4, <2>5, <2>6, Zenon
<1>6. CASE Len(s) > 1
  <2>1. \E t : /\ t = Tail(s) /\ t \in Seq(S) /\ t # << >>
               /\ Len(t) = Len(s) - 1
               /\ \A i \in 1..Len(t) : t[i] = s[i + 1]
    <3>1. PICK t : t = Tail(s)
      OBVIOUS
    <3>2. /\ t \in Seq(S) /\ Len(t) = Len(s) - 1
          /\ \A i \in 1..Len(t) : t[i] = s[i + 1]
      BY <3>1, HeadTailProperties, Zenon
    <3>3. \A n \in Nat : n > 1 => n - 1 # 0
      OBVIOUS
    <3>4. t # << >>
      BY <1>2, <1>6, <3>2, <3>3, EmptySeq, Zenon
    <3> QED BY <3>1, <3>2, <3>4
  <2>2. PICK t : /\ t = Tail(s) /\ t \in Seq(S) /\ t # << >>
                 /\ Len(t) = Len(s) - 1
                 /\ \A i \in 1..Len(t) : t[i] = s[i + 1]
    BY <2>1, Zenon
  <2>3. PICK g : Flattens(g, t, Len(t)) /\ FlattenSeq(t) = g[Len(t)]
    BY <2>2, FlattenIs
  <2>4. /\ Len(t) \in Nat /\ Len(t) >= 1 /\ Len(t) \in 1..Len(t) /\ Len(t) + 1 = Len(s)
    BY <1>2, <1>6, <2>2
  <2>5. \A i \in 1..Len(t) : t[i] \in Seq(B)
    <3>1. \A i \in 1..Len(t) : i + 1 \in 1..Len(s)
      BY <1>2, <2>4
    <3> QED BY <1>2, <2>2, <3>1, Zenon
  <2>6. \A i \in 1..Len(t) : g[i] \in Seq(B)
    BY <2>3, <2>4, <2>5, FlattensTypes, Zenon
  <2>7. /\ g[1] = t[1]
        /\ \A i \in 2..Len(t) : g[i] = g[i - 1] \o t[i]
    BY <2>3, <2>4, FlattensOn
  <2> DEFINE T == {n \in Nat : n \in 1..Len(t) => f[n + 1] = s[1] \o g[n]}
  <2>8. 0 \in T
    OBVIOUS
  <2>9. ASSUME NEW n \in T PROVE n + 1 \in T
    <3>0. n \in Nat
      OBVIOUS
    <3>1. SUFFICES ASSUME n + 1 \in 1..Len(t) PROVE f[(n + 1) + 1] = s[1] \o g[n + 1]
      <4>1. n + 1 \in Nat
        BY <3>0
      <4> QED BY <4>1, Zenon
    <3>2. /\ (n + 1) + 1 \in 2..Len(s) /\ ((n + 1) + 1) - 1 = n + 1
          /\ t[n + 1] = s[(n + 1) + 1]
      BY <1>2, <2>2, <2>4, <3>1
    <3>3. f[(n + 1) + 1] = f[n + 1] \o t[n + 1]
      BY <1>4, <3>2
    <3>4. CASE n = 0
      <4>1. f[1] = s[1] /\ g[1] = t[1] /\ n + 1 = 1
        BY <1>4, <2>7, <3>4
      <4> QED BY <3>3, <4>1
    <3>5. CASE n # 0
      <4>1. n \in 1..Len(t) /\ n + 1 \in 2..Len(t) /\ (n + 1) - 1 = n
        BY <2>4, <3>1, <3>5
      <4>2. f[n + 1] = s[1] \o g[n] /\ g[n + 1] = g[n] \o t[n + 1]
        BY <2>7, <4>1
      <4>3. s[1] \in Seq(B) /\ g[n] \in Seq(B) /\ t[n + 1] \in Seq(B)
        BY <1>2, <2>5, <2>6, <3>1, <4>1, Zenon
      <4>4. (s[1] \o g[n]) \o t[n + 1] = s[1] \o (g[n] \o t[n + 1])
        <5>1. \A x, y, z \in Seq(B) : (x \o y) \o z = x \o (y \o z)
          BY ConcatAssociative
        <5> QED BY <4>3, <5>1, Zenon
      <4> QED BY <3>3, <4>2, <4>4, Zenon
    <3> QED BY <3>4, <3>5
  <2>10. T \subseteq Nat
    OBVIOUS
  <2>11. \A n \in T : n \in 1..Len(t) => f[n + 1] = s[1] \o g[n]
    OBVIOUS
  <2> HIDE DEF T
  <2>12. T = Nat
    BY <2>8, <2>9, <2>10, AllNaturals
  <2>13. f[Len(s)] = s[1] \o g[Len(t)]
    BY <2>4, <2>11, <2>12, Zenon
  <2>14. f[Len(s)] \in S
    BY <1>2, <1>3
  <2> QED BY <1>1, <2>2, <2>3, <2>13, <2>14
<1>7. Len(s) = 1 \/ Len(s) > 1
  <2>1. \A n \in Nat : n >= 1 => n = 1 \/ n > 1
    OBVIOUS
  <2> QED BY <1>2, <2>1, Zenon
<1> QED BY <1>5, <1>6, <1>7

\* escape_iac_bytes goes byte by byte.
LEMMA EscapeUnfolds ==
  ASSUME NEW bytes \in Seq(Byte)
  PROVE  /\ EscapeIac(bytes) \in Seq(Byte)
         /\ bytes = << >> => EscapeIac(bytes) = << >>
         /\ bytes # << >> =>
              EscapeIac(bytes) = EscapeByte(Head(bytes)) \o EscapeIac(Tail(bytes))
<1> DEFINE Pieces(b) == [i \in DOMAIN b |-> EscapeByte(b[i])]
<1>1. PICK S : S = Seq(Byte)
  OBVIOUS
<1>2. \A b \in Byte : EscapeByte(b) \in S
  <2>1. TAKE b \in Byte
  <2>2. Iac \in Byte
    BY DEF Iac, Byte
  <2>3. <<b>> \in Seq(Byte) /\ <<Iac, Iac>> \in Seq(Byte)
    BY <2>2
  <2> QED BY <1>1, <2>3 DEF EscapeByte
<1>3. \A b \in Seq(Byte) : Pieces(b) \in Seq(S) /\ Len(Pieces(b)) = Len(b)
  <2> SUFFICES ASSUME NEW b \in Seq(Byte)
               PROVE  Pieces(b) \in Seq(S) /\ Len(Pieces(b)) = Len(b)
    OBVIOUS
  <2>1. DOMAIN b = 1..Len(b) /\ Len(b) \in Nat /\ \A i \in 1..Len(b) : b[i] \in Byte
    OBVIOUS
  <2>2. \A i \in 1..Len(b) : EscapeByte(b[i]) \in S
    BY <1>2, <2>1
  <2> QED BY <2>1, <2>2
<1>4. CASE bytes = << >>
  <2>1. Len(Pieces(bytes)) = 0 /\ Pieces(bytes) \in Seq(S)
    BY <1>3, <1>4
  <2> HIDE DEF Pieces
  <2>2. Pieces(bytes) = << >>
    BY <2>1, EmptySeq
  <2>3. EscapeIac(bytes) = << >>
    BY <2>2 DEF EscapeIac, FlattenSeq, Pieces
  <2> QED BY <1>4, <2>3
<1>5. CASE bytes # << >>
  <2>1. /\ Tail(bytes) \in Seq(Byte) /\ Len(bytes) >= 1 /\ Len(bytes) \in Nat
        /\ Len(Tail(bytes)) = Len(bytes) - 1 /\ Head(bytes) = bytes[1]
        /\ \A i \in 1..Len(bytes) - 1 : Tail(bytes)[i] = bytes[i + 1]
        /\ DOMAIN bytes = 1..Len(bytes) /\ DOMAIN Tail(bytes) = 1..Len(bytes) - 1
    BY <1>5
  <2>2. /\ Pieces(bytes) \in Seq(S) /\ Len(Pieces(bytes)) = Len(bytes)
        /\ Pieces(Tail(bytes)) \in Seq(S) /\ Len(Pieces(Tail(bytes))) = Len(bytes) - 1
    BY <1>3, <2>1
  <2>3. Pieces(bytes)[1] = EscapeByte(Head(bytes))
    BY <2>1
  <2>4. \A i \in 1..Len(bytes) - 1 : Pieces(Tail(bytes))[i] = Pieces(bytes)[i + 1]
    <3>1. \A i \in 1..Len(bytes) - 1 : i + 1 \in 1..Len(bytes)
      BY <2>1
    <3> QED BY <2>1, <3>1
  <2> HIDE DEF Pieces
  <2>5. PICK whole : whole = Pieces(bytes)
    OBVIOUS
  <2>6. PICK rest : rest = Pieces(Tail(bytes))
    OBVIOUS
  <2>7. /\ whole \in Seq(S) /\ Len(whole) = Len(bytes) /\ whole # << >>
        /\ rest \in Seq(S) /\ Len(rest) = Len(bytes) - 1
        /\ \A i \in 1..Len(bytes) - 1 : rest[i] = whole[i + 1]
    <3>1. \A n \in Nat : n >= 1 => n # 0
      OBVIOUS
    <3>2. whole # << >>
      BY <2>1, <2>2, <2>5, <3>1, EmptySeq, Zenon
    <3> QED BY <2>2, <2>4, <2>5, <2>6, <3>2, Zenon
  <2>8. Tail(whole) = rest
    BY <2>1, <2>7
  <2>9. FlattenSeq(whole) \in S /\ FlattenSeq(whole) = whole[1] \o FlattenSeq(Tail(whole))
    BY <1>1, <2>7, FlattenUnfolds, Zenon
  <2>10. EscapeIac(bytes) = FlattenSeq(whole) /\ EscapeIac(Tail(bytes)) = FlattenSeq(rest)
    BY <2>5, <2>6 DEF EscapeIac, Pieces
  <2> QED BY <1>1, <1>5, <2>3, <2>5, <2>8, <2>9, <2>10, Zenon
<1> QED BY <1>4, <1>5

-----------------------------------------------------------------------------
(* Bytes, and sequences of a few.                                          *)

\* What the codec writes are bytes, and its commands are told apart.
LEMMA Bytes ==
  /\ Iac \in Byte /\ Sb \in Byte /\ Se \in Byte /\ OptNaws \in Byte /\ Verbs \subseteq Byte
  /\ {OptEcho, OptSuppressGoAhead, OptTerminalType, TypeIs, TypeSend} \subseteq Byte
  /\ NoCommand \in Byte
  /\ Iac # Se /\ Iac # Sb /\ Iac \notin Verbs /\ Sb \notin Verbs /\ Se \notin Verbs
BY DEF Byte, Iac, Sb, Se, OptNaws, Verbs, Do, Dont, Will, Wont, OptEcho,
       OptSuppressGoAhead, OptTerminalType, TypeIs, TypeSend, NoCommand

\* One element, then a sequence: what is first, and what is left.
LEMMA ConsSplits ==
  ASSUME NEW B, NEW b \in B, NEW x \in Seq(B)
  PROVE  /\ <<b>> \o x \in Seq(B) /\ <<b>> \o x # << >>
         /\ Head(<<b>> \o x) = b /\ Tail(<<b>> \o x) = x
<1>1. <<b>> \in Seq(B) /\ Len(<<b>>) = 1
  OBVIOUS
<1>2. PICK z : z = <<b>> \o x
  OBVIOUS
<1>3. /\ z \in Seq(B) /\ Len(z) = 1 + Len(x)
      /\ \A i \in 1..(1 + Len(x)) : z[i] = IF i <= 1 THEN <<b>>[i] ELSE x[i - 1]
  BY <1>1, <1>2, ConcatProperties, Zenon
<1>4. Len(x) \in Nat
  OBVIOUS
<1>5. z # << >> /\ Head(z) = b
  BY <1>3, <1>4
<1>6. Tail(z) = x
  <2>1. /\ Tail(z) \in Seq(B) /\ Len(Tail(z)) = Len(x)
        /\ \A i \in 1..Len(x) : Tail(z)[i] = z[i + 1]
    BY <1>3, <1>4, <1>5
  <2>2. \A i \in 1..Len(x) : z[i + 1] = x[i]
    BY <1>3, <1>4
  <2> QED BY <2>1, <2>2, SeqEqual
<1> QED BY <1>2, <1>3, <1>5, <1>6

\* Two sequences are one when its elements are theirs.
LEMMA JoinIs ==
  ASSUME NEW B, NEW s \in Seq(B), NEW t \in Seq(B), NEW u \in Seq(B),
         Len(u) = Len(s) + Len(t),
         \A i \in 1..Len(u) : u[i] = IF i <= Len(s) THEN s[i] ELSE t[i - Len(s)]
  PROVE  u = s \o t
<1>1. /\ s \o t \in Seq(B) /\ Len(s \o t) = Len(u)
      /\ \A i \in 1..Len(u) : (s \o t)[i] = IF i <= Len(s) THEN s[i] ELSE t[i - Len(s)]
  BY ConcatProperties
<1> DEFINE z == s \o t
<1>2. z \in Seq(B) /\ Len(z) = Len(u) /\ \A i \in 1..Len(z) : z[i] = u[i]
  BY <1>1, Zenon
<1> HIDE DEF z
<1>3. z = u
  BY <1>2, SeqEqual
<1> QED BY <1>3 DEF z

\* Two elements are one, then one.
LEMMA JoinPair ==
  ASSUME NEW B, NEW a \in B, NEW b \in B
  PROVE  /\ <<a, b>> \in Seq(B) /\ <<a>> \in Seq(B) /\ <<b>> \in Seq(B)
         /\ <<a, b>> = <<a>> \o <<b>>
<1> DEFINE u == <<a, b>>
           s == <<a>>
           t == <<b>>
<1>1. u \in Seq(B) /\ s \in Seq(B) /\ t \in Seq(B)
  OBVIOUS
<1>2. Len(u) = 2 /\ Len(s) = 1 /\ Len(t) = 1
  OBVIOUS
<1>3. \A i \in 1..2 : u[i] = IF i <= 1 THEN s[i] ELSE t[i - 1]
  OBVIOUS
<1> HIDE DEF u, s, t
<1>4. \A i \in 1..Len(u) : u[i] = IF i <= Len(s) THEN s[i] ELSE t[i - Len(s)]
  BY <1>2, <1>3
<1>5. Len(u) = Len(s) + Len(t)
  BY <1>2
<1>6. u = s \o t
  BY <1>1, <1>4, <1>5, JoinIs, Zenon
<1> QED BY <1>1, <1>6 DEF u, s, t

\* Three elements are one, then two.
LEMMA JoinTriple ==
  ASSUME NEW B, NEW a \in B, NEW b \in B, NEW c \in B
  PROVE  /\ <<a, b, c>> \in Seq(B) /\ <<a>> \in Seq(B) /\ <<b, c>> \in Seq(B)
         /\ <<a, b, c>> = <<a>> \o <<b, c>>
<1> DEFINE u == <<a, b, c>>
           s == <<a>>
           t == <<b, c>>
<1>1. u \in Seq(B) /\ s \in Seq(B) /\ t \in Seq(B)
  OBVIOUS
<1>2. Len(u) = 3 /\ Len(s) = 1 /\ Len(t) = 2
  OBVIOUS
<1>3. \A i \in 1..3 : u[i] = IF i <= 1 THEN s[i] ELSE t[i - 1]
  OBVIOUS
<1> HIDE DEF u, s, t
<1>4. \A i \in 1..Len(u) : u[i] = IF i <= Len(s) THEN s[i] ELSE t[i - Len(s)]
  BY <1>2, <1>3
<1>5. Len(u) = Len(s) + Len(t)
  BY <1>2
<1>6. u = s \o t
  BY <1>1, <1>4, <1>5, JoinIs, Zenon
<1> QED BY <1>1, <1>6 DEF u, s, t

\* They are two, then one, too.
LEMMA JoinLast ==
  ASSUME NEW B, NEW a \in B, NEW b \in B, NEW c \in B
  PROVE  /\ <<a, b, c>> \in Seq(B) /\ <<a, b>> \in Seq(B) /\ <<c>> \in Seq(B)
         /\ <<a, b, c>> = <<a, b>> \o <<c>>
<1> DEFINE u == <<a, b, c>>
           s == <<a, b>>
           t == <<c>>
<1>1. u \in Seq(B) /\ s \in Seq(B) /\ t \in Seq(B)
  OBVIOUS
<1>2. Len(u) = 3 /\ Len(s) = 2 /\ Len(t) = 1
  OBVIOUS
<1>3. \A i \in 1..3 : u[i] = IF i <= 2 THEN s[i] ELSE t[i - 2]
  OBVIOUS
<1> HIDE DEF u, s, t
<1>4. \A i \in 1..Len(u) : u[i] = IF i <= Len(s) THEN s[i] ELSE t[i - Len(s)]
  BY <1>2, <1>3
<1>5. Len(u) = Len(s) + Len(t)
  BY <1>2
<1>6. u = s \o t
  BY <1>1, <1>4, <1>5, JoinIs, Zenon
<1> QED BY <1>1, <1>6 DEF u, s, t

\* Four elements are one, then three.
LEMMA JoinQuad ==
  ASSUME NEW B, NEW a \in B, NEW b \in B, NEW c \in B, NEW d \in B
  PROVE  /\ <<a, b, c, d>> \in Seq(B) /\ <<a, b>> \in Seq(B) /\ <<c, d>> \in Seq(B)
         /\ <<a, b, c, d>> = <<a, b>> \o <<c, d>>
<1> DEFINE u == <<a, b, c, d>>
           s == <<a, b>>
           t == <<c, d>>
<1>1. u \in Seq(B) /\ s \in Seq(B) /\ t \in Seq(B)
  OBVIOUS
<1>2. Len(u) = 4 /\ Len(s) = 2 /\ Len(t) = 2
  OBVIOUS
<1>3. \A i \in 1..4 : u[i] = IF i <= 2 THEN s[i] ELSE t[i - 2]
  OBVIOUS
<1> HIDE DEF u, s, t
<1>4. \A i \in 1..Len(u) : u[i] = IF i <= Len(s) THEN s[i] ELSE t[i - Len(s)]
  BY <1>2, <1>3
<1>5. Len(u) = Len(s) + Len(t)
  BY <1>2
<1>6. u = s \o t
  BY <1>1, <1>4, <1>5, JoinIs, Zenon
<1> QED BY <1>1, <1>6 DEF u, s, t

\* Two elements before a sequence are one, then the other.
LEMMA ConsTwice ==
  ASSUME NEW B, NEW a \in B, NEW b \in B, NEW x \in Seq(B)
  PROVE  <<a, b>> \o x = <<a>> \o (<<b>> \o x)
<1>1. <<a, b>> = <<a>> \o <<b>> /\ <<a>> \in Seq(B) /\ <<b>> \in Seq(B)
  BY JoinPair, Zenon
<1>2. \A u, v, w \in Seq(B) : (u \o v) \o w = u \o (v \o w)
  BY ConcatAssociative
<1>3. (<<a>> \o <<b>>) \o x = <<a>> \o (<<b>> \o x)
  BY <1>1, <1>2
<1> QED BY <1>1, <1>3

\* Bytes to come, and those read: the first to come may be moved over.
LEMMA MovesOver ==
  ASSUME NEW B, NEW s \in Seq(B), NEW rest \in Seq(B), rest # << >>
  PROVE  /\ Head(rest) \in B /\ Tail(rest) \in Seq(B)
         /\ Append(s, Head(rest)) \in Seq(B)
         /\ Append(s, Head(rest)) \o Tail(rest) = s \o rest
<1>1. /\ Head(rest) \in B /\ Tail(rest) \in Seq(B)
      /\ Append(s, Head(rest)) \in Seq(B) /\ <<Head(rest)>> \in Seq(B)
  OBVIOUS
<1>2. Append(s, Head(rest)) = s \o <<Head(rest)>>
  BY <1>1
<1>3. rest = <<Head(rest)>> \o Tail(rest)
  <2> DEFINE s1 == <<Head(rest)>>
             t1 == Tail(rest)
  <2>1. s1 \in Seq(B) /\ t1 \in Seq(B) /\ Len(s1) = 1 /\ Len(rest) = 1 + Len(t1)
    BY <1>1
  <2>2. \A i \in 1..Len(rest) : rest[i] = IF i <= 1 THEN s1[i] ELSE t1[i - 1]
    BY <1>1
  <2> HIDE DEF s1, t1
  <2>3. rest = s1 \o t1
    <3>1. /\ Len(rest) = Len(s1) + Len(t1)
          /\ \A i \in 1..Len(rest) : rest[i] = IF i <= Len(s1) THEN s1[i] ELSE t1[i - Len(s1)]
      BY <2>1, <2>2
    <3> QED BY <2>1, <3>1, JoinIs, Zenon
  <2> QED BY <2>3 DEF s1, t1
<1>4. \A u, v, w \in Seq(B) : (u \o v) \o w = u \o (v \o w)
  BY ConcatAssociative
<1>5. (s \o <<Head(rest)>>) \o Tail(rest) = s \o (<<Head(rest)>> \o Tail(rest))
  BY <1>1, <1>4
<1> QED BY <1>1, <1>2, <1>3, <1>5

\* A byte is sent as it is, or twice.
LEMMA EscapesByte ==
  ASSUME NEW rest \in Seq(Byte)
  PROVE  /\ EscapeIac(rest) \in Seq(Byte)
         /\ rest = << >> => EscapeIac(rest) = << >>
         /\ rest # << >> /\ Head(rest) # Iac =>
              EscapeIac(rest) = <<Head(rest)>> \o EscapeIac(Tail(rest))
         /\ rest # << >> /\ Head(rest) = Iac =>
              EscapeIac(rest) = <<Iac>> \o (<<Iac>> \o EscapeIac(Tail(rest)))
<1>1. rest # << >> => Tail(rest) \in Seq(Byte) /\ Head(rest) \in Byte
  OBVIOUS
<1>2. rest # << >> => EscapeIac(Tail(rest)) \in Seq(Byte)
  BY <1>1, EscapeUnfolds
<1>3. \A x \in Seq(Byte) : <<Iac, Iac>> \o x = <<Iac>> \o (<<Iac>> \o x)
  BY Bytes, ConsTwice
<1> QED BY <1>2, <1>3, EscapeUnfolds DEF EscapeByte

\* What a subnegotiation is sent as.
Frame(held) == <<Iac, Sb>> \o (EscapeIac(held) \o <<Iac, Se>>)

\* What build_naws and build_terminal_type put into one.
TellsSize(cols, rows) ==
  <<OptNaws>> \o <<cols \div 256, cols % 256, rows \div 256, rows % 256>>
TellsType == <<OptTerminalType, TypeIs>> \o XTerm

\* A size, after clamp_dimension.
Dimension == {n \in Nat : 1 <= n /\ n <= 65535}

\* A dimension of 1 to 65535 is told by two bytes.
LEMMA SizeFits ==
  ASSUME NEW n \in Dimension
  PROVE  /\ n \div 256 \in Byte /\ n % 256 \in Byte
         /\ (n \div 256) * 256 + (n % 256) = n
<1>1. n \in Nat /\ n <= 65535
  BY DEF Dimension
<1>2. \A k \in Nat : k <= 255 => k \in Byte
  BY DEF Byte
<1>3. n \div 256 \in Nat /\ n \div 256 <= 255 /\ n % 256 \in Nat /\ n % 256 <= 255
  BY <1>1
<1>4. (n \div 256) * 256 + (n % 256) = n
  BY <1>1
<1> QED BY <1>2, <1>3, <1>4

\* A byte that is no IAC is sent as it is.
LEMMA PlainBytes ==
  ASSUME NEW b \in Byte, b # Iac, NEW x \in Seq(Byte)
  PROVE  EscapeIac(<<b>> \o x) = <<b>> \o EscapeIac(x)
<1>1. PICK z : z = <<b>> \o x
  OBVIOUS
<1>2. z \in Seq(Byte) /\ z # << >> /\ Head(z) = b /\ Tail(z) = x
  BY <1>1, ConsSplits, Zenon
<1> QED BY <1>1, <1>2, EscapesByte, Zenon

\* build_naws is the subnegotiation that holds the size.
LEMMA NawsFrame ==
  ASSUME NEW cols \in Dimension, NEW rows \in Dimension,
         NEW held, held = TellsSize(cols, rows)
  PROVE  /\ held \in Seq(Byte) /\ Len(held) = 5 /\ held[1] = OptNaws
         /\ held[2] * 256 + held[3] = cols /\ held[4] * 256 + held[5] = rows
         /\ Naws(cols, rows) = Frame(held)
<1>1. OptNaws \in Byte /\ OptNaws # Iac /\ Iac \in Byte /\ Sb \in Byte /\ Se \in Byte
  BY DEF OptNaws, Iac, Sb, Se, Byte
<1>2. /\ cols \div 256 \in Byte /\ cols % 256 \in Byte
      /\ rows \div 256 \in Byte /\ rows % 256 \in Byte
      /\ (cols \div 256) * 256 + (cols % 256) = cols
      /\ (rows \div 256) * 256 + (rows % 256) = rows
  BY SizeFits
<1> DEFINE four == <<cols \div 256, cols % 256, rows \div 256, rows % 256>>
<1>3. /\ four \in Seq(Byte) /\ Len(four) = 4
      /\ four[1] * 256 + four[2] = cols /\ four[3] * 256 + four[4] = rows
  BY <1>2
<1>4. held = <<OptNaws>> \o four
  BY DEF TellsSize
<1>5. Naws(cols, rows) = (<<Iac, Sb, OptNaws>> \o EscapeIac(four)) \o <<Iac, Se>>
  BY DEF Naws
<1> HIDE DEF four
<1>6. /\ <<OptNaws>> \in Seq(Byte) /\ Len(<<OptNaws>>) = 1 /\ <<OptNaws>>[1] = OptNaws
  BY <1>1
<1>7. /\ held \in Seq(Byte) /\ Len(held) = 5
      /\ held[1] = OptNaws /\ held[2] = four[1] /\ held[3] = four[2]
      /\ held[4] = four[3] /\ held[5] = four[4]
  <2> DEFINE one == <<OptNaws>>
  <2>1. one \in Seq(Byte) /\ held = one \o four /\ Len(one) = 1 /\ one[1] = OptNaws
    BY <1>4, <1>6
  <2> HIDE DEF one
  <2>2. /\ one \o four \in Seq(Byte) /\ Len(one \o four) = Len(one) + Len(four)
        /\ \A i \in 1..(Len(one) + Len(four)) :
             (one \o four)[i] = IF i <= Len(one) THEN one[i] ELSE four[i - Len(one)]
    BY <1>3, <2>1, ConcatProperties, Zenon
  <2>3. /\ held \in Seq(Byte) /\ Len(held) = 5
        /\ \A i \in 1..5 : held[i] = IF i <= 1 THEN one[i] ELSE four[i - 1]
    BY <1>3, <2>1, <2>2
  <2> QED BY <2>1, <2>3
<1> DEFINE sent == EscapeIac(four)
<1>8. sent \in Seq(Byte)
  BY <1>3, EscapesByte, Zenon
<1>9. EscapeIac(held) = <<OptNaws>> \o sent
  BY <1>1, <1>3, <1>4, PlainBytes
<1>10. <<Iac, Sb, OptNaws>> = <<Iac, Sb>> \o <<OptNaws>> /\ <<Iac, Sb>> \in Seq(Byte)
  BY <1>1, JoinLast
<1>11. <<Iac, Se>> \in Seq(Byte)
  BY <1>1, JoinPair
<1> HIDE DEF sent
<1>12. <<OptNaws>> \o sent \in Seq(Byte)
  BY <1>1, <1>8, ConsSplits, Zenon
<1>13. \A u, v, w \in Seq(Byte) : (u \o v) \o w = u \o (v \o w)
  BY ConcatAssociative
<1>14. (<<Iac, Sb, OptNaws>> \o sent) \o <<Iac, Se>>
         = <<Iac, Sb>> \o ((<<OptNaws>> \o sent) \o <<Iac, Se>>)
  BY <1>6, <1>8, <1>10, <1>11, <1>12, <1>13
<1>15. held[2] * 256 + held[3] = cols /\ held[4] * 256 + held[5] = rows
  <2>1. four[1] \in Nat /\ four[2] \in Nat /\ four[3] \in Nat /\ four[4] \in Nat
    <3>1. \A b \in Byte : b \in Nat
      BY DEF Byte
    <3>2. \A i \in 1..4 : four[i] \in Byte
      BY <1>3, ElementOfSeq
    <3> QED BY <3>1, <3>2
  <2> QED BY <1>3, <1>7, <2>1
<1>16. Naws(cols, rows) = Frame(held)
  BY <1>5, <1>9, <1>14 DEF Frame, sent
<1> QED BY <1>7, <1>15, <1>16

\* build_terminal_type is the one that holds the name of the terminal.
LEMMA TypeFrame ==
  /\ TellsType \in Seq(Byte) /\ Len(TellsType) = 4 /\ TellsType[1] # OptNaws
  /\ TerminalType = Frame(TellsType)
<1>1. /\ {24, 0, 120, 116} \subseteq Byte /\ Iac \in Byte /\ Sb \in Byte /\ Se \in Byte
      /\ 24 # Iac /\ 0 # Iac /\ 120 # Iac /\ 116 # Iac
      /\ OptTerminalType = 24 /\ TypeIs = 0 /\ 24 # OptNaws
  BY DEF Byte, Iac, Sb, Se, OptTerminalType, TypeIs, OptNaws
<1>2. /\ <<24, 0>> \in Seq(Byte) /\ <<120, 116>> \in Seq(Byte) /\ <<116>> \in Seq(Byte)
      /\ <<120, 116>> = <<120>> \o <<116>>
      /\ <<Iac, Sb>> \in Seq(Byte) /\ <<Iac, Se>> \in Seq(Byte)
      /\ <<Iac, Sb, 24, 0>> = <<Iac, Sb>> \o <<24, 0>>
  <2>1. 24 \in Byte /\ 0 \in Byte /\ 120 \in Byte /\ 116 \in Byte
    BY <1>1
  <2>2. <<120, 116>> \in Seq(Byte) /\ <<116>> \in Seq(Byte) /\ <<120, 116>> = <<120>> \o <<116>>
    BY <2>1, JoinPair, Zenon
  <2>3. /\ <<Iac, Sb>> \in Seq(Byte) /\ <<24, 0>> \in Seq(Byte)
        /\ <<Iac, Sb, 24, 0>> = <<Iac, Sb>> \o <<24, 0>>
    BY <1>1, <2>1, JoinQuad
  <2>4. <<Iac, Se>> \in Seq(Byte)
    BY <1>1, JoinPair, Zenon
  <2> QED BY <2>2, <2>3, <2>4
<1>3. EscapeIac(<< >>) = << >> /\ << >> \in Seq(Byte)
  BY EscapesByte, EmptySeq, Zenon
<1>4. <<116>> = <<116>> \o << >>
  BY <1>2, ConcatEmptySeq, Zenon
<1>5. EscapeIac(<<120, 116>>) = <<120, 116>>
  <2>1. EscapeIac(<<116>> \o << >>) = <<116>> \o EscapeIac(<< >>)
    BY <1>1, <1>3, PlainBytes
  <2>2. EscapeIac(<<116>>) = <<116>>
    BY <1>3, <1>4, <2>1
  <2>3. EscapeIac(<<120>> \o <<116>>) = <<120>> \o EscapeIac(<<116>>)
    BY <1>1, <1>2, PlainBytes
  <2> QED BY <1>2, <2>2, <2>3
<1>6. <<24, 0>> \o <<120, 116>> = <<24>> \o (<<0>> \o <<120, 116>>)
  BY <1>1, <1>2, ConsTwice
<1>7. <<0>> \o <<120, 116>> \in Seq(Byte) /\ <<24>> \o (<<0>> \o <<120, 116>>) \in Seq(Byte)
  BY <1>1, <1>2, ConsSplits, Zenon
<1>8. EscapeIac(<<24, 0>> \o <<120, 116>>) = <<24, 0>> \o <<120, 116>>
  <2>1. EscapeIac(<<0>> \o <<120, 116>>) = <<0>> \o EscapeIac(<<120, 116>>)
    BY <1>1, <1>2, PlainBytes
  <2>2. EscapeIac(<<24>> \o (<<0>> \o <<120, 116>>)) = <<24>> \o EscapeIac(<<0>> \o <<120, 116>>)
    <3> DEFINE rest == <<0>> \o <<120, 116>>
    <3>1. rest \in Seq(Byte) /\ 24 \in Byte
      BY <1>1, <1>7
    <3> HIDE DEF rest
    <3>2. EscapeIac(<<24>> \o rest) = <<24>> \o EscapeIac(rest)
      BY <1>1, <3>1, PlainBytes
    <3> QED BY <3>2 DEF rest
  <2> QED BY <1>5, <1>6, <2>1, <2>2
<1>9. TellsType = <<24, 0>> \o <<120, 116>>
  BY <1>1, Zenon DEF TellsType, XTerm
<1>10. TerminalType = (<<Iac, Sb, 24, 0>> \o <<120, 116>>) \o <<Iac, Se>>
  BY <1>1, Zenon DEF TerminalType, XTerm
<1>11. \A u, v, w \in Seq(Byte) : (u \o v) \o w = u \o (v \o w)
  BY ConcatAssociative
<1>12. TerminalType = <<Iac, Sb>> \o ((<<24, 0>> \o <<120, 116>>) \o <<Iac, Se>>)
  BY <1>2, <1>6, <1>7, <1>10, <1>11
<1>13. Len(TellsType) = 4 /\ TellsType[1] = 24
  <2>1. Len(<<24, 0>>) = 2 /\ Len(<<120, 116>>) = 2 /\ <<24, 0>>[1] = 24
    OBVIOUS
  <2> QED BY <1>2, <1>9, <2>1, ConcatProperties
<1> QED BY <1>1, <1>6, <1>7, <1>8, <1>9, <1>12, <1>13 DEF Frame

-----------------------------------------------------------------------------
(* What is written: the user's input, options and subnegotiations.         *)

\* What a subnegotiation holds, with the size it tells.
FrameTells(held, dims) ==
  \/ \E cols, rows \in Dimension : held = TellsSize(cols, rows) /\ dims = <<cols, rows>>
  \/ held = TellsType /\ dims = Untold

\* What may follow an option.
Follows(bytes, dims) ==
  \/ bytes = << >> /\ dims = Untold
  \/ \E held \in Seq(Byte) : FrameTells(held, dims) /\ bytes = Frame(held)

\* The three messages of the program.
IsText(m) == \E text \in Seq(Byte) : m = Message(EscapeIac(text), text, Untold)

IsOptionReply(m) ==
  \E verb \in Verbs, option \in Byte, bytes \in Seq(Byte) :
    m = Message(<<Iac, verb, option>> \o bytes, << >>, m.size) /\ Follows(bytes, m.size)

IsFrame(m) ==
  \E held \in Seq(Byte) : m = Message(Frame(held), << >>, m.size) /\ FrameTells(held, m.size)

\* What has the form of a message, and what the program does write.
Messages == [bytes : Seq(Byte), text : Seq(Byte), size : (Nat \X Nat) \cup {Untold}]

Sayable == {m \in Messages :
              IsText(m) \/ IsOptionReply(m) \/ IsFrame(m)}

\* The states of the parser, and its values.
States == {"data", "iac", "negotiation", "sub", "subIac", "discard", "discardIac"}

Parsers == [state : States, command : Byte, sub : Seq(Byte), cols : Dimension,
            rows : Dimension, limit : Nat, data : Seq(Byte), response : Seq(Sayable)]

\* A subnegotiation begins with IAC SB.
LEMMA FrameTypes ==
  ASSUME NEW held \in Seq(Byte)
  PROVE  /\ EscapeIac(held) \o <<Iac, Se>> \in Seq(Byte)
         /\ Frame(held) \in Seq(Byte) /\ Frame(held) # << >>
         /\ Frame(held) = <<Iac>> \o (<<Sb>> \o (EscapeIac(held) \o <<Iac, Se>>))
<1>1. Iac \in Byte /\ Sb \in Byte /\ Se \in Byte
  BY Bytes
<1>2. <<Iac, Sb>> \in Seq(Byte) /\ <<Iac, Se>> \in Seq(Byte)
  BY <1>1
<1>3. EscapeIac(held) \in Seq(Byte)
  BY EscapesByte
<1> DEFINE rest == EscapeIac(held) \o <<Iac, Se>>
<1>4. rest \in Seq(Byte)
  BY <1>2, <1>3, ConcatProperties, Zenon
<1>5. Frame(held) = <<Iac, Sb>> \o rest
  BY DEF Frame
<1> HIDE DEF rest
<1>6. Frame(held) = <<Iac>> \o (<<Sb>> \o rest)
  <2>1. \A x \in Seq(Byte) : <<Iac, Sb>> \o x = <<Iac>> \o (<<Sb>> \o x)
    BY <1>1, ConsTwice
  <2> QED BY <1>4, <1>5, <2>1
<1>7. <<Sb>> \o rest \in Seq(Byte)
  BY <1>1, <1>4, ConsSplits, Zenon
<1>8. \A b \in Byte, x \in Seq(Byte) : <<b>> \o x \in Seq(Byte) /\ <<b>> \o x # << >>
  BY ConsSplits
<1>9. Frame(held) \in Seq(Byte) /\ Frame(held) # << >>
  BY <1>1, <1>6, <1>7, <1>8
<1> QED BY <1>4, <1>6, <1>9 DEF rest

\* A subnegotiation of the program is one that any peer keeps.
LEMMA FrameTellsTypes ==
  ASSUME NEW held, NEW dims, FrameTells(held, dims)
  PROVE  /\ held \in Seq(Byte) /\ Len(held) \in 4..5 /\ dims \in (Nat \X Nat) \cup {Untold}
         /\ Len(held) = 5 /\ held[1] = OptNaws =>
              dims = <<held[2] * 256 + held[3], held[4] * 256 + held[5]>>
         /\ ~(Len(held) = 5 /\ held[1] = OptNaws) => dims = Untold
<1>1. CASE \E cols, rows \in Dimension : held = TellsSize(cols, rows) /\ dims = <<cols, rows>>
  <2>1. PICK cols \in Dimension, rows \in Dimension :
          held = TellsSize(cols, rows) /\ dims = <<cols, rows>>
    BY <1>1
  <2>2. /\ held \in Seq(Byte) /\ Len(held) = 5 /\ held[1] = OptNaws
        /\ held[2] * 256 + held[3] = cols /\ held[4] * 256 + held[5] = rows
    BY <2>1, NawsFrame
  <2>3. cols \in Nat /\ rows \in Nat
    BY DEF Dimension
  <2>4. dims \in Nat \X Nat
    BY <2>1, <2>3
  <2> QED BY <2>1, <2>2, <2>4
<1>2. CASE held = TellsType /\ dims = Untold
  BY <1>2, TypeFrame
<1> QED BY <1>1, <1>2 DEF FrameTells

\* Messages are made of these parts.
LEMMA MessageTypes ==
  ASSUME NEW bytes \in Seq(Byte), NEW dims \in (Nat \X Nat) \cup {Untold}
  PROVE  [bytes |-> bytes, text |-> << >>, size |-> dims] \in Messages
<1>1. << >> \in Seq(Byte)
  OBVIOUS
<1> QED BY <1>1 DEF Messages

\* negotiate writes an option, and a size after it when it is asked for one.
LEMMA OptionReplySayable ==
  ASSUME NEW command \in Byte, NEW option \in Byte, NEW cols \in Dimension, NEW rows \in Dimension
  PROVE  OptionReply(command, option, cols, rows) \in Sayable
<1> DEFINE m == OptionReply(command, option, cols, rows)
           answer == Negotiate(command, option, cols, rows)
           dims == SizeTold(command, option, cols, rows)
<1>1. /\ m = Message(answer, << >>, dims) /\ m.size = dims
      /\ m = [bytes |-> answer, text |-> << >>, size |-> dims]
  BY DEF OptionReply, Message
<1>2. \E verb \in Verbs, bytes \in Seq(Byte) :
        answer = <<Iac, verb, option>> \o bytes /\ Follows(bytes, dims)
  <2>1. CASE command = Do /\ option = OptNaws
    <3>1. /\ answer = <<Iac, Will, option>> \o Naws(cols, rows)
          /\ dims = <<cols, rows>>
      BY <2>1 DEF Negotiate, SizeTold, Do, Dont, Will, Wont, OptNaws, OptEcho,
                  OptSuppressGoAhead, OptTerminalType
    <3> DEFINE held == TellsSize(cols, rows)
    <3>2. held \in Seq(Byte) /\ Naws(cols, rows) = Frame(held)
      BY NawsFrame
    <3>3. FrameTells(held, dims)
      BY <3>1 DEF FrameTells
    <3> HIDE DEF held, dims, answer
    <3>4. Follows(Naws(cols, rows), dims)
      BY <3>2, <3>3 DEF Follows
    <3>5. Naws(cols, rows) \in Seq(Byte) /\ Will \in Verbs
      BY <3>2, FrameTypes DEF Verbs
    <3> QED BY <3>1, <3>4, <3>5
  <2>2. CASE ~(command = Do /\ option = OptNaws)
    <3>1. dims = Untold
      BY <2>2 DEF SizeTold
    <3>2. \E verb \in Verbs : answer = <<Iac, verb, option>>
      BY <2>2 DEF Negotiate, Verbs
    <3> HIDE DEF dims, answer
    <3>3. PICK verb \in Verbs : answer = <<Iac, verb, option>>
      BY <3>2
    <3>4. Iac \in Byte /\ verb \in Byte
      BY Bytes
    <3>5. <<Iac, verb, option>> \in Seq(Byte)
      BY <3>4
    <3>6. answer = <<Iac, verb, option>> \o << >>
      BY <3>3, <3>5, ConcatEmptySeq
    <3>7. Follows(<< >>, dims) /\ << >> \in Seq(Byte)
      BY <3>1 DEF Follows
    <3> QED BY <3>6, <3>7
  <2> QED BY <2>1, <2>2
<1>3. dims \in (Nat \X Nat) \cup {Untold}
  <2>1. cols \in Nat /\ rows \in Nat
    BY DEF Dimension
  <2> QED BY <2>1 DEF SizeTold
<1> HIDE DEF m, answer, dims
<1>4. PICK verb \in Verbs, bytes \in Seq(Byte) :
        answer = <<Iac, verb, option>> \o bytes /\ Follows(bytes, dims)
  BY <1>2
<1>5. answer \in Seq(Byte)
  <2>1. Iac \in Byte /\ verb \in Byte
    BY Bytes
  <2>2. <<Iac, verb, option>> \in Seq(Byte)
    BY <2>1
  <2> QED BY <1>4, <2>2, ConcatProperties
<1>6. m \in Messages
  BY <1>1, <1>3, <1>5, MessageTypes
<1>7. IsOptionReply(m)
  BY <1>1, <1>4 DEF IsOptionReply
<1>8. m \in Sayable
  BY <1>6, <1>7 DEF Sayable
<1> QED BY <1>8 DEF m

\* A subnegotiation that tells a size, or the type, is a message of the program.
LEMMA FrameSayable ==
  ASSUME NEW held, NEW dims, FrameTells(held, dims)
  PROVE  Message(Frame(held), << >>, dims) \in Sayable
<1>1. held \in Seq(Byte) /\ dims \in (Nat \X Nat) \cup {Untold}
  BY FrameTellsTypes
<1>2. Frame(held) \in Seq(Byte) /\ << >> \in Seq(Byte)
  BY <1>1, FrameTypes
<1> DEFINE m == Message(Frame(held), << >>, dims)
<1>3. m = [bytes |-> Frame(held), text |-> << >>, size |-> dims] /\ m.size = dims
  BY DEF Message
<1>4. m = Message(Frame(held), << >>, m.size)
  BY <1>3
<1> HIDE DEF m
<1>5. m \in Messages
  BY <1>1, <1>2, <1>3, MessageTypes
<1>6. IsFrame(m)
  BY <1>1, <1>3, <1>4 DEF IsFrame
<1>7. m \in Sayable
  BY <1>5, <1>6 DEF Sayable
<1> QED BY <1>7 DEF m

\* handle_subnegotiation answers with one or not at all.
LEMMA FrameReplySayable ==
  ASSUME NEW sub \in Seq(Byte), NEW cols \in Dimension, NEW rows \in Dimension
  PROVE  FrameReply(sub, cols, rows) \in Seq(Sayable)
<1> DEFINE answer == HandleSubnegotiation(sub, cols, rows)
           dims == SizeToldBack(sub, cols, rows)
<1>1. CASE answer = << >>
  BY <1>1 DEF FrameReply
<1>2. CASE answer # << >>
  <2>1. \E held : FrameTells(held, dims) /\ answer = Frame(held)
    <3>1. CASE sub = <<OptTerminalType, TypeSend>>
      <4>1. Head(sub) # OptNaws /\ sub # << >>
        BY <3>1 DEF OptTerminalType, OptNaws
      <4>2. dims = Untold /\ answer = TerminalType
        BY <3>1, <4>1 DEF SizeToldBack, HandleSubnegotiation
      <4> QED BY <4>2, TypeFrame DEF FrameTells
    <3>2. CASE sub # <<OptTerminalType, TypeSend>>
      <4>1. dims = <<cols, rows>> /\ answer = Naws(cols, rows)
        BY <1>2, <3>2 DEF SizeToldBack, HandleSubnegotiation
      <4>2. Naws(cols, rows) = Frame(TellsSize(cols, rows))
        BY NawsFrame
      <4> QED BY <4>1, <4>2 DEF FrameTells
    <3> QED BY <3>1, <3>2
  <2>2. FrameReply(sub, cols, rows) = <<Message(answer, << >>, dims)>>
    BY <1>2 DEF FrameReply
  <2> HIDE DEF answer, dims
  <2>3. Message(answer, << >>, dims) \in Sayable
    BY <2>1, FrameSayable
  <2> QED BY <2>2, <2>3
<1> QED BY <1>1, <1>2

\* push_subnegotiation keeps a parser a parser.
LEMMA PushTypes ==
  ASSUME NEW p \in Parsers, NEW byte \in Byte
  PROVE  /\ PushSubnegotiation(p, byte) \in Parsers
         /\ PushSubnegotiation(p, byte).limit = p.limit
         /\ PushSubnegotiation(p, byte).cols = p.cols
         /\ PushSubnegotiation(p, byte).rows = p.rows
<1>1. Append(p.sub, byte) \in Seq(Byte) /\ << >> \in Seq(Byte)
  BY DEF Parsers
<1> QED BY <1>1 DEF PushSubnegotiation, Parsers, States

\* So does a byte of parse, which leaves the limit and the size alone.
LEMMA ParseByteTypes ==
  ASSUME NEW p \in Parsers, NEW byte \in Byte
  PROVE  /\ ParseByte(p, byte) \in Parsers
         /\ ParseByte(p, byte).limit = p.limit
         /\ ParseByte(p, byte).cols = p.cols
         /\ ParseByte(p, byte).rows = p.rows
<1>1. /\ Append(p.data, byte) \in Seq(Byte) /\ Append(p.data, Iac) \in Seq(Byte)
      /\ << >> \in Seq(Byte) /\ NoCommand \in Byte /\ Iac \in Byte /\ Verbs \subseteq Byte
  BY Bytes DEF Parsers
<1>2. CASE p.state = "data"
  BY <1>1, <1>2 DEF ParseByte, Parsers, States
<1>3. CASE p.state = "iac"
  <2>1. ParseByte(p, byte) = AfterIac(p, byte)
    BY <1>3 DEF ParseByte
  <2> QED BY <1>1, <2>1 DEF AfterIac, Parsers, States
<1>4. CASE p.state = "negotiation"
  <2> DEFINE answer == OptionReply(p.command, byte, p.cols, p.rows)
  <2>1. p.command \in Byte /\ p.cols \in Dimension /\ p.rows \in Dimension
    BY DEF Parsers
  <2>2. answer \in Sayable
    BY <2>1, OptionReplySayable
  <2>3. ParseByte(p, byte) = [p EXCEPT !.response = Append(@, answer), !.command = NoCommand,
                                       !.state = "data"]
    BY <1>4 DEF ParseByte
  <2> HIDE DEF answer
  <2>4. Append(p.response, answer) \in Seq(Sayable)
    BY <2>2 DEF Parsers
  <2> QED BY <1>1, <2>3, <2>4 DEF Parsers, States
<1>5. CASE p.state = "sub"
  <2>1. CASE byte = Iac
    <3>1. ParseByte(p, byte) = [p EXCEPT !.state = "subIac"]
      BY <1>5, <2>1 DEF ParseByte
    <3> QED BY <3>1 DEF Parsers, States
  <2>2. CASE byte # Iac
    <3>1. ParseByte(p, byte) = PushSubnegotiation(p, byte)
      BY <1>5, <2>2 DEF ParseByte
    <3> QED BY <3>1, PushTypes
  <2> QED BY <2>1, <2>2
<1>6. CASE p.state = "subIac"
  <2>1. ParseByte(p, byte) = AfterSubIac(p, byte)
    BY <1>6 DEF ParseByte
  <2>2. CASE byte = Iac
    <3>1. AfterSubIac(p, byte) = PushSubnegotiation(p, Iac)
      BY <2>2 DEF AfterSubIac, Iac, Se
    <3> QED BY <1>1, <2>1, <3>1, PushTypes
  <2>3. CASE byte = Se
    <3> DEFINE answer == FrameReply(p.sub, p.cols, p.rows)
    <3>1. answer \in Seq(Sayable)
      BY FrameReplySayable DEF Parsers
    <3>2. AfterSubIac(p, byte) = [p EXCEPT !.response = @ \o answer, !.sub = << >>, !.state = "data"]
      BY <2>3 DEF AfterSubIac, Se, Iac
    <3> HIDE DEF answer
    <3> DEFINE all == p.response \o answer
    <3>3. all \in Seq(Sayable)
      BY <3>1 DEF Parsers
    <3>4. ParseByte(p, byte) = [p EXCEPT !.response = all, !.sub = << >>, !.state = "data"]
      BY <2>1, <3>2
    <3> HIDE DEF all
    <3> QED BY <1>1, <3>3, <3>4 DEF Parsers, States
  <2>4. CASE byte # Iac /\ byte # Se
    <3>1. AfterSubIac(p, byte) = [p EXCEPT !.sub = << >>, !.state = "discard"]
      BY <2>4 DEF AfterSubIac
    <3>2. [p EXCEPT !.sub = << >>, !.state = "discard"] \in Parsers
      BY <1>1 DEF Parsers, States
    <3>3. DOMAIN p = {"state", "command", "sub", "cols", "rows", "limit", "data", "response"}
      BY DEF Parsers
    <3> QED BY <2>1, <3>1, <3>2, <3>3
  <2> QED BY <2>2, <2>3, <2>4
<1>7. CASE p.state = "discard"
  BY <1>7 DEF ParseByte, Parsers, States
<1>8. CASE p.state = "discardIac"
  <2> DEFINE state == IF byte = Se THEN "data" ELSE "discard"
  <2>1. ParseByte(p, byte) = [p EXCEPT !.state = state]
    BY <1>8 DEF ParseByte
  <2>2. state \in States
    BY DEF States
  <2> HIDE DEF state
  <2> QED BY <2>1, <2>2 DEF Parsers
<1>9. p.state \in States
  BY DEF Parsers
<1> QED BY <1>2, <1>3, <1>4, <1>5, <1>6, <1>7, <1>8, <1>9 DEF States

-----------------------------------------------------------------------------
(* What is read.                                                           *)

\* Between two pieces of the peer's stream, and after the IAC of one.
AtRest ==
  /\ inside = "none" => parser.state = "data" /\ payload = << >>
  /\ inside = "frame" => parser.state = "sub" /\ payload = parser.sub
  /\ inside = "rejected" => parser.state = "discard" /\ payload = << >>

Begun ==
  /\ inside = "none" => parser.state = "iac" /\ payload = << >>
  /\ inside = "frame" => parser.state = "subIac" /\ payload = parser.sub
  /\ inside = "rejected" => parser.state = "discardIac" /\ payload = << >>

\* How far the piece has come.
ByteToCome == AtRest /\ \E b \in Byte \ {Iac} : piece = <<b>> /\ coming = <<b>>

\* IAC and a byte, neither of them read.
PairToCome ==
  AtRest /\ \E b \in Byte : /\ piece = <<Iac, b>> /\ coming = <<Iac, b>>
                            /\ inside = "none" => b \notin Verbs

\* IAC, a verb and an option, none of them read.
OptionToCome ==
  /\ AtRest /\ inside = "none"
  /\ \E v \in Verbs, o \in Byte : piece = <<Iac, v, o>> /\ coming = <<Iac, v, o>>

\* The IAC of a pair is read.
PairBegun ==
  Begun /\ \E b \in Byte : /\ piece = <<Iac, b>> /\ coming = <<b>>
                           /\ inside = "none" => b \notin Verbs

\* The IAC of an option is read, and then its verb.
OptionBegun ==
  /\ Begun /\ inside = "none"
  /\ \E v \in Verbs, o \in Byte : piece = <<Iac, v, o>> /\ coming = <<v, o>>

OptionNamed ==
  /\ inside = "none" /\ payload = << >> /\ parser.state = "negotiation"
  /\ \E v \in Verbs, o \in Byte :
       piece = <<Iac, v, o>> /\ coming = <<o>> /\ parser.command = v

\* The types of what is read.
ReadType ==
  /\ parser \in Parsers /\ parser.limit = MaxSubnegotiation
  /\ inside \in {"none", "frame", "rejected"}
  /\ payload \in Seq(Byte) /\ Len(payload) <= MaxSubnegotiation
  /\ meant = [data |-> parser.data, replies |-> parser.response]

\* Where the parser is in the piece, and that it has understood those before it.
ReadInv ==
  /\ ReadType
  /\ \/ coming = << >> /\ AtRest
     \/ ByteToCome \/ PairToCome \/ OptionToCome
     \/ PairBegun \/ OptionBegun \/ OptionNamed

\* clamp_dimension gives a dimension.
LEMMA SizesClamp ==
  ASSUME NEW dims \in Size
  PROVE  /\ dims = <<dims[1], dims[2]>>
         /\ ClampDimension(dims[1]) \in Dimension /\ ClampDimension(dims[2]) \in Dimension
<1>1. dims \in Nat \X Nat
  BY CodecAssumption
<1>2. dims[1] \in Nat /\ dims[2] \in Nat /\ dims = <<dims[1], dims[2]>>
  BY <1>1
<1>3. \A n \in Nat : ClampDimension(n) \in Dimension
  BY DEF ClampDimension, Dimension
<1> QED BY <1>2, <1>3

\* A new parser is one, at rest.
LEMMA NewParserTypes ==
  ASSUME NEW cols \in Nat, NEW rows \in Nat, NEW limit \in Nat
  PROVE  /\ NewParser(cols, rows, limit) \in Parsers
         /\ NewParser(cols, rows, limit).limit = limit
         /\ NewParser(cols, rows, limit).state = "data"
         /\ NewParser(cols, rows, limit).sub = << >>
         /\ NewParser(cols, rows, limit).data = << >>
         /\ NewParser(cols, rows, limit).response = << >>
<1>1. ClampDimension(cols) \in Dimension /\ ClampDimension(rows) \in Dimension
  BY DEF ClampDimension, Dimension
<1>2. << >> \in Seq(Byte) /\ << >> \in Seq(Sayable) /\ NoCommand \in Byte /\ "data" \in States
  BY Bytes DEF States
<1> QED BY <1>1, <1>2 DEF NewParser, Parsers

\* What the peer may send between two pieces.
LEMMA PiecesAre ==
  /\ \A p \in OuterPieces :
       \/ \E b \in Byte \ {Iac} : p = <<b>>
       \/ \E b \in Byte \ Verbs : p = <<Iac, b>>
       \/ \E v \in Verbs, o \in Byte : p = <<Iac, v, o>>
  /\ \A p \in InnerPieces :
       \/ \E b \in Byte \ {Iac} : p = <<b>>
       \/ \E b \in Byte : p = <<Iac, b>>
<1>1. DataByte \subseteq Byte /\ OptionByte \subseteq Byte /\ InnerByte \subseteq Byte
  BY CodecAssumption
<1>2. Iac \in Byte \ Verbs /\ Sb \in Byte \ Verbs /\ Se \in Byte
  BY Bytes
<1>3. \A b \in DataByte : \/ b # Iac /\ EscapeByte(b) = <<b>>
                          \/ b = Iac /\ EscapeByte(b) = <<Iac, Iac>>
  BY DEF EscapeByte
<1> QED BY <1>1, <1>2, <1>3 DEF OuterPieces, InnerPieces

\* ReadInv holds at first.
LEMMA ReadInit == CodecInit => ReadInv
<1> SUFFICES ASSUME CodecInit PROVE ReadInv
  OBVIOUS
<1>1. PICK dims \in Size : parser = NewParser(dims[1], dims[2], MaxSubnegotiation)
  BY DEF CodecInit
<1>2. dims[1] \in Nat /\ dims[2] \in Nat /\ MaxSubnegotiation \in Nat
  BY CodecAssumption
<1>3. /\ parser \in Parsers /\ parser.limit = MaxSubnegotiation /\ parser.state = "data"
      /\ parser.data = << >> /\ parser.response = << >>
  BY <1>1, <1>2, NewParserTypes
<1>4. ReadType
  BY <1>2, <1>3 DEF CodecInit, ReadType, NoMeaning
<1> QED BY <1>3, <1>4 DEF CodecInit, ReadInv, AtRest

\* A piece that the peer begins to send is all to come.
LEMMA PeerSendsKept == ReadInv /\ PeerSends => ReadInv'
<1> SUFFICES ASSUME ReadInv, PeerSends PROVE ReadInv'
  OBVIOUS
<1>1. /\ coming = << >> /\ coming' = piece'
      /\ piece' \in IF inside = "none" THEN OuterPieces ELSE InnerPieces
      /\ parser' = parser /\ inside' = inside /\ payload' = payload /\ meant' = meant
  BY DEF PeerSends
<1>2. ReadType'
  BY <1>1 DEF ReadInv, ReadType
<1>3. AtRest
  BY <1>1 DEF ReadInv, ByteToCome, PairToCome, OptionToCome, PairBegun, OptionBegun, OptionNamed
<1>4. AtRest'
  BY <1>1, <1>3 DEF AtRest
<1>5. CASE inside = "none"
  <2>1. piece' \in OuterPieces
    BY <1>1, <1>5
  <2> QED BY <1>1, <1>2, <1>4, <1>5, <2>1, PiecesAre
          DEF ReadInv, ByteToCome, PairToCome, OptionToCome
<1>6. CASE inside # "none"
  <2>1. piece' \in InnerPieces
    BY <1>1, <1>6
  <2> QED BY <1>1, <1>2, <1>4, <1>6, <2>1, PiecesAre
          DEF ReadInv, ByteToCome, PairToCome, OptionToCome
<1> QED BY <1>5, <1>6

\* The facts of a step that reads a byte.
LEMMA ReadByteTypes ==
  ASSUME ReadInv, ReadByte, NEW byte \in Byte, byte = Head(coming)
  PROVE  /\ parser' = ParseByte(parser, byte) /\ coming' = Tail(coming)
         /\ parser' \in Parsers /\ parser'.limit = MaxSubnegotiation
         /\ Len(coming) = 1 => Means
         /\ Len(coming) # 1 => piece' = piece /\ inside' = inside /\ payload' = payload
                               /\ meant' = meant
<1>1. parser \in Parsers /\ parser.limit = MaxSubnegotiation
  BY DEF ReadInv, ReadType
<1>2. parser' = ParseByte(parser, byte) /\ coming' = Tail(coming)
  BY DEF ReadByte
<1>3. parser' \in Parsers /\ parser'.limit = MaxSubnegotiation
  BY <1>1, <1>2, ParseByteTypes
<1> QED BY <1>2, <1>3 DEF ReadByte, meaning

\* What the last byte of a piece may be.
LEMMA EndsOfPiece ==
  ASSUME NEW b \in Byte
  PROVE  /\ piece = <<b>> /\ b # Iac =>
              /\ ~Opens /\ ~Closes /\ ~IsOption /\ (IsData <=> inside = "none")
              /\ (Fits <=> Len(payload) < MaxSubnegotiation) /\ Last(piece) = b
         /\ piece = <<Iac, b>> =>
              /\ Opens <=> inside = "none" /\ b = Sb
              /\ Closes <=> inside # "none" /\ b = Se
              /\ IsData <=> inside = "none" /\ b = Iac
              /\ ~IsOption
              /\ Fits <=> b = Iac /\ Len(payload) < MaxSubnegotiation
              /\ Last(piece) = b
         /\ \A v \in Verbs : piece = <<Iac, v, b>> /\ inside = "none" =>
              /\ ~Opens /\ ~Closes /\ ~IsData /\ IsOption
              /\ piece[2] = v /\ piece[3] = b
BY DEF Opens, Closes, IsData, IsOption, Fits, Last

\* A byte of data, or of a payload, is read.
LEMMA ReadsByte ==
  ASSUME ReadInv, ReadByte, ByteToCome
  PROVE  ReadInv'
<1>1. PICK b \in Byte \ {Iac} : piece = <<b>> /\ coming = <<b>>
  BY DEF ByteToCome
<1>2. AtRest
  BY DEF ByteToCome
<1>3. Head(coming) = b /\ Tail(coming) = << >> /\ Len(coming) = 1
  BY <1>1
<1>4. /\ parser' = ParseByte(parser, b) /\ coming' = << >> /\ Means
      /\ parser' \in Parsers /\ parser'.limit = MaxSubnegotiation
  BY <1>3, ReadByteTypes
<1>5. /\ ~Opens /\ ~Closes /\ ~IsOption /\ (IsData <=> inside = "none")
      /\ (Fits <=> Len(payload) < MaxSubnegotiation) /\ Last(piece) = b
  BY <1>1, EndsOfPiece
<1>6. /\ parser \in Parsers /\ parser.limit = MaxSubnegotiation
      /\ inside \in {"none", "frame", "rejected"}
      /\ payload \in Seq(Byte) /\ Len(payload) <= MaxSubnegotiation /\ Len(payload) \in Nat
      /\ MaxSubnegotiation \in Nat
      /\ meant = [data |-> parser.data, replies |-> parser.response]
  BY CodecAssumption DEF ReadInv, ReadType
<1>7. CASE inside = "none"
  <2>1. parser' = [parser EXCEPT !.data = Append(@, b)]
    BY <1>1, <1>2, <1>4, <1>7 DEF ParseByte, AtRest
  <2>2. inside' = "none" /\ payload' = << >> /\ meant' = [meant EXCEPT !.data = Append(@, b)]
    BY <1>4, <1>5, <1>7 DEF Means
  <2>3. /\ parser'.state = "data" /\ parser'.data = Append(parser.data, b)
        /\ parser'.response = parser.response
    BY <1>2, <1>6, <1>7, <2>1 DEF Parsers, AtRest
  <2>4. meant' = [data |-> parser'.data, replies |-> parser'.response]
    BY <1>6, <2>2, <2>3
  <2>5. ReadType'
    <3>1. << >> \in Seq(Byte) /\ Len(<< >>) <= MaxSubnegotiation
      BY <1>6
    <3> QED BY <1>4, <2>2, <2>4, <3>1 DEF ReadType
  <2> QED BY <1>4, <2>2, <2>3, <2>5 DEF ReadInv, AtRest
<1>8. CASE inside = "frame"
  <2>1. parser' = PushSubnegotiation(parser, b) /\ payload = parser.sub
    BY <1>1, <1>2, <1>4, <1>8 DEF ParseByte, AtRest
  <2>2. meant' = meant
    BY <1>4, <1>5, <1>8 DEF Means
  <2>3. CASE Len(payload) < MaxSubnegotiation
    <3>1. parser' = [parser EXCEPT !.sub = Append(@, b), !.state = "sub"]
      BY <1>6, <2>1, <2>3 DEF PushSubnegotiation
    <3>2. inside' = "frame" /\ payload' = Append(payload, b)
      BY <1>4, <1>5, <1>8, <2>3 DEF Means
    <3>3. /\ parser'.state = "sub" /\ parser'.data = parser.data
          /\ parser'.response = parser.response /\ parser'.sub = Append(payload, b)
      BY <1>6, <2>1, <3>1 DEF Parsers
    <3> DEFINE more == Append(payload, b)
    <3>4. /\ more \in Seq(Byte) /\ Len(more) <= MaxSubnegotiation
          /\ payload' = more /\ parser'.sub = more
      BY <1>1, <1>6, <2>3, <3>2, <3>3
    <3> HIDE DEF more
    <3> QED BY <1>4, <1>6, <2>2, <3>2, <3>3, <3>4 DEF ReadInv, ReadType, AtRest
  <2>4. CASE ~(Len(payload) < MaxSubnegotiation)
    <3>1. parser' = [parser EXCEPT !.sub = << >>, !.state = "discard"]
      BY <1>6, <2>1, <2>4 DEF PushSubnegotiation
    <3>2. inside' = "rejected" /\ payload' = << >>
      BY <1>4, <1>5, <1>8, <2>4 DEF Means
    <3>3. /\ parser'.state = "discard" /\ parser'.data = parser.data
          /\ parser'.response = parser.response
      BY <1>6, <3>1 DEF Parsers
    <3> QED BY <1>4, <1>6, <2>2, <3>2, <3>3 DEF ReadInv, ReadType, AtRest
  <2> QED BY <2>3, <2>4
<1>9. CASE inside = "rejected"
  <2>1. parser' = parser
    BY <1>1, <1>2, <1>4, <1>9 DEF ParseByte, AtRest
  <2>2. inside' = "rejected" /\ payload' = << >> /\ meant' = meant
    BY <1>4, <1>5, <1>9 DEF Means
  <2> QED BY <1>2, <1>4, <1>6, <1>9, <2>1, <2>2 DEF ReadInv, ReadType, AtRest
<1> QED BY <1>6, <1>7, <1>8, <1>9

\* The IAC of a pair is read.
LEMMA BeginsPair ==
  ASSUME ReadInv, ReadByte, PairToCome
  PROVE  ReadInv'
<1>1. PICK b \in Byte : /\ piece = <<Iac, b>> /\ coming = <<Iac, b>>
                        /\ inside = "none" => b \notin Verbs
  BY DEF PairToCome
<1>2. Head(coming) = Iac /\ Tail(coming) = <<b>> /\ Len(coming) # 1 /\ Iac \in Byte
  BY <1>1, Bytes
<1>3. /\ parser' = ParseByte(parser, Iac) /\ coming' = <<b>>
      /\ parser' \in Parsers /\ parser'.limit = MaxSubnegotiation
      /\ piece' = piece /\ inside' = inside /\ payload' = payload /\ meant' = meant
  BY <1>2, ReadByteTypes, Zenon
<1>4. AtRest /\ ReadType
  BY DEF PairToCome, ReadInv
<1>5. \E state \in States : /\ parser' = [parser EXCEPT !.state = state]
                            /\ inside = "none" => state = "iac"
                            /\ inside = "frame" => state = "subIac"
                            /\ inside = "rejected" => state = "discardIac"
  BY <1>3, <1>4 DEF ParseByte, AtRest, ReadType, States
<1>6. PICK state \in States : /\ parser' = [parser EXCEPT !.state = state]
                              /\ inside = "none" => state = "iac"
                              /\ inside = "frame" => state = "subIac"
                              /\ inside = "rejected" => state = "discardIac"
  BY <1>5
<1>7. /\ parser'.state = state /\ parser'.sub = parser.sub
      /\ parser'.data = parser.data /\ parser'.response = parser.response
  BY <1>4, <1>6 DEF Parsers, ReadType
<1>8. Begun'
  BY <1>3, <1>4, <1>6, <1>7 DEF AtRest, Begun
<1>9. ReadType'
  BY <1>3, <1>4, <1>7 DEF ReadType
<1> QED BY <1>1, <1>3, <1>8, <1>9 DEF ReadInv, PairBegun

\* The IAC of an option is read.
LEMMA BeginsOption ==
  ASSUME ReadInv, ReadByte, OptionToCome
  PROVE  ReadInv'
<1>1. PICK v \in Verbs, o \in Byte : piece = <<Iac, v, o>> /\ coming = <<Iac, v, o>>
  BY DEF OptionToCome
<1>2. Head(coming) = Iac /\ Tail(coming) = <<v, o>> /\ Len(coming) # 1 /\ Iac \in Byte
  BY <1>1, Bytes
<1>3. /\ parser' = ParseByte(parser, Iac) /\ coming' = <<v, o>>
      /\ parser' \in Parsers /\ parser'.limit = MaxSubnegotiation
      /\ piece' = piece /\ inside' = inside /\ payload' = payload /\ meant' = meant
  BY <1>2, ReadByteTypes, Zenon
<1>4. AtRest /\ ReadType /\ inside = "none"
  BY DEF OptionToCome, ReadInv
<1>5. parser' = [parser EXCEPT !.state = "iac"]
  BY <1>3, <1>4 DEF ParseByte, AtRest
<1>6. /\ parser'.state = "iac" /\ parser'.data = parser.data
      /\ parser'.response = parser.response
  BY <1>4, <1>5 DEF Parsers, ReadType
<1>7. Begun'
  BY <1>3, <1>4, <1>6 DEF AtRest, Begun
<1>8. ReadType'
  BY <1>3, <1>4, <1>6 DEF ReadType
<1> QED BY <1>1, <1>3, <1>4, <1>7, <1>8 DEF ReadInv, OptionBegun

\* Its verb is read.
LEMMA NamesOption ==
  ASSUME ReadInv, ReadByte, OptionBegun
  PROVE  ReadInv'
<1>1. PICK v \in Verbs, o \in Byte : piece = <<Iac, v, o>> /\ coming = <<v, o>>
  BY DEF OptionBegun
<1>2. Head(coming) = v /\ Tail(coming) = <<o>> /\ Len(coming) # 1 /\ v \in Byte
  BY <1>1, Bytes
<1>3. /\ parser' = ParseByte(parser, v) /\ coming' = <<o>>
      /\ parser' \in Parsers /\ parser'.limit = MaxSubnegotiation
      /\ piece' = piece /\ inside' = inside /\ payload' = payload /\ meant' = meant
  BY <1>2, ReadByteTypes, Zenon
<1>4. Begun /\ ReadType /\ inside = "none"
  BY DEF OptionBegun, ReadInv
<1>5. parser' = AfterIac(parser, v)
  BY <1>3, <1>4 DEF ParseByte, Begun
<1>6. parser' = [parser EXCEPT !.command = v, !.state = "negotiation"]
  BY <1>5 DEF AfterIac, Verbs, Do, Dont, Will, Wont, Iac, Sb
<1>7. /\ parser'.state = "negotiation" /\ parser'.command = v /\ parser'.data = parser.data
      /\ parser'.response = parser.response
  BY <1>4, <1>6 DEF Parsers, ReadType
<1>8. ReadType'
  BY <1>3, <1>4, <1>7 DEF ReadType
<1> QED BY <1>1, <1>3, <1>4, <1>7, <1>8 DEF ReadInv, OptionNamed, Begun

\* The option itself is read, and answered.
LEMMA AnswersOption ==
  ASSUME ReadInv, ReadByte, OptionNamed
  PROVE  ReadInv'
<1>1. PICK v \in Verbs, o \in Byte : piece = <<Iac, v, o>> /\ coming = <<o>> /\ parser.command = v
  BY DEF OptionNamed
<1>2. Head(coming) = o /\ Tail(coming) = << >> /\ Len(coming) = 1
  BY <1>1
<1>3. /\ parser' = ParseByte(parser, o) /\ coming' = << >> /\ Means
      /\ parser' \in Parsers /\ parser'.limit = MaxSubnegotiation
  BY <1>2, ReadByteTypes
<1>4. ReadType /\ inside = "none" /\ parser.state = "negotiation"
  BY DEF OptionNamed, ReadInv
<1>5. ~Opens /\ ~Closes /\ ~IsData /\ IsOption /\ piece[2] = v /\ piece[3] = o
  BY <1>1, <1>4, EndsOfPiece
<1> DEFINE answer == OptionReply(v, o, parser.cols, parser.rows)
<1>6. inside' = "none" /\ payload' = << >> /\ meant' = [meant EXCEPT !.replies = Append(@, answer)]
  BY <1>3, <1>4, <1>5 DEF Means
<1>7. parser' = [parser EXCEPT !.response = Append(@, answer), !.command = NoCommand,
                               !.state = "data"]
  BY <1>1, <1>3, <1>4 DEF ParseByte
<1> HIDE DEF answer
<1>8. /\ parser'.state = "data" /\ parser'.data = parser.data
      /\ parser'.response = Append(parser.response, answer)
  BY <1>4, <1>7 DEF Parsers, ReadType
<1>9. meant' = [data |-> parser'.data, replies |-> parser'.response]
  BY <1>4, <1>6, <1>8 DEF ReadType
<1>10. << >> \in Seq(Byte) /\ Len(<< >>) <= MaxSubnegotiation
  BY CodecAssumption
<1> QED BY <1>3, <1>4, <1>6, <1>8, <1>9, <1>10 DEF ReadInv, ReadType, AtRest

\* The byte after an IAC is read: data, a command, or the limit of a subnegotiation.
LEMMA EndsPair ==
  ASSUME ReadInv, ReadByte, PairBegun
  PROVE  ReadInv'
<1>1. PICK b \in Byte : piece = <<Iac, b>> /\ coming = <<b>> /\ (inside = "none" => b \notin Verbs)
  BY DEF PairBegun
<1>2. Head(coming) = b /\ Tail(coming) = << >> /\ Len(coming) = 1
  BY <1>1
<1>3. /\ parser' = ParseByte(parser, b) /\ coming' = << >> /\ Means
      /\ parser' \in Parsers /\ parser'.limit = MaxSubnegotiation
  BY <1>2, ReadByteTypes
<1>4. /\ Opens <=> inside = "none" /\ b = Sb
      /\ Closes <=> inside # "none" /\ b = Se
      /\ IsData <=> inside = "none" /\ b = Iac
      /\ ~IsOption
      /\ Fits <=> b = Iac /\ Len(payload) < MaxSubnegotiation
      /\ Last(piece) = b
  BY <1>1, EndsOfPiece, Zenon
<1>5. /\ parser \in Parsers /\ parser.limit = MaxSubnegotiation
      /\ inside \in {"none", "frame", "rejected"}
      /\ payload \in Seq(Byte) /\ Len(payload) <= MaxSubnegotiation /\ Len(payload) \in Nat
      /\ MaxSubnegotiation \in Nat
      /\ meant = [data |-> parser.data, replies |-> parser.response]
      /\ Begun
  BY CodecAssumption DEF ReadInv, ReadType, PairBegun
<1>6. << >> \in Seq(Byte) /\ Len(<< >>) <= MaxSubnegotiation
  BY <1>5
<1>7. Iac # Se /\ Iac # Sb
  BY Bytes
<1>8. CASE inside = "none"
  <2>1. parser' = AfterIac(parser, b)
    BY <1>3, <1>5, <1>8 DEF ParseByte, Begun
  <2>2. payload' = << >>
    BY <1>3, <1>8 DEF Means
  <2>3. CASE b = Iac
    <3>1. parser' = [parser EXCEPT !.data = Append(@, Iac), !.state = "data"]
      BY <2>1, <2>3 DEF AfterIac, Verbs, Do, Dont, Will, Wont, Iac, Sb
    <3>2. inside' = "none" /\ meant' = [meant EXCEPT !.data = Append(@, Iac)]
      BY <1>3, <1>4, <1>7, <1>8, <2>3 DEF Means
    <3>3. /\ parser'.state = "data" /\ parser'.data = Append(parser.data, Iac)
          /\ parser'.response = parser.response
      BY <1>5, <3>1 DEF Parsers
    <3>4. meant' = [data |-> parser'.data, replies |-> parser'.response]
      BY <1>5, <3>2, <3>3
    <3> QED BY <1>3, <1>6, <2>2, <3>2, <3>3, <3>4 DEF ReadInv, ReadType, AtRest
  <2>4. CASE b = Sb
    <3>1. parser' = [parser EXCEPT !.sub = << >>, !.state = "sub"]
      BY <2>1, <2>4 DEF AfterIac, Verbs, Do, Dont, Will, Wont, Iac, Sb
    <3>2. inside' = "frame" /\ meant' = meant
      BY <1>3, <1>4, <1>7, <1>8, <2>4 DEF Means
    <3>3. /\ parser'.state = "sub" /\ parser'.data = parser.data
          /\ parser'.response = parser.response /\ parser'.sub = << >>
      BY <1>5, <3>1 DEF Parsers
    <3> QED BY <1>3, <1>5, <1>6, <2>2, <3>2, <3>3 DEF ReadInv, ReadType, AtRest
  <2>5. CASE b # Iac /\ b # Sb
    <3>1. b \notin Verbs
      BY <1>1, <1>8
    <3>2. parser' = [parser EXCEPT !.state = "data"]
      BY <2>1, <2>5, <3>1 DEF AfterIac, Verbs
    <3>3. inside' = "none" /\ meant' = meant
      BY <1>3, <1>4, <1>8, <2>5 DEF Means
    <3>4. /\ parser'.state = "data" /\ parser'.data = parser.data
          /\ parser'.response = parser.response
      BY <1>5, <3>2 DEF Parsers
    <3> QED BY <1>3, <1>5, <1>6, <2>2, <3>3, <3>4 DEF ReadInv, ReadType, AtRest
  <2> QED BY <2>3, <2>4, <2>5
<1>9. CASE inside = "frame"
  <2>1. parser' = AfterSubIac(parser, b) /\ payload = parser.sub
    BY <1>3, <1>5, <1>9 DEF ParseByte, Begun
  <2>2. CASE b = Iac
    <3>1. parser' = PushSubnegotiation(parser, Iac)
      BY <2>1, <2>2 DEF AfterSubIac, Iac, Se
    <3>2. meant' = meant
      BY <1>3, <1>4, <1>7, <1>9, <2>2 DEF Means
    <3>3. CASE Len(payload) < MaxSubnegotiation
      <4>1. parser' = [parser EXCEPT !.sub = Append(@, Iac), !.state = "sub"]
        BY <1>5, <2>1, <3>1, <3>3 DEF PushSubnegotiation
      <4>2. inside' = "frame" /\ payload' = Append(payload, Iac)
        BY <1>3, <1>4, <1>7, <1>9, <2>2, <3>3 DEF Means
      <4>3. /\ parser'.state = "sub" /\ parser'.data = parser.data
            /\ parser'.response = parser.response /\ parser'.sub = Append(payload, Iac)
        BY <1>5, <2>1, <4>1 DEF Parsers
      <4> DEFINE more == Append(payload, Iac)
      <4>4. /\ more \in Seq(Byte) /\ Len(more) <= MaxSubnegotiation
            /\ payload' = more /\ parser'.sub = more
        BY <1>5, <2>2, <3>3, <4>2, <4>3
      <4> HIDE DEF more
      <4> QED BY <1>3, <1>5, <3>2, <4>2, <4>3, <4>4 DEF ReadInv, ReadType, AtRest
    <3>4. CASE ~(Len(payload) < MaxSubnegotiation)
      <4>1. parser' = [parser EXCEPT !.sub = << >>, !.state = "discard"]
        BY <1>5, <2>1, <3>1, <3>4 DEF PushSubnegotiation
      <4>2. inside' = "rejected" /\ payload' = << >>
        BY <1>3, <1>4, <1>7, <1>9, <2>2, <3>4 DEF Means
      <4>3. /\ parser'.state = "discard" /\ parser'.data = parser.data
            /\ parser'.response = parser.response
        BY <1>5, <4>1 DEF Parsers
      <4> QED BY <1>3, <1>5, <1>6, <3>2, <4>2, <4>3 DEF ReadInv, ReadType, AtRest
    <3> QED BY <3>3, <3>4
  <2>3. CASE b = Se
    <3> DEFINE answer == FrameReply(payload, parser.cols, parser.rows)
    <3>1. parser' = [parser EXCEPT !.response = @ \o answer, !.sub = << >>, !.state = "data"]
      BY <2>1, <2>3 DEF AfterSubIac, Iac, Se
    <3>2. /\ inside' = "none" /\ payload' = << >>
          /\ meant' = [meant EXCEPT !.replies = @ \o answer]
      BY <1>3, <1>4, <1>7, <1>9, <2>3 DEF Means
    <3> HIDE DEF answer
    <3>3. /\ parser'.state = "data" /\ parser'.data = parser.data
          /\ parser'.response = parser.response \o answer
      BY <1>5, <3>1 DEF Parsers
    <3>4. meant' = [data |-> parser'.data, replies |-> parser'.response]
      BY <1>5, <3>2, <3>3
    <3> QED BY <1>3, <1>6, <3>2, <3>3, <3>4 DEF ReadInv, ReadType, AtRest
  <2>4. CASE b # Iac /\ b # Se
    <3>1. parser' = [parser EXCEPT !.sub = << >>, !.state = "discard"]
      BY <2>1, <2>4 DEF AfterSubIac
    <3>2. inside' = "rejected" /\ payload' = << >> /\ meant' = meant
      BY <1>3, <1>4, <1>9, <2>4 DEF Means
    <3>3. /\ parser'.state = "discard" /\ parser'.data = parser.data
          /\ parser'.response = parser.response
      BY <1>5, <3>1 DEF Parsers
    <3> QED BY <1>3, <1>5, <1>6, <3>2, <3>3 DEF ReadInv, ReadType, AtRest
  <2> QED BY <2>2, <2>3, <2>4
<1>10. CASE inside = "rejected"
  <2>1. payload' = << >> /\ meant' = meant
    BY <1>3, <1>4, <1>10 DEF Means
  <2>2. CASE b = Se
    <3>1. parser' = [parser EXCEPT !.state = "data"]
      BY <1>3, <1>5, <1>10, <2>2 DEF ParseByte, Begun
    <3>2. inside' = "none"
      BY <1>3, <1>4, <1>10, <2>2 DEF Means
    <3>3. /\ parser'.state = "data" /\ parser'.data = parser.data
          /\ parser'.response = parser.response
      BY <1>5, <3>1 DEF Parsers
    <3> QED BY <1>3, <1>5, <1>6, <2>1, <3>2, <3>3 DEF ReadInv, ReadType, AtRest
  <2>3. CASE b # Se
    <3>1. parser' = [parser EXCEPT !.state = "discard"]
      BY <1>3, <1>5, <1>10, <2>3 DEF ParseByte, Begun
    <3>2. inside' = "rejected"
      BY <1>3, <1>4, <1>10, <2>3 DEF Means
    <3>3. /\ parser'.state = "discard" /\ parser'.data = parser.data
          /\ parser'.response = parser.response
      BY <1>5, <3>1 DEF Parsers
    <3> QED BY <1>3, <1>5, <1>6, <2>1, <3>2, <3>3 DEF ReadInv, ReadType, AtRest
  <2> QED BY <2>2, <2>3
<1> QED BY <1>5, <1>8, <1>9, <1>10

\* A byte is read, whichever it is.
LEMMA ReadByteKept == ReadInv /\ ReadByte => ReadInv'
<1> SUFFICES ASSUME ReadInv, ReadByte PROVE ReadInv'
  OBVIOUS
<1>1. coming # << >>
  BY DEF ReadByte
<1> QED BY <1>1, ReadsByte, BeginsPair, BeginsOption, NamesOption, AnswersOption, EndsPair
        DEF ReadInv

\* The end of a read changes nothing in the state of the parser.
LEMMA EndReadKept == ReadInv /\ EndRead => ReadInv'
<1> SUFFICES ASSUME ReadInv, EndRead PROVE ReadInv'
  OBVIOUS
<1>1. /\ parser' = [parser EXCEPT !.data = << >>, !.response = << >>]
      /\ meant' = NoMeaning
      /\ coming' = coming /\ piece' = piece /\ inside' = inside /\ payload' = payload
  BY DEF EndRead
<1>2. ReadType
  BY DEF ReadInv
<1>3. << >> \in Seq(Byte) /\ << >> \in Seq(Sayable)
  OBVIOUS
<1>4. /\ parser' \in Parsers /\ parser'.limit = parser.limit
      /\ parser'.state = parser.state /\ parser'.sub = parser.sub
      /\ parser'.command = parser.command
      /\ parser'.data = << >> /\ parser'.response = << >>
  BY <1>1, <1>2, <1>3 DEF ReadType, Parsers
<1>5. ReadType'
  BY <1>1, <1>2, <1>4 DEF ReadType, NoMeaning
<1>6. /\ AtRest' <=> AtRest
      /\ Begun' <=> Begun
  BY <1>1, <1>4 DEF AtRest, Begun
<1> QED BY <1>1, <1>4, <1>5, <1>6
        DEF ReadInv, ByteToCome, PairToCome, OptionToCome, PairBegun, OptionBegun, OptionNamed

\* Neither does a resize, which waits for the call of parse under way.
LEMMA ResizeKept == ASSUME NEW dims \in Size, ReadInv, ResizeTo(dims) PROVE ReadInv'
<1> DEFINE cols == ClampDimension(dims[1])
           rows == ClampDimension(dims[2])
<1>1. /\ parser' = [parser EXCEPT !.cols = cols, !.rows = rows]
      /\ meant' = meant
      /\ coming' = coming /\ piece' = piece /\ inside' = inside /\ payload' = payload
  BY DEF ResizeTo, meaning
<1>2. cols \in Dimension /\ rows \in Dimension
  BY SizesClamp
<1> HIDE DEF cols, rows
<1>3. ReadType
  BY DEF ReadInv
<1>4. /\ parser' \in Parsers /\ parser'.limit = parser.limit
      /\ parser'.state = parser.state /\ parser'.sub = parser.sub
      /\ parser'.command = parser.command
      /\ parser'.data = parser.data /\ parser'.response = parser.response
  BY <1>1, <1>2, <1>3 DEF ReadType, Parsers
<1>5. ReadType'
  BY <1>1, <1>3, <1>4 DEF ReadType
<1>6. /\ AtRest' <=> AtRest
      /\ Begun' <=> Begun
  BY <1>1, <1>4 DEF AtRest, Begun
<1> QED BY <1>1, <1>4, <1>5, <1>6
        DEF ReadInv, ByteToCome, PairToCome, OptionToCome, PairBegun, OptionBegun, OptionNamed

\* What leaves the parser and the stream alone keeps ReadInv.
LEMMA ReadUntouched == ReadInv /\ UNCHANGED <<parsing, meaning>> => ReadInv'
<1> SUFFICES ASSUME ReadInv, UNCHANGED <<parsing, meaning>> PROVE ReadInv'
  OBVIOUS
<1>1. /\ parser' = parser /\ coming' = coming /\ piece' = piece /\ inside' = inside
      /\ payload' = payload /\ meant' = meant
  BY DEF parsing, meaning
<1> QED BY <1>1 DEF ReadInv, ReadType, AtRest, Begun, ByteToCome, PairToCome, OptionToCome,
                    PairBegun, OptionBegun, OptionNamed

\* ReadInv holds of every state of the codec.
THEOREM CodecReads == CodecSpec => []ReadInv
<1>1. ASSUME ReadInv, [CodecNext]_codecVars PROVE ReadInv'
  <2>1. CASE PeerSends
    BY <1>1, <2>1, PeerSendsKept
  <2>2. CASE ReadByte
    BY <1>1, <2>2, ReadByteKept
  <2>3. CASE EndRead
    BY <1>1, <2>3, EndReadKept
  <2>4. CASE \E dims \in Size : ResizeTo(dims)
    BY <1>1, <2>4, ResizeKept
  <2>5. CASE \E text \in Text : WriteText(text)
    BY <1>1, <2>5, ReadUntouched DEF WriteText
  <2>6. CASE TakeMessage
    BY <1>1, <2>6, ReadUntouched DEF TakeMessage
  <2>7. CASE PeerReadsByte
    BY <1>1, <2>7, ReadUntouched DEF PeerReadsByte
  <2>8. CASE UNCHANGED codecVars
    BY <1>1, <2>8, ReadUntouched DEF codecVars
  <2> QED BY <1>1, <2>1, <2>2, <2>3, <2>4, <2>5, <2>6, <2>7, <2>8 DEF CodecNext
<1> QED BY <1>1, ReadInit, PTL DEF CodecSpec

\* Whatever the peer sends and wherever reads cut it, a call of parse returns its data and
\* answers its commands and nothing else; a frame that is too long or malformed says nothing
\* (telnet/codec.rs, parse and push_subnegotiation).
THEOREM PeerIsUnderstoodHolds == CodecSpec => []PeerIsUnderstood
<1>1. ReadInv => PeerIsUnderstood
  <2> SUFFICES ASSUME ReadInv PROVE PeerIsUnderstood
    OBVIOUS
  <2>1. parser.data = meant.data /\ parser.response = meant.replies
    BY DEF ReadInv, ReadType
  <2>2. ASSUME coming = << >> PROVE AtRest
    BY <2>2 DEF ReadInv, ByteToCome, PairToCome, OptionToCome, PairBegun, OptionBegun,
               OptionNamed
  <2> QED BY <2>1, <2>2 DEF PeerIsUnderstood, AtRest
<1> QED BY <1>1, CodecReads, PTL

-----------------------------------------------------------------------------
(* What is said.                                                           *)

\* How far the peer is with the user's input.
Reciting == peer.response = << >> /\ heard = Untold /\ said.size = Untold

TextLeft ==
  /\ Reciting /\ peer.state = "data"
  /\ \E rest \in Seq(Byte) : left = EscapeIac(rest) /\ peer.data \o rest = said.text

\* The first IAC of an escaped one is read.
TextEscaped ==
  /\ Reciting /\ peer.state = "iac"
  /\ \E rest \in Seq(Byte) :
       left = <<Iac>> \o EscapeIac(rest) /\ peer.data \o (<<Iac>> \o rest) = said.text

\* How far it is with an option, and with what follows one or comes alone.
Commanding == said.text = << >> /\ peer.data = << >>

\* An option is all to be read; its IAC is read; its verb is read; it is read.
OptionLeft ==
  /\ Commanding /\ heard = Untold /\ peer.state = "data"
  /\ \E verb \in Verbs, option \in Byte, bytes \in Seq(Byte) :
       left = <<Iac>> \o (<<verb>> \o (<<option>> \o bytes)) /\ Follows(bytes, said.size)

VerbLeft ==
  /\ Commanding /\ heard = Untold /\ peer.state = "iac"
  /\ \E verb \in Verbs, option \in Byte, bytes \in Seq(Byte) :
       left = <<verb>> \o (<<option>> \o bytes) /\ Follows(bytes, said.size)

NameLeft ==
  /\ Commanding /\ heard = Untold /\ peer.state = "negotiation"
  /\ \E option \in Byte, bytes \in Seq(Byte) :
       left = <<option>> \o bytes /\ Follows(bytes, said.size)

RestLeft == Commanding /\ heard = Untold /\ peer.state = "data" /\ Follows(left, said.size)

\* The IAC of a subnegotiation is read; its SB too; then some of what it holds, which may end
\* in the first IAC of an escaped one; what it holds, and the IAC after it.
FrameLeft ==
  /\ Commanding /\ heard = Untold /\ peer.state = "iac"
  /\ \E held \in Seq(Byte) :
       left = <<Sb>> \o (EscapeIac(held) \o <<Iac, Se>>) /\ FrameTells(held, said.size)

PayloadLeft ==
  /\ Commanding /\ heard = Untold /\ peer.state = "sub"
  /\ \E rest \in Seq(Byte) :
       left = EscapeIac(rest) \o <<Iac, Se>> /\ FrameTells(peer.sub \o rest, said.size)

PayloadEscaped ==
  /\ Commanding /\ heard = Untold /\ peer.state = "subIac"
  /\ \E rest \in Seq(Byte) : /\ left = <<Iac>> \o (EscapeIac(rest) \o <<Iac, Se>>)
                             /\ FrameTells(peer.sub \o (<<Iac>> \o rest), said.size)

EndLeft ==
  /\ Commanding /\ heard = Untold /\ peer.state = "subIac"
  /\ left = <<Se>> /\ FrameTells(peer.sub, said.size)

\* All is read.
AllHeard == Commanding /\ heard = said.size /\ peer.state = "data" /\ left = << >>

\* The types of what is said.
SpeakType == out \in Seq(Sayable) /\ peer \in Parsers /\ peer.limit = PeerLimit

\* How far the peer is with the message being written.
SpeakInv ==
  /\ SpeakType
  /\ \/ TextLeft \/ TextEscaped
     \/ OptionLeft \/ VerbLeft \/ NameLeft \/ RestLeft
     \/ FrameLeft \/ PayloadLeft \/ PayloadEscaped \/ EndLeft \/ AllHeard

\* Nothing is left only of what is read to its end.
LEMMA NothingLeft ==
  ASSUME SpeakInv, left = << >>
  PROVE  \/ Reciting /\ peer.state = "data" /\ peer.data = said.text
         \/ AllHeard
<1>1. ASSUME TextLeft PROVE Reciting /\ peer.state = "data" /\ peer.data = said.text
  <2>1. PICK rest \in Seq(Byte) : << >> = EscapeIac(rest) /\ peer.data \o rest = said.text
    BY <1>1 DEF TextLeft
  <2>2. rest = << >>
    <3>1. SUFFICES ASSUME rest # << >> PROVE FALSE
      OBVIOUS
    <3>2. Head(rest) \in Byte /\ Tail(rest) \in Seq(Byte) /\ Iac \in Byte
      BY <3>1, Bytes
    <3>3. EscapeIac(Tail(rest)) \in Seq(Byte)
      BY <3>2, EscapesByte
    <3>4. \A b \in Byte, x \in Seq(Byte) : <<b>> \o x \in Seq(Byte) /\ <<b>> \o x # << >>
      BY ConsSplits
    <3> QED BY <2>1, <3>1, <3>2, <3>3, <3>4, EscapesByte
  <2>3. peer.data \o << >> = peer.data
    BY ConcatEmptySeq DEF SpeakInv, SpeakType, Parsers
  <2> QED BY <1>1, <2>1, <2>2, <2>3 DEF TextLeft
<1>2. \A b \in Byte, x \in Seq(Byte) : <<b>> \o x \in Seq(Byte) /\ <<b>> \o x # << >>
  BY ConsSplits
<1>3. Iac \in Byte /\ Sb \in Byte /\ Se \in Byte /\ Verbs \subseteq Byte
  BY Bytes
<1>4. \A x \in Seq(Byte) : /\ EscapeIac(x) \in Seq(Byte)
                           /\ EscapeIac(x) \o <<Iac, Se>> \in Seq(Byte)
                           /\ Frame(x) # << >>
  BY EscapesByte, FrameTypes
<1>5. ~TextEscaped
  BY <1>2, <1>3, <1>4 DEF TextEscaped
<1>6. ~OptionLeft
  BY <1>2, <1>3 DEF OptionLeft
<1>7. ~VerbLeft /\ ~NameLeft
  BY <1>2, <1>3 DEF VerbLeft, NameLeft
<1>8. ~FrameLeft
  BY <1>2, <1>3, <1>4 DEF FrameLeft
<1>9. ~PayloadLeft
  <2>1. \A x \in Seq(Byte) : x \o <<Iac, Se>> # << >>
    <3>1. <<Iac, Se>> \in Seq(Byte) /\ <<Iac, Se>> # << >>
      BY <1>3
    <3> QED BY <3>1, ConcatEqualIffEmpty
  <2> QED BY <1>4, <2>1 DEF PayloadLeft
<1>10. ~PayloadEscaped
  BY <1>2, <1>3, <1>4 DEF PayloadEscaped
<1>11. ~EndLeft
  <2>1. <<Se>> # << >>
    OBVIOUS
  <2> QED BY <2>1 DEF EndLeft
<1>12. RestLeft => AllHeard
  BY <1>4 DEF RestLeft, AllHeard, Follows
<1> QED BY <1>1, <1>5, <1>6, <1>7, <1>8, <1>9, <1>10, <1>11, <1>12 DEF SpeakInv

\* SpeakInv holds at first.
LEMMA SpeakInit == CodecInit => SpeakInv
<1> SUFFICES ASSUME CodecInit PROVE SpeakInv
  OBVIOUS
<1>1. /\ peer = NewParser(1, 1, PeerLimit) /\ said = Message(<< >>, << >>, Untold)
      /\ left = << >> /\ heard = Untold /\ out = << >>
  BY DEF CodecInit, NewPeer
<1>2. PeerLimit \in Nat
  BY CodecAssumption
<1>3. /\ peer \in Parsers /\ peer.limit = PeerLimit /\ peer.state = "data"
      /\ peer.data = << >> /\ peer.response = << >>
  BY <1>1, <1>2, NewParserTypes
<1>4. AllHeard
  BY <1>1, <1>3 DEF AllHeard, Commanding, Message
<1>5. SpeakType
  BY <1>1, <1>3 DEF SpeakType
<1> QED BY <1>4, <1>5 DEF SpeakInv

\* Whatever goes into the queue of messages, the peer is where it was.
LEMMA SpeakQueued ==
  ASSUME SpeakInv, out' \in Seq(Sayable), UNCHANGED telling
  PROVE  SpeakInv'
<1>1. said' = said /\ left' = left /\ peer' = peer /\ heard' = heard
  BY DEF telling
<1> QED BY <1>1 DEF SpeakInv, SpeakType, TextLeft, TextEscaped, Reciting, Commanding, OptionLeft,
                    VerbLeft, NameLeft, RestLeft, FrameLeft, PayloadLeft, PayloadEscaped,
                    EndLeft, AllHeard

\* The replies of a read are messages of the program.
LEMMA RepliesQueued ==
  ASSUME ReadInv, SpeakInv, EndRead
  PROVE  SpeakInv'
<1>1. out \in Seq(Sayable) /\ parser.response \in Seq(Sayable)
  BY DEF SpeakInv, SpeakType, ReadInv, ReadType, Parsers
<1>2. out' = out \o parser.response /\ UNCHANGED telling
  BY DEF EndRead, telling
<1>3. out' \in Seq(Sayable)
  BY <1>1, <1>2, ConcatProperties
<1> QED BY <1>2, <1>3, SpeakQueued

\* So is the size of a resize.
LEMMA SizeQueued ==
  ASSUME SpeakInv, ReadInv, NEW dims \in Size, ResizeTo(dims)
  PROVE  SpeakInv'
<1> DEFINE cols == ClampDimension(dims[1])
           rows == ClampDimension(dims[2])
<1>1. /\ parser' = [parser EXCEPT !.cols = cols, !.rows = rows]
      /\ out' = Append(out, Message(Naws(parser'.cols, parser'.rows), << >>,
                                    <<parser'.cols, parser'.rows>>))
      /\ UNCHANGED telling
  BY DEF ResizeTo
<1>2. cols \in Dimension /\ rows \in Dimension
  BY SizesClamp
<1> HIDE DEF cols, rows
<1>3. parser'.cols = cols /\ parser'.rows = rows
  BY <1>1 DEF ReadInv, ReadType, Parsers
<1>4. FrameTells(TellsSize(cols, rows), <<cols, rows>>)
  BY <1>2 DEF FrameTells
<1>5. Naws(cols, rows) = Frame(TellsSize(cols, rows))
  BY <1>2, NawsFrame
<1>6. Message(Naws(cols, rows), << >>, <<cols, rows>>) \in Sayable
  BY <1>4, <1>5, FrameSayable
<1>7. out' = Append(out, Message(Naws(cols, rows), << >>, <<cols, rows>>))
  BY <1>1, <1>3
<1>8. out' \in Seq(Sayable)
  BY <1>6, <1>7 DEF SpeakInv, SpeakType
<1> QED BY <1>1, <1>8, SpeakQueued

\* So is what the user types.
LEMMA TextQueued ==
  ASSUME SpeakInv, NEW text \in Text, WriteText(text)
  PROVE  SpeakInv'
<1> DEFINE m == Message(EscapeIac(text), text, Untold)
<1>1. text \in Seq(Byte) /\ EscapeIac(text) \in Seq(Byte)
  BY CodecAssumption, EscapesByte
<1>2. m = [bytes |-> EscapeIac(text), text |-> text, size |-> Untold]
  BY DEF Message
<1>3. m \in Messages
  BY <1>1, <1>2 DEF Messages
<1>4. IsText(m)
  BY <1>1 DEF IsText
<1> HIDE DEF m
<1>5. m \in Sayable
  BY <1>3, <1>4 DEF Sayable
<1>6. out' = Append(out, m) /\ UNCHANGED telling
  BY DEF WriteText, m
<1>7. out' \in Seq(Sayable)
  BY <1>5, <1>6 DEF SpeakInv, SpeakType
<1> QED BY <1>6, <1>7, SpeakQueued

\* The peer begins the next message where it has ended the one before.
LEMMA MessageTaken ==
  ASSUME SpeakInv, TakeMessage
  PROVE  SpeakInv'
<1>1. /\ left = << >> /\ out # << >> /\ out \in Seq(Sayable)
      /\ out' = Tail(out) /\ peer \in Parsers /\ peer.limit = PeerLimit
      /\ peer' = [peer EXCEPT !.data = << >>, !.response = << >>]
      /\ heard' = Untold
  BY DEF TakeMessage, SpeakInv, SpeakType
<1>2. PICK m \in Sayable : m = Head(out)
  BY <1>1
<1>3. said' = m /\ left' = m.bytes
  BY <1>2 DEF TakeMessage
<1>4. peer.state = "data"
  BY <1>1, NothingLeft DEF AllHeard
<1>5. /\ peer' \in Parsers /\ peer'.limit = PeerLimit /\ peer'.state = "data"
      /\ peer'.data = << >> /\ peer'.response = << >>
  <2>1. << >> \in Seq(Byte) /\ << >> \in Seq(Sayable)
    OBVIOUS
  <2> QED BY <1>1, <1>4, <2>1 DEF Parsers
<1>6. SpeakType'
  BY <1>1, <1>5 DEF SpeakType
<1>7. CASE IsText(m)
  <2>1. PICK text \in Seq(Byte) : m = Message(EscapeIac(text), text, Untold)
    BY <1>7 DEF IsText
  <2>2. left' = EscapeIac(text) /\ said'.text = text /\ said'.size = Untold
    BY <1>3, <2>1 DEF Message
  <2>3. << >> \o text = text
    BY ConcatEmptySeq
  <2>4. TextLeft'
    BY <1>1, <1>5, <2>2, <2>3 DEF TextLeft, Reciting
  <2> QED BY <1>6, <2>4 DEF SpeakInv
<1>8. CASE IsOptionReply(m)
  <2>1. PICK verb \in Verbs, option \in Byte, bytes \in Seq(Byte) :
          m = Message(<<Iac, verb, option>> \o bytes, << >>, m.size) /\ Follows(bytes, m.size)
    BY <1>8 DEF IsOptionReply
  <2>2. left' = <<Iac, verb, option>> \o bytes /\ said'.text = << >> /\ said'.size = m.size
    BY <1>3, <2>1 DEF Message
  <2>3. left' = <<Iac>> \o (<<verb>> \o (<<option>> \o bytes))
    <3>1. Iac \in Byte /\ verb \in Byte
      BY Bytes
    <3>2. <<Iac, verb, option>> = <<Iac>> \o <<verb, option>>
          /\ <<Iac>> \in Seq(Byte) /\ <<verb, option>> \in Seq(Byte)
      BY <3>1, JoinTriple, Zenon
    <3>3. (<<Iac>> \o <<verb, option>>) \o bytes = <<Iac>> \o (<<verb, option>> \o bytes)
      BY <3>2, ConcatAssociative
    <3>4. <<verb, option>> \o bytes = <<verb>> \o (<<option>> \o bytes)
      BY <3>1, ConsTwice
    <3> QED BY <2>2, <3>2, <3>3, <3>4
  <2>4. OptionLeft'
    BY <1>1, <1>5, <2>1, <2>2, <2>3 DEF OptionLeft, Commanding
  <2> QED BY <1>6, <2>4 DEF SpeakInv
<1>9. CASE IsFrame(m)
  <2>1. PICK held \in Seq(Byte) :
          m = Message(Frame(held), << >>, m.size) /\ FrameTells(held, m.size)
    BY <1>9 DEF IsFrame
  <2>2. left' = Frame(held) /\ said'.text = << >> /\ said'.size = m.size
    BY <1>3, <2>1 DEF Message
  <2>3. RestLeft'
    BY <1>1, <1>5, <2>1, <2>2 DEF RestLeft, Commanding, Follows
  <2> QED BY <1>6, <2>3 DEF SpeakInv
<1> QED BY <1>7, <1>8, <1>9 DEF Sayable

\* The facts of a step of the peer.
LEMMA PeerReadsTypes ==
  ASSUME SpeakInv, PeerReadsByte, NEW byte \in Byte, NEW rest, byte = Head(left), rest = Tail(left)
  PROVE  /\ peer \in Parsers /\ peer.limit = PeerLimit
         /\ peer' = ParseByte(peer, byte) /\ left' = rest /\ said' = said
         /\ SpeakType'
         /\ heard' = SizeIn(peer, byte)
<1>1. out \in Seq(Sayable) /\ peer \in Parsers /\ peer.limit = PeerLimit
  BY DEF SpeakInv, SpeakType
<1>2. /\ peer' = ParseByte(peer, byte) /\ left' = rest /\ said' = said /\ out' = out
      /\ heard' = SizeIn(peer, byte)
  BY DEF PeerReadsByte
<1>3. peer' \in Parsers /\ peer'.limit = PeerLimit
  BY <1>1, <1>2, ParseByteTypes
<1> QED BY <1>1, <1>2, <1>3 DEF SpeakType

\* A step that only changes the state of the peer's parser.
LEMMA PeerSteps ==
  ASSUME NEW p \in Parsers, NEW state \in States
  PROVE  LET q == [p EXCEPT !.state = state]
         IN  /\ q.state = state /\ q.data = p.data /\ q.response = p.response
             /\ q.sub = p.sub
BY DEF Parsers

\* The peer reads a byte of the user, or the IAC before one.
LEMMA ReadsText ==
  ASSUME SpeakInv, PeerReadsByte, TextLeft
  PROVE  SpeakInv'
<1>1. PICK rest \in Seq(Byte) : left = EscapeIac(rest) /\ peer.data \o rest = said.text
  BY DEF TextLeft
<1>2. rest # << >>
  BY <1>1, EscapesByte DEF PeerReadsByte
<1>3. Head(rest) \in Byte /\ Tail(rest) \in Seq(Byte) /\ EscapeIac(Tail(rest)) \in Seq(Byte)
  <2>1. Head(rest) \in Byte /\ Tail(rest) \in Seq(Byte)
    BY <1>2
  <2> QED BY <2>1, EscapesByte
<1>4. Iac \in Byte /\ "iac" \in States
  BY Bytes DEF States
<1>5. peer \in Parsers /\ peer.data \in Seq(Byte) /\ peer.state = "data" /\ Reciting
  BY DEF SpeakInv, SpeakType, Parsers, TextLeft
<1>6. CASE Head(rest) # Iac
  <2>1. left = <<Head(rest)>> \o EscapeIac(Tail(rest))
    BY <1>1, <1>2, <1>6, EscapesByte
  <2>2. Head(left) = Head(rest) /\ Tail(left) = EscapeIac(Tail(rest))
    BY <1>3, <2>1, ConsSplits
  <2>3. /\ peer' = ParseByte(peer, Head(rest)) /\ left' = EscapeIac(Tail(rest))
        /\ said' = said /\ SpeakType' /\ heard' = SizeIn(peer, Head(rest))
    BY <1>3, <2>2, PeerReadsTypes
  <2>4. peer' = [peer EXCEPT !.data = Append(@, Head(rest))] /\ heard' = heard
    BY <1>5, <1>6, <2>3 DEF ParseByte, SizeIn
  <2>5. /\ peer'.state = "data" /\ peer'.data = Append(peer.data, Head(rest))
        /\ peer'.response = peer.response
    BY <1>5, <2>4 DEF Parsers
  <2>6. peer'.data \o Tail(rest) = said.text
    BY <1>1, <1>2, <1>5, <2>5, MovesOver
  <2>7. TextLeft'
    BY <1>3, <1>5, <2>3, <2>4, <2>5, <2>6 DEF TextLeft, Reciting
  <2> QED BY <2>3, <2>7 DEF SpeakInv
<1>7. CASE Head(rest) = Iac
  <2> DEFINE more == <<Iac>> \o EscapeIac(Tail(rest))
  <2>1. left = <<Iac>> \o more
    BY <1>1, <1>2, <1>7, EscapesByte
  <2>2. more \in Seq(Byte)
    BY <1>3, <1>4, ConsSplits
  <2>3. Head(left) = Iac /\ Tail(left) = more
    BY <1>4, <2>1, <2>2, ConsSplits, Zenon
  <2>4. /\ peer' = ParseByte(peer, Iac) /\ left' = more
        /\ said' = said /\ SpeakType' /\ heard' = SizeIn(peer, Iac)
    BY <1>4, <2>3, PeerReadsTypes
  <2>5. peer' = [peer EXCEPT !.state = "iac"] /\ heard' = heard
    BY <1>5, <2>4 DEF ParseByte, SizeIn
  <2>6. peer'.state = "iac" /\ peer'.data = peer.data /\ peer'.response = peer.response
    BY <1>4, <1>5, <2>5, PeerSteps
  <2>7. rest = <<Iac>> \o Tail(rest)
    <3>1. << >> \in Seq(Byte)
      OBVIOUS
    <3>2. /\ Append(<< >>, Head(rest)) \o Tail(rest) = << >> \o rest
          /\ << >> \o rest = rest
      BY <1>2, <3>1, MovesOver, ConcatEmptySeq
    <3>3. Append(<< >>, Head(rest)) = <<Iac>>
      BY <1>7
    <3> QED BY <3>2, <3>3
  <2>8. TextEscaped'
    BY <1>1, <1>3, <1>5, <2>4, <2>5, <2>6, <2>7 DEF TextEscaped, Reciting
  <2> QED BY <2>4, <2>8 DEF SpeakInv
<1> QED BY <1>6, <1>7

\* It reads the other IAC.
LEMMA ReadsEscaped ==
  ASSUME SpeakInv, PeerReadsByte, TextEscaped
  PROVE  SpeakInv'
<1>1. PICK rest \in Seq(Byte) :
        left = <<Iac>> \o EscapeIac(rest) /\ peer.data \o (<<Iac>> \o rest) = said.text
  BY DEF TextEscaped
<1>2. Iac \in Byte /\ EscapeIac(rest) \in Seq(Byte)
  BY Bytes, EscapesByte
<1>3. Head(left) = Iac /\ Tail(left) = EscapeIac(rest)
  BY <1>1, <1>2, ConsSplits
<1>4. peer \in Parsers /\ peer.data \in Seq(Byte) /\ peer.state = "iac" /\ Reciting
  BY DEF SpeakInv, SpeakType, Parsers, TextEscaped
<1>5. /\ peer' = ParseByte(peer, Iac) /\ left' = EscapeIac(rest)
      /\ said' = said /\ SpeakType' /\ heard' = SizeIn(peer, Iac)
  BY <1>2, <1>3, PeerReadsTypes
<1>6. peer' = AfterIac(peer, Iac) /\ heard' = heard
  BY <1>4, <1>5 DEF ParseByte, SizeIn
<1>7. peer' = [peer EXCEPT !.data = Append(@, Iac), !.state = "data"]
  BY <1>6 DEF AfterIac, Do, Dont, Will, Wont, Iac, Sb
<1>8. /\ peer'.state = "data" /\ peer'.data = Append(peer.data, Iac)
      /\ peer'.response = peer.response
  BY <1>4, <1>7 DEF Parsers
<1>9. peer'.data \o rest = said.text
  <2>1. <<Iac>> \o rest \in Seq(Byte) /\ <<Iac>> \o rest # << >>
        /\ Head(<<Iac>> \o rest) = Iac /\ Tail(<<Iac>> \o rest) = rest
    BY <1>2, ConsSplits
  <2> DEFINE whole == <<Iac>> \o rest
  <2> HIDE DEF whole
  <2>2. whole \in Seq(Byte) /\ whole # << >> /\ Head(whole) = Iac /\ Tail(whole) = rest
    BY <2>1 DEF whole
  <2>3. \A s \in Seq(Byte) : Append(s, Head(whole)) \o Tail(whole) = s \o whole
    BY <2>2, MovesOver
  <2>4. Append(peer.data, Iac) \o rest = peer.data \o whole
    BY <1>4, <2>2, <2>3
  <2> QED BY <1>1, <1>8, <2>4 DEF whole
<1>10. TextLeft'
  BY <1>4, <1>5, <1>6, <1>8, <1>9 DEF TextLeft, Reciting
<1> QED BY <1>5, <1>10 DEF SpeakInv

\* A step of the peer over a byte at the head of what is left.
LEMMA PeerMoves ==
  ASSUME SpeakInv, PeerReadsByte,
         NEW byte \in Byte, NEW rest \in Seq(Byte), left = <<byte>> \o rest
  PROVE  /\ peer \in Parsers /\ peer.limit = PeerLimit
         /\ peer' = ParseByte(peer, byte) /\ left' = rest /\ said' = said
         /\ SpeakType'
         /\ heard' = SizeIn(peer, byte)
<1>1. Head(left) = byte /\ Tail(left) = rest
  BY ConsSplits, Zenon
<1> QED BY <1>1, PeerReadsTypes

\* The escaped payload of a frame and its end, byte by byte.
LEMMA EndUnfolds ==
  ASSUME NEW rest \in Seq(Byte)
  PROVE  /\ EscapeIac(rest) \o <<Iac, Se>> \in Seq(Byte)
         /\ rest = << >> => EscapeIac(rest) \o <<Iac, Se>> = <<Iac>> \o <<Se>>
         /\ rest # << >> /\ Head(rest) # Iac =>
              EscapeIac(rest) \o <<Iac, Se>> =
                <<Head(rest)>> \o (EscapeIac(Tail(rest)) \o <<Iac, Se>>)
         /\ rest # << >> /\ Head(rest) = Iac =>
              EscapeIac(rest) \o <<Iac, Se>> =
                <<Iac>> \o (<<Iac>> \o (EscapeIac(Tail(rest)) \o <<Iac, Se>>))
<1>1. Iac \in Byte /\ Se \in Byte
  BY Bytes
<1> DEFINE end == <<Iac, Se>>
<1>2. end \in Seq(Byte) /\ << >> \o end = <<Iac>> \o <<Se>>
  BY <1>1
<1> HIDE DEF end
<1>3. EscapeIac(rest) \o end \in Seq(Byte)
  BY <1>2, EscapesByte, ConcatProperties
<1>4. CASE rest = << >>
  BY <1>2, <1>3, <1>4, EscapesByte DEF end
<1>5. CASE rest # << >>
  <2> DEFINE more == EscapeIac(Tail(rest))
  <2>1. Head(rest) \in Byte /\ Tail(rest) \in Seq(Byte)
    BY <1>5
  <2>2. more \in Seq(Byte)
    BY <2>1, EscapesByte
  <2>3. Head(rest) # Iac => EscapeIac(rest) = <<Head(rest)>> \o more
    BY <1>5, EscapesByte
  <2>4. Head(rest) = Iac => EscapeIac(rest) = <<Iac>> \o (<<Iac>> \o more)
    BY <1>5, EscapesByte
  <2> HIDE DEF more
  <2>5. \A b \in Byte, x \in Seq(Byte) : /\ <<b>> \o x \in Seq(Byte)
                                         /\ (<<b>> \o x) \o end = <<b>> \o (x \o end)
    <3>1. \A b \in Byte : <<b>> \in Seq(Byte)
      OBVIOUS
    <3> QED BY <1>2, <3>1, ConcatProperties, ConcatAssociative
  <2>6. (<<Head(rest)>> \o more) \o end = <<Head(rest)>> \o (more \o end)
    BY <2>1, <2>2, <2>5
  <2>7. (<<Iac>> \o (<<Iac>> \o more)) \o end = <<Iac>> \o (<<Iac>> \o (more \o end))
    BY <1>1, <2>2, <2>5
  <2> QED BY <1>3, <1>5, <2>3, <2>4, <2>6, <2>7 DEF end, more
<1> QED BY <1>4, <1>5

\* It reads the IAC of an option, its verb, and the option.
LEMMA ReadsIac ==
  ASSUME SpeakInv, PeerReadsByte, OptionLeft
  PROVE  SpeakInv'
<1>1. PICK verb \in Verbs, option \in Byte, bytes \in Seq(Byte) :
        left = <<Iac>> \o (<<verb>> \o (<<option>> \o bytes)) /\ Follows(bytes, said.size)
  BY DEF OptionLeft
<1> DEFINE rest == <<verb>> \o (<<option>> \o bytes)
<1>2. Iac \in Byte /\ verb \in Byte /\ "iac" \in States
  BY Bytes DEF States
<1>3. rest \in Seq(Byte) /\ left = <<Iac>> \o rest
  BY <1>1, <1>2, ConsSplits
<1> HIDE DEF rest
<1>4. /\ peer' = ParseByte(peer, Iac) /\ left' = rest /\ said' = said /\ SpeakType'
      /\ peer \in Parsers /\ heard' = SizeIn(peer, Iac)
  BY <1>2, <1>3, PeerMoves
<1>5. peer' = [peer EXCEPT !.state = "iac"] /\ heard' = heard
  BY <1>4 DEF ParseByte, SizeIn, OptionLeft
<1>6. peer'.state = "iac" /\ peer'.data = peer.data
  BY <1>2, <1>4, <1>5, PeerSteps
<1>7. VerbLeft'
  BY <1>1, <1>4, <1>5, <1>6 DEF VerbLeft, OptionLeft, Commanding, rest
<1> QED BY <1>4, <1>7 DEF SpeakInv

LEMMA ReadsVerb ==
  ASSUME SpeakInv, PeerReadsByte, VerbLeft
  PROVE  SpeakInv'
<1>1. PICK verb \in Verbs, option \in Byte, bytes \in Seq(Byte) :
        left = <<verb>> \o (<<option>> \o bytes) /\ Follows(bytes, said.size)
  BY DEF VerbLeft
<1> DEFINE rest == <<option>> \o bytes
<1>2. verb \in Byte /\ verb # Iac /\ rest \in Seq(Byte) /\ left = <<verb>> \o rest
  BY <1>1, Bytes, ConsSplits
<1> HIDE DEF rest
<1>3. /\ peer' = ParseByte(peer, verb) /\ left' = rest /\ said' = said /\ SpeakType'
      /\ peer \in Parsers /\ heard' = SizeIn(peer, verb)
  BY <1>2, PeerMoves
<1>4. peer' = AfterIac(peer, verb) /\ heard' = heard
  BY <1>3 DEF ParseByte, SizeIn, VerbLeft
<1>5. peer' = [peer EXCEPT !.command = verb, !.state = "negotiation"]
  BY <1>2, <1>4 DEF AfterIac, Verbs, Iac, Sb, Do, Dont, Will, Wont
<1>6. peer'.state = "negotiation" /\ peer'.data = peer.data
  BY <1>3, <1>5 DEF Parsers
<1>7. NameLeft'
  BY <1>1, <1>3, <1>4, <1>6 DEF NameLeft, VerbLeft, Commanding, rest
<1> QED BY <1>3, <1>7 DEF SpeakInv

LEMMA ReadsName ==
  ASSUME SpeakInv, PeerReadsByte, NameLeft
  PROVE  SpeakInv'
<1>1. PICK option \in Byte, bytes \in Seq(Byte) :
        left = <<option>> \o bytes /\ Follows(bytes, said.size)
  BY DEF NameLeft
<1>2. /\ peer' = ParseByte(peer, option) /\ left' = bytes /\ said' = said /\ SpeakType'
      /\ peer \in Parsers /\ heard' = SizeIn(peer, option)
  BY <1>1, PeerMoves
<1> DEFINE answer == OptionReply(peer.command, option, peer.cols, peer.rows)
<1>3. /\ peer' = [peer EXCEPT !.response = Append(@, answer), !.command = NoCommand,
                              !.state = "data"]
      /\ heard' = heard
  BY <1>2 DEF ParseByte, SizeIn, NameLeft
<1> HIDE DEF answer
<1>4. peer'.state = "data" /\ peer'.data = peer.data
  BY <1>2, <1>3 DEF Parsers
<1>5. RestLeft'
  BY <1>1, <1>2, <1>3, <1>4 DEF RestLeft, NameLeft, Commanding
<1> QED BY <1>2, <1>5 DEF SpeakInv

\* It reads the IAC of a subnegotiation, and its SB.
LEMMA ReadsRest ==
  ASSUME SpeakInv, PeerReadsByte, RestLeft
  PROVE  SpeakInv'
<1>1. PICK held \in Seq(Byte) : FrameTells(held, said.size) /\ left = Frame(held)
  BY DEF RestLeft, Follows, PeerReadsByte
<1> DEFINE rest == <<Sb>> \o (EscapeIac(held) \o <<Iac, Se>>)
<1>2. Iac \in Byte /\ Sb \in Byte /\ "iac" \in States
  BY Bytes DEF States
<1>3. rest \in Seq(Byte) /\ left = <<Iac>> \o rest
  BY <1>1, <1>2, FrameTypes, ConsSplits
<1> HIDE DEF rest
<1>4. /\ peer' = ParseByte(peer, Iac) /\ left' = rest /\ said' = said /\ SpeakType'
      /\ peer \in Parsers /\ heard' = SizeIn(peer, Iac)
  BY <1>2, <1>3, PeerMoves
<1>5. peer' = [peer EXCEPT !.state = "iac"] /\ heard' = heard
  BY <1>4 DEF ParseByte, SizeIn, RestLeft
<1>6. peer'.state = "iac" /\ peer'.data = peer.data
  BY <1>2, <1>4, <1>5, PeerSteps
<1>7. FrameLeft'
  BY <1>1, <1>4, <1>5, <1>6 DEF FrameLeft, RestLeft, Commanding, rest
<1> QED BY <1>4, <1>7 DEF SpeakInv

LEMMA ReadsSb ==
  ASSUME SpeakInv, PeerReadsByte, FrameLeft
  PROVE  SpeakInv'
<1>1. PICK held \in Seq(Byte) :
        left = <<Sb>> \o (EscapeIac(held) \o <<Iac, Se>>) /\ FrameTells(held, said.size)
  BY DEF FrameLeft
<1> DEFINE rest == EscapeIac(held) \o <<Iac, Se>>
<1>2. Sb \in Byte /\ Sb # Iac /\ Sb \notin Verbs /\ rest \in Seq(Byte) /\ left = <<Sb>> \o rest
  BY <1>1, Bytes, EndUnfolds
<1> HIDE DEF rest
<1>3. /\ peer' = ParseByte(peer, Sb) /\ left' = rest /\ said' = said /\ SpeakType'
      /\ peer \in Parsers /\ heard' = SizeIn(peer, Sb)
  BY <1>2, PeerMoves
<1>4. peer' = AfterIac(peer, Sb) /\ heard' = heard
  BY <1>3 DEF ParseByte, SizeIn, FrameLeft
<1>5. peer' = [peer EXCEPT !.sub = << >>, !.state = "sub"]
  BY <1>2, <1>4 DEF AfterIac, Verbs
<1>6. peer'.state = "sub" /\ peer'.data = peer.data /\ peer'.sub = << >>
  BY <1>3, <1>5 DEF Parsers
<1>7. << >> \o held = held
  BY ConcatEmptySeq
<1>8. PayloadLeft'
  BY <1>1, <1>3, <1>4, <1>6, <1>7 DEF PayloadLeft, FrameLeft, Commanding, rest
<1> QED BY <1>3, <1>8 DEF SpeakInv

\* The peer has room for what remains of the frame.
LEMMA HeldFits ==
  ASSUME NEW sub \in Seq(Byte), NEW rest \in Seq(Byte), NEW dims,
         FrameTells(sub \o rest, dims), rest # << >>
  PROVE  Len(sub) # PeerLimit
<1>1. Len(sub \o rest) <= 5 /\ Len(sub \o rest) = Len(sub) + Len(rest)
  <2>1. sub \o rest \in Seq(Byte) /\ Len(sub \o rest) = Len(sub) + Len(rest)
    BY ConcatProperties
  <2>2. Len(sub \o rest) \in 4..5
    BY FrameTellsTypes
  <2> QED BY <2>1, <2>2
<1>2. Len(rest) > 0 /\ Len(rest) \in Nat /\ Len(sub) \in Nat
  OBVIOUS
<1> QED BY <1>1, <1>2, CodecAssumption

\* It reads a byte of what the subnegotiation holds, or the IAC before one or before the SE.
LEMMA ReadsPayload ==
  ASSUME SpeakInv, PeerReadsByte, PayloadLeft
  PROVE  SpeakInv'
<1>1. PICK rest \in Seq(Byte) :
        left = EscapeIac(rest) \o <<Iac, Se>> /\ FrameTells(peer.sub \o rest, said.size)
  BY DEF PayloadLeft
<1>2. Iac \in Byte /\ Se \in Byte /\ "subIac" \in States
  BY Bytes DEF States
<1>3. peer \in Parsers /\ peer.sub \in Seq(Byte) /\ peer.limit = PeerLimit /\ peer.state = "sub"
  BY DEF SpeakInv, SpeakType, Parsers, PayloadLeft
<1>4. CASE rest = << >>
  <2>1. left = <<Iac>> \o <<Se>> /\ <<Se>> \in Seq(Byte)
    <3>1. EscapeIac(rest) \o <<Iac, Se>> = <<Iac>> \o <<Se>>
      BY <1>4, EndUnfolds
    <3>2. <<Se>> \in Seq(Byte)
      BY <1>2
    <3> QED BY <1>1, <3>1, <3>2, Zenon
  <2>2. /\ peer' = ParseByte(peer, Iac) /\ left' = <<Se>> /\ said' = said /\ SpeakType'
        /\ heard' = SizeIn(peer, Iac)
    BY <1>2, <2>1, PeerMoves
  <2>3. peer' = [peer EXCEPT !.state = "subIac"] /\ heard' = heard
    BY <1>3, <2>2 DEF ParseByte, SizeIn
  <2>4. peer'.state = "subIac" /\ peer'.data = peer.data /\ peer'.sub = peer.sub
    BY <1>2, <1>3, <2>3, PeerSteps
  <2>5. peer.sub \o << >> = peer.sub
    BY <1>3, ConcatEmptySeq
  <2>6. EndLeft'
    BY <1>1, <1>4, <2>2, <2>3, <2>4, <2>5 DEF EndLeft, PayloadLeft, Commanding
  <2> QED BY <2>2, <2>6 DEF SpeakInv
<1>5. CASE rest # << >> /\ Head(rest) # Iac
  <2> DEFINE more == EscapeIac(Tail(rest)) \o <<Iac, Se>>
  <2>1. Head(rest) \in Byte /\ Tail(rest) \in Seq(Byte)
    BY <1>5
  <2>2. more \in Seq(Byte) /\ left = <<Head(rest)>> \o more
    BY <1>1, <1>5, <2>1, EndUnfolds
  <2> HIDE DEF more
  <2>3. /\ peer' = ParseByte(peer, Head(rest)) /\ left' = more /\ said' = said /\ SpeakType'
        /\ heard' = SizeIn(peer, Head(rest))
    BY <2>1, <2>2, PeerMoves
  <2>4. peer' = PushSubnegotiation(peer, Head(rest)) /\ heard' = heard
    BY <1>3, <1>5, <2>3 DEF ParseByte, SizeIn
  <2>5. Len(peer.sub) # peer.limit
    BY <1>1, <1>3, <1>5, HeldFits
  <2>6. peer' = [peer EXCEPT !.sub = Append(@, Head(rest)), !.state = "sub"]
    BY <2>4, <2>5 DEF PushSubnegotiation
  <2>7. /\ peer'.state = "sub" /\ peer'.data = peer.data
        /\ peer'.sub = Append(peer.sub, Head(rest))
    BY <1>3, <2>6 DEF Parsers
  <2>8. peer'.sub \o Tail(rest) = peer.sub \o rest
    <3>1. \A s \in Seq(Byte) : Append(s, Head(rest)) \o Tail(rest) = s \o rest
      BY <1>5, MovesOver
    <3> QED BY <1>3, <2>7, <3>1
  <2>9. PayloadLeft'
    BY <1>1, <2>1, <2>3, <2>4, <2>7, <2>8 DEF PayloadLeft, Commanding, more
  <2> QED BY <2>3, <2>9 DEF SpeakInv
<1>6. CASE rest # << >> /\ Head(rest) = Iac
  <2> DEFINE end == EscapeIac(Tail(rest)) \o <<Iac, Se>>
             more == <<Iac>> \o end
  <2>1. Tail(rest) \in Seq(Byte)
    BY <1>6
  <2>2. end \in Seq(Byte) /\ left = <<Iac>> \o more
    BY <1>1, <1>6, <2>1, EndUnfolds
  <2> HIDE DEF end
  <2>3. more \in Seq(Byte)
    BY <1>2, <2>2, ConsSplits
  <2> HIDE DEF more
  <2>4. /\ peer' = ParseByte(peer, Iac) /\ left' = more /\ said' = said /\ SpeakType'
        /\ heard' = SizeIn(peer, Iac)
    BY <1>2, <2>2, <2>3, PeerMoves
  <2>5. peer' = [peer EXCEPT !.state = "subIac"] /\ heard' = heard
    BY <1>3, <2>4 DEF ParseByte, SizeIn
  <2>6. peer'.state = "subIac" /\ peer'.data = peer.data /\ peer'.sub = peer.sub
    BY <1>2, <1>3, <2>5, PeerSteps
  <2>7. rest = <<Iac>> \o Tail(rest)
    <3>1. << >> \in Seq(Byte)
      OBVIOUS
    <3>2. /\ Append(<< >>, Head(rest)) \o Tail(rest) = << >> \o rest
          /\ << >> \o rest = rest
      BY <1>6, <3>1, MovesOver, ConcatEmptySeq
    <3>3. Append(<< >>, Head(rest)) = <<Iac>>
      BY <1>6
    <3> QED BY <3>2, <3>3
  <2>8. PayloadEscaped'
    BY <1>1, <2>1, <2>4, <2>5, <2>6, <2>7 DEF PayloadEscaped, PayloadLeft, Commanding, more, end
  <2> QED BY <2>4, <2>8 DEF SpeakInv
<1> QED BY <1>4, <1>5, <1>6

\* It reads the other IAC, or the SE.
LEMMA ReadsEscapedPayload ==
  ASSUME SpeakInv, PeerReadsByte, PayloadEscaped
  PROVE  SpeakInv'
<1>1. PICK rest \in Seq(Byte) : /\ left = <<Iac>> \o (EscapeIac(rest) \o <<Iac, Se>>)
                                /\ FrameTells(peer.sub \o (<<Iac>> \o rest), said.size)
  BY DEF PayloadEscaped
<1> DEFINE more == EscapeIac(rest) \o <<Iac, Se>>
           whole == <<Iac>> \o rest
<1>2. Iac \in Byte /\ Iac # Se /\ more \in Seq(Byte) /\ left = <<Iac>> \o more
  BY <1>1, Bytes, EndUnfolds
<1>3. whole \in Seq(Byte) /\ whole # << >> /\ Head(whole) = Iac /\ Tail(whole) = rest
  BY <1>2, ConsSplits
<1>4. FrameTells(peer.sub \o whole, said.size)
  BY <1>1
<1> HIDE DEF more, whole
<1>5. /\ peer \in Parsers /\ peer.sub \in Seq(Byte) /\ peer.limit = PeerLimit
      /\ peer.state = "subIac"
  BY DEF SpeakInv, SpeakType, Parsers, PayloadEscaped
<1>6. /\ peer' = ParseByte(peer, Iac) /\ left' = more /\ said' = said /\ SpeakType'
      /\ heard' = SizeIn(peer, Iac)
  BY <1>2, PeerMoves
<1>7. peer' = AfterSubIac(peer, Iac) /\ heard' = heard
  BY <1>2, <1>5, <1>6 DEF ParseByte, SizeIn
<1>8. Len(peer.sub) # peer.limit
  BY <1>3, <1>4, <1>5, HeldFits
<1>9. peer' = [peer EXCEPT !.sub = Append(@, Iac), !.state = "sub"]
  <2>1. AfterSubIac(peer, Iac) = PushSubnegotiation(peer, Iac)
    BY <1>2 DEF AfterSubIac
  <2> QED BY <1>7, <1>8, <2>1 DEF PushSubnegotiation
<1>10. peer'.state = "sub" /\ peer'.data = peer.data /\ peer'.sub = Append(peer.sub, Iac)
  BY <1>5, <1>9 DEF Parsers
<1>11. peer'.sub \o rest = peer.sub \o whole
  <2>1. \A s \in Seq(Byte) : Append(s, Head(whole)) \o Tail(whole) = s \o whole
    BY <1>3, MovesOver
  <2> QED BY <1>3, <1>5, <1>10, <2>1
<1>12. PayloadLeft'
  BY <1>4, <1>6, <1>7, <1>10, <1>11 DEF PayloadLeft, PayloadEscaped, Commanding, more
<1> QED BY <1>6, <1>12 DEF SpeakInv

LEMMA ReadsEnd ==
  ASSUME SpeakInv, PeerReadsByte, EndLeft
  PROVE  SpeakInv'
<1>1. left = <<Se>> /\ FrameTells(peer.sub, said.size) /\ peer.state = "subIac" /\ heard = Untold
  BY DEF EndLeft
<1>2. Se \in Byte /\ << >> \in Seq(Byte) /\ left = <<Se>> \o << >> /\ Se # Iac
  BY <1>1, Bytes
<1>3. /\ peer' = ParseByte(peer, Se) /\ left' = << >> /\ said' = said /\ SpeakType'
      /\ peer \in Parsers /\ heard' = SizeIn(peer, Se)
  BY <1>2, PeerMoves
<1> DEFINE replies == FrameReply(peer.sub, peer.cols, peer.rows)
<1>4. peer' = [peer EXCEPT !.response = @ \o replies, !.sub = << >>, !.state = "data"]
  BY <1>1, <1>2, <1>3 DEF ParseByte, AfterSubIac
<1> HIDE DEF replies
<1>5. peer'.state = "data" /\ peer'.data = peer.data
  BY <1>3, <1>4 DEF Parsers
<1>6. heard' = said.size
  BY <1>1, <1>3, FrameTellsTypes DEF SizeIn
<1>7. AllHeard'
  BY <1>3, <1>5, <1>6 DEF AllHeard, EndLeft, Commanding
<1> QED BY <1>3, <1>7 DEF SpeakInv

\* It reads a byte, whichever it is.
LEMMA PeerReadsKept ==
  ASSUME SpeakInv, PeerReadsByte
  PROVE  SpeakInv'
<1>1. ~AllHeard
  BY DEF AllHeard, PeerReadsByte
<1> QED BY <1>1, ReadsText, ReadsEscaped, ReadsIac, ReadsVerb, ReadsName, ReadsRest, ReadsSb,
           ReadsPayload, ReadsEscapedPayload, ReadsEnd DEF SpeakInv

\* SpeakInv holds of every state of the codec.
THEOREM CodecSpeaks == CodecSpec => [](ReadInv /\ SpeakInv)
<1>1. CodecInit => SpeakInv
  BY SpeakInit
<1>2. ReadInv /\ SpeakInv /\ [CodecNext]_codecVars => SpeakInv'
  <2> SUFFICES ASSUME ReadInv, SpeakInv, [CodecNext]_codecVars PROVE SpeakInv'
    OBVIOUS
  <2>1. out \in Seq(Sayable)
    BY DEF SpeakInv, SpeakType
  <2>2. CASE PeerSends \/ ReadByte \/ UNCHANGED codecVars
    <3>1. out' = out /\ UNCHANGED telling
      BY <2>2 DEF PeerSends, ReadByte, codecVars
    <3> QED BY <2>1, <3>1, SpeakQueued
  <2>3. CASE EndRead
    BY <2>3, RepliesQueued
  <2>4. CASE \E dims \in Size : ResizeTo(dims)
    BY <2>4, SizeQueued
  <2>5. CASE \E text \in Text : WriteText(text)
    BY <2>5, TextQueued
  <2>6. CASE TakeMessage
    BY <2>6, MessageTaken
  <2>7. CASE PeerReadsByte
    BY <2>7, PeerReadsKept
  <2> QED BY <2>2, <2>3, <2>4, <2>5, <2>6, <2>7 DEF CodecNext
<1> QED BY <1>1, <1>2, CodecReads, PTL DEF CodecSpec

\* What the program writes is understood by a peer with the same rules: the bytes of the
\* user as they are, with nothing in them to answer, and every size as it is (telnet/codec.rs,
\* escape_iac_bytes and build_naws).
THEOREM PeerUnderstandsHolds == CodecSpec => []PeerUnderstands
<1>1. SpeakInv => PeerUnderstands
  <2> SUFFICES ASSUME SpeakInv, left = << >> 
               PROVE  /\ peer.state = "data" /\ peer.data = said.text /\ heard = said.size
                      /\ said.text # << >> => peer.response = << >>
    BY DEF PeerUnderstands
  <2>1. CASE Reciting /\ peer.state = "data" /\ peer.data = said.text
    BY <2>1 DEF Reciting
  <2>2. CASE AllHeard
    BY <2>2 DEF AllHeard, Commanding
  <2> QED BY <2>1, <2>2, NothingLeft
<1> QED BY <1>1, CodecSpeaks, PTL

\* Neither side takes a command for data or data for a command: both of these together.
THEOREM CodecIsTransparentHolds == CodecSpec => []CodecIsTransparent
<1>1. PeerIsUnderstood /\ PeerUnderstands => CodecIsTransparent
  BY DEF CodecIsTransparent
<1> QED BY <1>1, PeerIsUnderstoodHolds, PeerUnderstandsHolds, PTL
=============================================================================
