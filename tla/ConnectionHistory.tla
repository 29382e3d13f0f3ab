-------------------------- MODULE ConnectionHistory --------------------------
(***************************************************************************)
(* The history of SSH and Telnet connections, beside the configuration     *)
(* that switches it on (src-tauri/src/connection_history.rs).              *)
(*                                                                         *)
(* A command holds the history's own lock; the switch is read before that, *)
(* under the lock of the configuration.  The clock advances between two    *)
(* records.                                                               *)
(***************************************************************************)
EXTENDS Settings, SequencesExt

CONSTANTS
  Switch, On,   \* the setting that switches the history on, and its value then
  Kind,         \* "ssh" and "telnet"
  Input,        \* connections: their kind, their host and how it is spelled
  NoInput,
  MaxEntries    \* entries kept of each kind; 10 in the program

ASSUME HistoryAssumption ==
  /\ Switch \in Setting /\ On \in Values[Switch]
  /\ \A input \in Input : input.kind \in Kind
  /\ NoInput \notin Input
  /\ MaxEntries \in Nat \ {0}

VARIABLES
  history,    \* connection_history.json: whether it can be read, and its entries
  recording,  \* what each window records at the moment
  ids,        \* entries written so far, the source of new identifiers
  visits,     \* connections recorded since the history was last cleared
  thinned     \* an entry was deleted since then

historyVars == <<history, recording, ids, visits, thinned>>
allVars == <<vars, historyVars>>

HistoryInit ==
  /\ Init
  /\ history = [readable |-> TRUE, entries |-> << >>]
  /\ recording = [w \in Window |-> NoInput]
  /\ ids = 0 /\ visits = << >> /\ thinned = FALSE

\* Mutant of SameDestination: hosts are compared as they are spelled.
SameSpelling(left, right) ==
  left.kind = right.kind /\ left.host = right.host /\ left.spelling = right.spelling

\* same_destination.
SameDestination(left, right) == left.kind = right.kind /\ left.host = right.host

\* Vec::retain: the entries at these positions, in their order.
Retain(entries, kept) ==
  [k \in 1..Cardinality(kept) |->
     entries[CHOOSE i \in kept : Cardinality({j \in kept : j <= i}) = k]]

\* sort_and_limit, of entries sorted by their time.
SortAndLimit(entries) ==
  LET Before(i) == {j \in 1..i : entries[j].at.kind = entries[i].at.kind}
  IN  Retain(entries, {i \in DOMAIN entries : Cardinality(Before(i)) <= MaxEntries})

\* upsert_history: the entry of the destination keeps its identifier.
UpsertHistory(entries, input) ==
  LET same == {i \in DOMAIN entries : SameDestination(entries[i].at, input)}
      id == IF same = {} THEN ids + 1 ELSE entries[CHOOSE i \in same : \A j \in same : i <= j].id
  IN  SortAndLimit(<<[id |-> id, at |-> input]>> \o Retain(entries, DOMAIN entries \ same))

\* connection_history_record reads the switch.
BeginRecord(w, input) ==
  /\ Free
  /\ recording[w] = NoInput
  /\ ReadSettings[Switch] = On
  /\ commands' = commands + 1
  /\ recording' = [recording EXCEPT ![w] = input]
  /\ UNCHANGED <<file, profiles, view, job, failures, history, ids, visits, thinned>>

\* Under the lock of the history, the entry is written; a history that cannot be read
\* makes the command fail.
Record(w) ==
  /\ recording[w] # NoInput
  /\ recording' = [recording EXCEPT ![w] = NoInput]
  /\ IF history.readable
     THEN /\ history' = [history EXCEPT !.entries = UpsertHistory(@, recording[w])]
          /\ ids' = ids + 1
          /\ visits' = Append(visits, recording[w])
     ELSE UNCHANGED <<history, ids, visits>>
  /\ UNCHANGED <<vars, thinned>>

\* fs::write stops after it has truncated the file.
RecordFails(w) ==
  /\ recording[w] # NoInput /\ history.readable
  /\ failures < MaxFailures /\ failures' = failures + 1
  /\ history' = [readable |-> FALSE, entries |-> << >>]
  /\ recording' = [recording EXCEPT ![w] = NoInput]
  /\ UNCHANGED <<file, profiles, view, job, commands, ids, visits, thinned>>

\* connection_history_delete, of an entry that a window still shows.
DeleteEntry(id) ==
  LET same == {i \in DOMAIN history.entries : history.entries[i].id = id} IN
  /\ history.readable /\ same # {}
  /\ history' = [history EXCEPT !.entries = Retain(@, DOMAIN @ \ same)]
  /\ thinned' = TRUE
  /\ UNCHANGED <<vars, recording, ids, visits>>

\* connection_history_clear removes the file, also one that cannot be read.
ClearHistory ==
  /\ ids > 0 \/ ~history.readable
  /\ history' = [readable |-> TRUE, entries |-> << >>]
  /\ visits' = << >> /\ thinned' = FALSE
  /\ UNCHANGED <<vars, recording, ids>>

HistoryNext ==
  \/ Command /\ UNCHANGED historyVars
  \/ Restart /\ recording' = [w \in Window |-> NoInput] /\ UNCHANGED <<history, ids, visits, thinned>>
  \/ \E w \in Window :
       \/ \E input \in Input : BeginRecord(w, input)
       \/ Record(w)
       \/ RecordFails(w)
  \/ \E id \in 1..MaxCommands : DeleteEntry(id)
  \/ ClearHistory

HistorySpec == HistoryInit /\ [][HistoryNext]_allVars

-----------------------------------------------------------------------------
(* Properties.                                                             *)

\* The latest connection to a destination.
LastVisit(at) ==
  LET same == {i \in DOMAIN visits :
                 visits[i].kind = at.kind /\ visits[i].host = at.host}
  IN  IF same = {} THEN 0 ELSE Max(same)

Listed(at) ==
  \E i \in DOMAIN history.entries :
    history.entries[i].at.kind = at.kind /\ history.entries[i].at.host = at.host

OfKind(kind) == {i \in DOMAIN history.entries : history.entries[i].at.kind = kind}

\* The history lists the latest connections, each destination once however it was
\* spelled, the latest first and up to the limit of its kind, with one identifier per
\* entry; and unless an entry was deleted, only the limit keeps a destination out.
HistoryIsRecent ==
  /\ \A i, j \in DOMAIN history.entries : i < j =>
       /\ LastVisit(history.entries[i].at) > LastVisit(history.entries[j].at)
       /\ history.entries[i].id # history.entries[j].id
  /\ \A kind \in Kind : Cardinality(OfKind(kind)) <= MaxEntries
  /\ history.readable /\ ~thinned =>
       \A v \in DOMAIN visits :
         \/ Listed(visits[v])
         \/ /\ Cardinality(OfKind(visits[v].kind)) = MaxEntries
            /\ \A i \in OfKind(visits[v].kind) :
                 LastVisit(history.entries[i].at) > LastVisit(visits[v])
=============================================================================
