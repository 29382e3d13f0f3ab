------------------------------ MODULE Settings ------------------------------
(***************************************************************************)
(* The configuration store: settings edited by several windows at once,    *)
(* saved connection profiles, and the migration of earlier files           *)
(* (src-tauri/src/config.rs).                                              *)
(*                                                                         *)
(* A command holds the file lock from its reading to its last write; the   *)
(* program may end between two writes, a write may fail, and CLI and MCP   *)
(* processes, which do not share the lock, read between any two steps.     *)
(* The order of the profiles is left out, and one connection type stands   *)
(* for both.                                                               *)
(***************************************************************************)
EXTENDS Naturals, Sequences, FiniteSets

CONSTANTS
  Window,
  Setting,       \* what is merged on its own: a leaf, or a whole shortcut
  Shortcut,      \* the settings that are shortcuts
  Values,        \* the values of each setting
  Default,       \* the default of each setting
  Canonical,     \* the normalized spelling of each value
  Unassigned,    \* a shortcut without a binding
  Unusable,      \* values of the file format that validation refuses
  Missing,       \* no such member in the file
  Absent,        \* no such file, or no list of profiles
  Name,          \* identifiers of profiles
  Data,          \* the rest of a profile
  FirstFiles,    \* the files the first start may find
  MaxCommands,   \* bound: commands
  MaxFailures    \* bound: writes that fail and ends of the program

ValueSet == UNION {Values[s] : s \in Setting}
ProfileSets == UNION {[S -> Data] : S \in SUBSET Name}

ASSUME SettingsAssumption ==
  /\ Shortcut \subseteq Setting
  /\ \A s \in Setting : Default[s] \in Values[s]
  /\ \A s \in Setting : \A v \in Values[s] :
       Canonical[v] \in Values[s] /\ Canonical[Canonical[v]] = Canonical[v]
  /\ Missing \notin ValueSet /\ Absent \notin ProfileSets
  /\ Absent \notin Name
  /\ \A f \in FirstFiles :
       /\ \A s \in Setting : {f.members[s], f.renamed[s]} \subseteq Values[s] \cup {Missing}
       /\ f.profiles \in ProfileSets \cup {Absent}

VARIABLES
  file,      \* config.json
  profiles,  \* connection_profiles.json
  view,      \* the configuration each window works from, Absent until it has loaded one
  job,       \* the command that holds the lock
  commands,  \* commands so far
  failures   \* failures so far

vars == <<file, profiles, view, job, commands, failures>>

Idle == [asked |-> [kind |-> "none"]]

-----------------------------------------------------------------------------
(* Reading.                                                                *)

\* AppConfig::deserialize: a missing member has the name of an earlier version (the
\* section mcp, allow_legacy_algorithms), or the default.
Earlier(s) == IF file.renamed[s] # Missing THEN file.renamed[s] ELSE Default[s]

Deserialized(s) == IF file.members[s] # Missing THEN file.members[s] ELSE Earlier(s)

\* ShortcutConfig::normalize, and AppConfig::migrate with it.
Normalized(s, v) == IF s \in Shortcut THEN Canonical[v] ELSE v
Migrate(c) == [s \in Setting |-> Normalized(s, c[s])]

\* validate_keepalive, validate_algorithm_config and the checks of a single shortcut.
EachUsable(c) == \A s \in Setting : c[s] \notin Unusable

\* validate_shortcut_config: no two shortcuts are the same.
ShortcutsDiffer(c) ==
  \A s, t \in Shortcut : s # t => c[s] = Unassigned \/ c[s] # c[t]

Valid(c) == EachUsable(c) /\ ShortcutsDiffer(c)

\* config_read_from_path: the settings and the profiles, of which the separate file
\* has the last word.
ReadSettings == Migrate([s \in Setting |-> Deserialized(s)])

NoProfiles == [n \in {} |-> CHOOSE d \in Data : TRUE]

ReadProfiles ==
  IF profiles # Absent THEN profiles
  ELSE IF file.profiles # Absent THEN file.profiles
  ELSE NoProfiles

\* settings_value: config.json as this version writes it.
SettingsValue(c) ==
  [members |-> c, renamed |-> [s \in Setting |-> Missing], profiles |-> Absent, current |-> TRUE]

\* Whether loading writes the files.
ShouldWrite == profiles = Absent \/ file # SettingsValue(ReadSettings)

-----------------------------------------------------------------------------
(* Writing.                                                                *)

WriteSettings(c) == [target |-> "settings", value |-> c]
WriteProfiles(p) == [target |-> "profiles", value |-> p]

\* Mutant of ConfigWrite: the profiles leave config.json before they have been copied.
SettingsFirst(c, p) ==
  <<WriteSettings(c)>> \o (IF profiles = Absent THEN <<WriteProfiles(p)>> ELSE << >>)

\* config_write_to_path.
ConfigWrite(c, p) ==
  (IF profiles = Absent THEN <<WriteProfiles(p)>> ELSE << >>) \o <<WriteSettings(c)>>

\* save_connection_profiles.
SaveProfiles(c, p) ==
  <<WriteProfiles(p)>> \o (IF ShouldWrite THEN <<WriteSettings(c)>> ELSE << >>)

Init ==
  /\ file \in FirstFiles
  /\ profiles \in {Absent, NoProfiles}
  /\ Valid(ReadSettings)
  /\ view = [w \in Window |-> Absent]
  /\ job = Idle
  /\ commands = 0 /\ failures = 0

\* The lock is free.
Free == job = Idle /\ commands < MaxCommands

\* A command has read the files and goes on to its writes, or has nothing to write.
Run(w, command, writes, answer) ==
  /\ commands' = commands + 1
  /\ IF writes = << >>
     THEN view' = [view EXCEPT ![w] = answer] /\ UNCHANGED job
     ELSE job' = [asked |-> command, window |-> w, writes |-> writes, answer |-> answer]
          /\ UNCHANGED view
  /\ UNCHANGED <<file, profiles, failures>>

\* config_load, at the start, and when a window opens or hears of an update.
ConfigLoad(w) ==
  /\ Free
  /\ Run(w, [kind |-> "load"],
         IF ShouldWrite THEN ConfigWrite(ReadSettings, ReadProfiles) ELSE << >>, ReadSettings)

\* Mutant of MergeEditedConfig: the window's configuration replaces the stored one.
TakeEdited(base, edited, latest) == Migrate(edited)

\* merge_edited_config: what the user has changed, in what is stored now.
MergeEditedConfig(base, edited, latest) ==
  Migrate([s \in Setting |-> IF base[s] = edited[s] THEN latest[s] ELSE edited[s]])

\* Mutant of SaveRefused: the user's edit is validated, not what becomes of it.
EditRefused(edited, merged) == ~Valid(edited)

\* validate_config in config_save.
SaveRefused(edited, merged) == ~Valid(merged)

\* config_save of what the user has made of the window's configuration, here by editing
\* up to two settings.
ConfigSave(w, edited) ==
  LET base == Migrate(view[w])
      merged == MergeEditedConfig(base, Migrate(edited), ReadSettings)
  IN  /\ Free
      /\ ~SaveRefused(Migrate(edited), merged)
      /\ Run(w, [kind |-> "save", base |-> base, edited |-> Migrate(edited)],
             IF ShouldWrite \/ merged # ReadSettings
             THEN ConfigWrite(merged, ReadProfiles) ELSE << >>,
             merged)

\* upsert_saved_connection: profile n, new or in the place of the profile previous.
Upserted(previous, n, d) ==
  [m \in (DOMAIN ReadProfiles \ {previous}) \cup {n} |->
     IF m = n THEN d ELSE ReadProfiles[m]]

\* The names are checked against the latest profiles.
CanUpsert(previous, n) ==
  /\ n \in DOMAIN ReadProfiles => previous = n
  /\ previous # Absent => previous \in DOMAIN ReadProfiles

\* config_saved_connection_upsert; the input has passed validate_saved_connection_identity.
UpsertProfile(w, previous, n, d) ==
  LET changed == ShouldWrite \/ Upserted(previous, n, d) # ReadProfiles IN
  /\ Free /\ view[w] # Absent
  /\ CanUpsert(previous, n)
  /\ Run(w, [kind |-> "upsert", previous |-> previous, name |-> n],
         IF changed THEN SaveProfiles(ReadSettings, Upserted(previous, n, d)) ELSE << >>,
         ReadSettings)

\* config_saved_connection_delete.
DeleteProfile(w, n) ==
  /\ Free /\ view[w] # Absent
  /\ n \in DOMAIN ReadProfiles
  /\ Run(w, [kind |-> "delete", previous |-> n, name |-> n],
         SaveProfiles(ReadSettings, [m \in DOMAIN ReadProfiles \ {n} |-> ReadProfiles[m]]),
         ReadSettings)

\* write_json_atomically: a temporary file renamed over the other.
WriteNext ==
  LET write == Head(job.writes) IN
  /\ job # Idle
  /\ IF write.target = "profiles"
     THEN profiles' = write.value /\ UNCHANGED file
     ELSE file' = SettingsValue(write.value) /\ UNCHANGED profiles
  /\ IF Len(job.writes) = 1
     THEN job' = Idle /\ view' = [view EXCEPT ![job.window] = job.answer]
     ELSE job' = [job EXCEPT !.writes = Tail(@)] /\ UNCHANGED view
  /\ UNCHANGED <<commands, failures>>

\* A write fails, and the command with it; what it has written stays.
WriteFails ==
  /\ job # Idle /\ failures < MaxFailures
  /\ failures' = failures + 1
  /\ job' = Idle
  /\ UNCHANGED <<file, profiles, view, commands>>

\* The program ends, within a command or not, and is started again.
Restart ==
  /\ failures < MaxFailures
  /\ failures' = failures + 1
  /\ job' = Idle
  /\ view' = [w \in Window |-> Absent]
  /\ UNCHANGED <<file, profiles, commands>>

Command ==
  \/ \E w \in Window :
       \/ ConfigLoad(w)
       \/ \E s, t \in Setting : \E u \in Values[s], v \in Values[t] :
            view[w] # Absent /\ ConfigSave(w, [view[w] EXCEPT ![s] = u, ![t] = v])
       \/ \E previous \in Name \cup {Absent}, n \in Name, d \in Data :
            UpsertProfile(w, previous, n, d)
       \/ \E n \in Name : DeleteProfile(w, n)
  \/ WriteNext
  \/ WriteFails

Next == Command \/ Restart

Spec == Init /\ [][Next]_vars

-----------------------------------------------------------------------------
(* Properties.                                                             *)

\* Whatever was saved, migrated or left behind by a failure can be read again: two
\* windows whose edits are each valid never leave a file that no start accepts.
AlwaysLoadable == Valid(ReadSettings)

\* The settings a user has changed in the save under way.
Edited(s) == job.asked.kind = "save" /\ job.asked.base[s] # job.asked.edited[s]

\* A setting changes only when a save writes it, to the value its user chose: an edit
\* of another window in the meantime, an edit that failed, an upgrade or the end of the
\* program between two writes neither revert nor alter it.
EditsMerge ==
  [][\A s \in Setting : ReadSettings'[s] # ReadSettings[s] =>
       Edited(s) /\ ReadSettings'[s] = job.asked.edited[s]]_vars

ProfileOf(n, p) == IF n \in DOMAIN p THEN <<p[n]>> ELSE << >>

\* A profile appears, changes or disappears only by the command that names it, and a
\* new one does not replace another of its name; its move to a file of its own loses
\* none, whichever write of it fails (the comment in config_write_to_path).
ProfilesSurvive ==
  [][\A n \in Name : ProfileOf(n, ReadProfiles)' # ProfileOf(n, ReadProfiles) =>
       /\ job.asked.kind \in {"upsert", "delete"}
       /\ n \in {job.asked.previous, job.asked.name}
       /\ job.asked.previous # n => n \notin DOMAIN ReadProfiles]_vars
=============================================================================
