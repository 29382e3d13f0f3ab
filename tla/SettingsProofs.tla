---------------------------- MODULE SettingsProofs ----------------------------
(***************************************************************************)
(* Proofs about the configuration store and the history of connections,    *)
(* for any windows, settings, shortcuts, profiles, first files and         *)
(* connections, and any number of commands and failures.                   *)
(*                                                                         *)
(* SettingsInv says what the command that holds the lock is about to write:*)
(* settings that validation accepts and that differ from the stored ones   *)
(* only where the user has edited them, and profiles that differ only where*)
(* the command says so; and that config.json is written without the        *)
(* profiles only once they are in a file of their own.                     *)
(*                                                                         *)
(* HistoryInv adds to HistoryIsRecent the ranges of the identifiers.  The  *)
(* lemmas before it are about Retain: its counting numbers the positions   *)
(* kept in their order, so that the list it makes has of each kind as many *)
(* entries as were kept of that kind.                                      *)
(***************************************************************************)
EXTENDS ConnectionHistory, SequenceTheorems, FiniteSetTheorems, TLAPS

Configs == {c \in [Setting -> ValueSet] : \A s \in Setting : c[s] \in Values[s]}

FileOk ==
  /\ \A s \in Setting : file.members[s] \in Values[s] \union {Missing}
  /\ \A s \in Setting : file.renamed[s] \in Values[s] \union {Missing}
  /\ file.profiles \in ProfileSets \union {Absent}

\* What a command may write as settings, and as profiles.
GoodSettings(asked, c) ==
  /\ c \in Configs /\ Migrate(c) = c /\ Valid(c)
  /\ \A s \in Setting : c[s] # ReadSettings[s] =>
       /\ asked.kind = "save" /\ asked.base[s] # asked.edited[s]
       /\ c[s] = asked.edited[s]

GoodProfiles(asked, p) ==
  /\ p \in ProfileSets
  /\ \A n \in Name : ProfileOf(n, p) # ProfileOf(n, ReadProfiles) =>
       /\ asked.kind \in {"upsert", "delete"}
       /\ n \in {asked.previous, asked.name}
       /\ asked.previous # n => n \notin DOMAIN ReadProfiles

OneWrite(asked, ws) ==
  \/ \E c : ws = <<WriteSettings(c)>> /\ GoodSettings(asked, c) /\ profiles # Absent
  \/ \E p : ws = <<WriteProfiles(p)>> /\ GoodProfiles(asked, p)

TwoWrites(asked, ws) ==
  \E p, c : /\ ws = <<WriteProfiles(p), WriteSettings(c)>>
            /\ GoodProfiles(asked, p) /\ GoodSettings(asked, c)

WritesOk(asked, ws) == OneWrite(asked, ws) \/ TwoWrites(asked, ws)

JobOk ==
  /\ job = [asked |-> job.asked, window |-> job.window, writes |-> job.writes,
            answer |-> job.answer]
  /\ job.answer \in Configs
  /\ WritesOk(job.asked, job.writes)

SettingsInv ==
  /\ FileOk
  /\ profiles \in ProfileSets \union {Absent}
  /\ Valid(ReadSettings)
  /\ view \in [Window -> Configs \union {Absent}]
  /\ job # Idle => JobOk

-----------------------------------------------------------------------------
(* Settings.                                                               *)

LEMMA NormalizedKeeps ==
  ASSUME NEW s \in Setting, NEW v \in Values[s]
  PROVE  /\ Normalized(s, v) \in Values[s]
         /\ Normalized(s, Normalized(s, v)) = Normalized(s, v)
  BY SettingsAssumption DEF Normalized

LEMMA MigrateKeeps ==
  ASSUME NEW c, \A s \in Setting : c[s] \in Values[s]
  PROVE  /\ Migrate(c) \in Configs
         /\ Migrate(Migrate(c)) = Migrate(c)
         /\ \A s \in Setting : Migrate(c)[s] = Normalized(s, c[s])
<1>1. \A s \in Setting : Migrate(c)[s] = Normalized(s, c[s])
  BY DEF Migrate
<1>2. \A s \in Setting : Migrate(c)[s] \in Values[s]
  BY <1>1, NormalizedKeeps
<1>3. Migrate(c) \in [Setting -> ValueSet]
  BY <1>2 DEF Migrate, ValueSet
<1>4. Migrate(Migrate(c)) = Migrate(c)
  <2>1. \A s \in Setting : Normalized(s, Migrate(c)[s]) = Migrate(c)[s]
    BY <1>1, NormalizedKeeps
  <2> QED BY <2>1 DEF Migrate
<1> QED BY <1>1, <1>2, <1>3, <1>4 DEF Configs

LEMMA ReadSettingsIsConfig ==
  ASSUME FileOk
  PROVE  ReadSettings \in Configs /\ Migrate(ReadSettings) = ReadSettings
<1> DEFINE d == [s \in Setting |-> Deserialized(s)]
<1>1. \A s \in Setting : d[s] \in Values[s]
  BY SettingsAssumption DEF FileOk, Deserialized, Earlier
<1>2. ReadSettings = Migrate(d)
  BY DEF ReadSettings
<1> HIDE DEF d
<1> QED BY <1>1, <1>2, MigrateKeeps

LEMMA ReadBack ==
  ASSUME NEW c \in Configs, Migrate(c) = c, file' = SettingsValue(c)
  PROVE  ReadSettings' = c /\ FileOk'
<1>1. \A s \in Setting : file'.members[s] = c[s] /\ file'.renamed[s] = Missing
  BY DEF SettingsValue
<1>2. \A s \in Setting : c[s] # Missing
  BY SettingsAssumption DEF Configs, ValueSet
<1>3. \A s \in Setting : Deserialized(s)' = c[s]
  BY <1>1, <1>2 DEF Deserialized
<1>4. ReadSettings' = Migrate(c)
  BY <1>3 DEF ReadSettings, Migrate
<1>5. FileOk'
  BY <1>1 DEF FileOk, SettingsValue, Configs
<1> QED BY <1>4, <1>5

LEMMA SaveIsGood ==
  ASSUME NEW base \in Configs, NEW edited \in Configs, Migrate(edited) = edited, FileOk
  PROVE  LET merged == MergeEditedConfig(base, edited, ReadSettings) IN
         /\ merged \in Configs /\ Migrate(merged) = merged
         /\ \A s \in Setting : merged[s] # ReadSettings[s] =>
              base[s] # edited[s] /\ merged[s] = edited[s]
<1> DEFINE d == [s \in Setting |-> IF base[s] = edited[s] THEN ReadSettings[s] ELSE edited[s]]
<1>1. \A s \in Setting : d[s] \in Values[s]
  BY ReadSettingsIsConfig DEF Configs
<1>2. MergeEditedConfig(base, edited, ReadSettings) = Migrate(d)
  BY DEF MergeEditedConfig
<1>3. \A s \in Setting : d[s] = IF base[s] = edited[s] THEN ReadSettings[s] ELSE edited[s]
  OBVIOUS
<1> HIDE DEF d
<1>4. \A s \in Setting : /\ Normalized(s, edited[s]) = edited[s]
                         /\ Normalized(s, ReadSettings[s]) = ReadSettings[s]
  BY ReadSettingsIsConfig, MigrateKeeps DEF Configs
<1>5. \A s \in Setting : Migrate(d)[s] = d[s]
  BY <1>1, <1>3, <1>4, MigrateKeeps
<1> QED BY <1>1, <1>2, <1>3, <1>5, MigrateKeeps

-----------------------------------------------------------------------------
(* Profiles.                                                               *)

LEMMA ReadProfilesTyped ==
  ASSUME FileOk, profiles \in ProfileSets \union {Absent}
  PROVE  ReadProfiles \in ProfileSets
<1>1. NoProfiles \in [{} -> Data]
  BY DEF NoProfiles
<1>2. NoProfiles \in ProfileSets
  BY <1>1 DEF ProfileSets
<1> QED BY <1>2 DEF FileOk, ReadProfiles

LEMMA ProfilesOver ==
  ASSUME NEW p \in ProfileSets
  PROVE  /\ DOMAIN p \subseteq Name
         /\ \A n \in DOMAIN p : p[n] \in Data
  BY DEF ProfileSets

LEMMA IsProfiles ==
  ASSUME NEW S \in SUBSET Name, NEW p \in [S -> Data]
  PROVE  p \in ProfileSets
  BY DEF ProfileSets

LEMMA SameProfiles ==
  ASSUME SettingsInv, NEW asked
  PROVE  GoodProfiles(asked, ReadProfiles)
  BY ReadProfilesTyped DEF SettingsInv, GoodProfiles

LEMMA UpsertIsGood ==
  ASSUME SettingsInv, NEW previous \in Name \union {Absent}, NEW n \in Name, NEW d \in Data,
         NEW asked, asked.kind = "upsert", asked.previous = previous, asked.name = n,
         CanUpsert(previous, n)
  PROVE  GoodProfiles(asked, Upserted(previous, n, d))
<1> DEFINE S == (DOMAIN ReadProfiles \ {previous}) \union {n}
           p == [m \in S |-> IF m = n THEN d ELSE ReadProfiles[m]]
<1>1. ReadProfiles \in ProfileSets
  BY ReadProfilesTyped DEF SettingsInv
<1>2. S \in SUBSET Name /\ p \in [S -> Data]
  BY <1>1, ProfilesOver
<1>3. p \in ProfileSets
  BY <1>2, IsProfiles
<1>4. ASSUME NEW m \in Name, ProfileOf(m, p) # ProfileOf(m, ReadProfiles)
      PROVE  m \in {previous, n} /\ (previous # m => m \notin DOMAIN ReadProfiles)
  <2>1. m \notin {previous, n} => ProfileOf(m, p) = ProfileOf(m, ReadProfiles)
    BY DEF ProfileOf
  <2> QED BY <1>4, <2>1 DEF CanUpsert
<1> QED BY <1>3, <1>4 DEF GoodProfiles, Upserted

LEMMA DeleteIsGood ==
  ASSUME SettingsInv, NEW n \in Name, NEW asked,
         asked.kind = "delete", asked.previous = n, asked.name = n
  PROVE  GoodProfiles(asked, [m \in DOMAIN ReadProfiles \ {n} |-> ReadProfiles[m]])
<1> DEFINE S == DOMAIN ReadProfiles \ {n}
           p == [m \in S |-> ReadProfiles[m]]
<1>1. ReadProfiles \in ProfileSets
  BY ReadProfilesTyped DEF SettingsInv
<1>2. S \in SUBSET Name /\ p \in [S -> Data]
  BY <1>1, ProfilesOver
<1>3. p \in ProfileSets
  BY <1>2, IsProfiles
<1>4. \A m \in Name : m # n => ProfileOf(m, p) = ProfileOf(m, ReadProfiles)
  BY DEF ProfileOf
<1> QED BY <1>3, <1>4 DEF GoodProfiles

-----------------------------------------------------------------------------
(* Commands.                                                               *)

LEMMA SameSettings ==
  ASSUME SettingsInv, NEW asked
  PROVE  GoodSettings(asked, ReadSettings)
  BY ReadSettingsIsConfig DEF SettingsInv, GoodSettings

LEMMA Pair ==
  ASSUME NEW x, NEW y
  PROVE  <<x>> \o <<y>> = <<x, y>>
<1> DEFINE s == <<x>>
           t == <<y>>
           both == s \o t
<1>1. s \in Seq({x, y}) /\ t \in Seq({x, y}) /\ Len(s) = 1 /\ Len(t) = 1 /\ s[1] = x /\ t[1] = y
  OBVIOUS
<1> HIDE DEF s, t
<1>2. both \in Seq({x, y}) /\ Len(both) = 2 /\ both[1] = x /\ both[2] = y
  <2>1. /\ both \in Seq({x, y}) /\ Len(both) = 2
        /\ \A i \in 1..2 : both[i] = IF i <= 1 THEN s[i] ELSE t[i - 1]
    <3>1. Len(s) + Len(t) = 2
      BY <1>1
    <3> QED BY <1>1, <3>1, ConcatProperties
  <2> HIDE DEF both
  <2>2. both[1] = s[1] /\ both[2] = t[1]
    BY <2>1
  <2> QED BY <1>1, <2>1, <2>2
<1> HIDE DEF both
<1>3. both = <<x, y>>
  BY <1>2
<1> QED BY <1>3 DEF both, s, t

LEMMA ConfigWriteOk ==
  ASSUME SettingsInv, NEW asked, NEW c, GoodSettings(asked, c)
  PROVE  WritesOk(asked, ConfigWrite(c, ReadProfiles))
<1>1. CASE profiles = Absent
  <2>1. ConfigWrite(c, ReadProfiles) = <<WriteProfiles(ReadProfiles), WriteSettings(c)>>
    BY <1>1, Pair DEF ConfigWrite
  <2> QED BY <2>1, SameProfiles DEF WritesOk, TwoWrites
<1>2. CASE profiles # Absent
  <2>1. ConfigWrite(c, ReadProfiles) = <<WriteSettings(c)>>
    BY <1>2 DEF ConfigWrite
  <2> QED BY <1>2, <2>1 DEF WritesOk, OneWrite
<1> QED BY <1>1, <1>2

LEMMA SaveProfilesOk ==
  ASSUME SettingsInv, NEW asked, NEW p, GoodProfiles(asked, p)
  PROVE  WritesOk(asked, SaveProfiles(ReadSettings, p))
<1>1. CASE ShouldWrite
  <2>1. SaveProfiles(ReadSettings, p) = <<WriteProfiles(p), WriteSettings(ReadSettings)>>
    BY <1>1, Pair DEF SaveProfiles
  <2> QED BY <2>1, SameSettings DEF WritesOk, TwoWrites
<1>2. CASE ~ShouldWrite
  <2>1. SaveProfiles(ReadSettings, p) = <<WriteProfiles(p)>>
    BY <1>2 DEF SaveProfiles
  <2> QED BY <2>1 DEF WritesOk, OneWrite
<1> QED BY <1>1, <1>2

\* What stays while the files do.
LEMMA FilesKept ==
  ASSUME UNCHANGED <<file, profiles>>
  PROVE  /\ ReadSettings' = ReadSettings /\ ReadProfiles' = ReadProfiles
         /\ FileOk' = FileOk /\ Valid(ReadSettings)' = Valid(ReadSettings)
         /\ \A asked, ws : WritesOk(asked, ws)' = WritesOk(asked, ws)
<1>1. ReadSettings' = ReadSettings
  BY DEF ReadSettings, Deserialized, Earlier, Migrate
<1>2. ReadProfiles' = ReadProfiles
  BY DEF ReadProfiles
<1>3. FileOk' = FileOk
  BY DEF FileOk
<1>4. \A asked, c : GoodSettings(asked, c)' = GoodSettings(asked, c)
  BY <1>1 DEF GoodSettings
<1>5. \A asked, p : GoodProfiles(asked, p)' = GoodProfiles(asked, p)
  BY <1>2 DEF GoodProfiles
<1>6. \A asked, ws : WritesOk(asked, ws)' = WritesOk(asked, ws)
  BY <1>4, <1>5 DEF WritesOk, OneWrite, TwoWrites
<1> QED BY <1>1, <1>2, <1>3, <1>6 DEF Valid, EachUsable, ShortcutsDiffer

LEMMA RunKeeps ==
  ASSUME SettingsInv, NEW w \in Window, NEW command, NEW writes, NEW answer \in Configs,
         Run(w, command, writes, answer), writes = << >> \/ WritesOk(command, writes),
         job = Idle
  PROVE  SettingsInv'
<1>1. /\ FileOk' /\ Valid(ReadSettings)' /\ profiles' \in ProfileSets \union {Absent}
      /\ \A asked, ws : WritesOk(asked, ws)' = WritesOk(asked, ws)
  BY FilesKept DEF Run, SettingsInv
<1>2. CASE writes = << >>
  BY <1>1, <1>2 DEF Run, SettingsInv
<1>3. CASE writes # << >>
  <2>1. job' = [asked |-> command, window |-> w, writes |-> writes, answer |-> answer]
        /\ UNCHANGED view
    BY <1>3 DEF Run
  <2>2. JobOk'
    BY <1>1, <1>3, <2>1 DEF JobOk
  <2> QED BY <1>1, <2>1, <2>2 DEF SettingsInv
<1> QED BY <1>2, <1>3

LEMMA LoadKeeps ==
  ASSUME SettingsInv, NEW w \in Window, ConfigLoad(w)
  PROVE  SettingsInv'
<1> DEFINE asked == [kind |-> "load"]
           ws == IF ShouldWrite THEN ConfigWrite(ReadSettings, ReadProfiles) ELSE << >>
<1>1. ws = << >> \/ WritesOk(asked, ws)
  BY ConfigWriteOk, SameSettings
<1>2. ReadSettings \in Configs
  BY ReadSettingsIsConfig DEF SettingsInv
<1>3. Run(w, asked, ws, ReadSettings) /\ job = Idle
  BY DEF ConfigLoad, Free
<1> HIDE DEF asked, ws
<1> QED BY <1>1, <1>2, <1>3, RunKeeps

LEMMA SaveKeeps ==
  ASSUME SettingsInv, NEW w \in Window, view[w] # Absent,
         NEW s \in Setting, NEW t \in Setting, NEW u \in Values[s], NEW v \in Values[t],
         ConfigSave(w, [view[w] EXCEPT ![s] = u, ![t] = v])
  PROVE  SettingsInv'
<1> DEFINE e == [view[w] EXCEPT ![s] = u, ![t] = v]
           base == Migrate(view[w])
           edited == Migrate(e)
           merged == MergeEditedConfig(base, edited, ReadSettings)
           asked == [kind |-> "save", base |-> base, edited |-> edited]
           ws == IF ShouldWrite \/ merged # ReadSettings
                 THEN ConfigWrite(merged, ReadProfiles) ELSE << >>
<1>1. view[w] \in Configs
  BY DEF SettingsInv
<1>2. base \in Configs
  BY <1>1, MigrateKeeps DEF Configs
<1>3. \A r \in Setting : e[r] \in Values[r]
  BY <1>1 DEF Configs
<1>4. edited \in Configs /\ Migrate(edited) = edited
  <2> HIDE DEF e
  <2> QED BY <1>3, MigrateKeeps
<1>5. Run(w, asked, ws, merged) /\ job = Idle /\ Valid(merged)
  BY DEF ConfigSave, Free, SaveRefused
<1>6. FileOk
  BY DEF SettingsInv
<1>7. /\ merged \in Configs /\ Migrate(merged) = merged
      /\ \A r \in Setting : merged[r] # ReadSettings[r] =>
           base[r] # edited[r] /\ merged[r] = edited[r]
  <2> HIDE DEF e, base, edited
  <2> QED BY <1>2, <1>4, <1>6, SaveIsGood
<1>8. asked.kind = "save" /\ asked.base = base /\ asked.edited = edited
  OBVIOUS
<1> HIDE DEF e, base, edited, merged, asked
<1>9. GoodSettings(asked, merged)
  BY <1>5, <1>7, <1>8 DEF GoodSettings
<1>10. ws = << >> \/ WritesOk(asked, ws)
  BY <1>9, ConfigWriteOk
<1> HIDE DEF ws
<1> QED BY <1>5, <1>7, <1>10, RunKeeps

LEMMA ProfileCommandKeeps ==
  ASSUME SettingsInv, NEW w \in Window, NEW n \in Name,
         \/ DeleteProfile(w, n)
         \/ \E previous \in Name \union {Absent}, d \in Data : UpsertProfile(w, previous, n, d)
  PROVE  SettingsInv'
<1>1. ReadSettings \in Configs
  BY ReadSettingsIsConfig DEF SettingsInv
<1>2. CASE DeleteProfile(w, n)
  <2> DEFINE asked == [kind |-> "delete", previous |-> n, name |-> n]
             p == [m \in DOMAIN ReadProfiles \ {n} |-> ReadProfiles[m]]
             ws == SaveProfiles(ReadSettings, p)
  <2>1. GoodProfiles(asked, p)
    BY DeleteIsGood
  <2>2. Run(w, asked, ws, ReadSettings) /\ job = Idle
    BY <1>2 DEF DeleteProfile, Free
  <2> HIDE DEF asked, p
  <2>3. WritesOk(asked, ws)
    BY <2>1, SaveProfilesOk
  <2> HIDE DEF ws
  <2> QED BY <1>1, <2>2, <2>3, RunKeeps
<1>3. ASSUME NEW previous \in Name \union {Absent}, NEW d \in Data,
             UpsertProfile(w, previous, n, d)
      PROVE  SettingsInv'
  <2> DEFINE asked == [kind |-> "upsert", previous |-> previous, name |-> n]
             p == Upserted(previous, n, d)
             ws == IF ShouldWrite \/ p # ReadProfiles
                   THEN SaveProfiles(ReadSettings, p) ELSE << >>
  <2>1. CanUpsert(previous, n)
    BY <1>3 DEF UpsertProfile
  <2>2. GoodProfiles(asked, p)
    BY <2>1, UpsertIsGood
  <2>3. Run(w, asked, ws, ReadSettings) /\ job = Idle
    BY <1>3 DEF UpsertProfile, Free
  <2> HIDE DEF asked, p
  <2>4. ws = << >> \/ WritesOk(asked, ws)
    BY <2>2, SaveProfilesOk
  <2> HIDE DEF ws
  <2> QED BY <1>1, <2>3, <2>4, RunKeeps
<1> QED BY <1>2, <1>3

LEMMA CommandKeeps ==
  ASSUME SettingsInv,
         \E w \in Window :
           \/ ConfigLoad(w)
           \/ \E s, t \in Setting : \E u \in Values[s], v \in Values[t] :
                view[w] # Absent /\ ConfigSave(w, [view[w] EXCEPT ![s] = u, ![t] = v])
           \/ \E previous \in Name \cup {Absent}, n \in Name, d \in Data :
                UpsertProfile(w, previous, n, d)
           \/ \E n \in Name : DeleteProfile(w, n)
  PROVE  SettingsInv'
  BY LoadKeeps, SaveKeeps, ProfileCommandKeeps

-----------------------------------------------------------------------------
(* Writes.                                                                 *)

\* The first of the writes of a command, and what it leaves for the next.
LEMMA FirstWrite ==
  ASSUME WritesOk(job.asked, job.writes)
  PROVE  LET write == Head(job.writes) IN
         \/ /\ write.target = "settings" /\ GoodSettings(job.asked, write.value)
            /\ profiles # Absent /\ Len(job.writes) = 1
         \/ /\ write.target = "profiles" /\ GoodProfiles(job.asked, write.value)
            /\ \/ Len(job.writes) = 1
               \/ \E c : /\ Len(job.writes) = 2 /\ GoodSettings(job.asked, c)
                         /\ Tail(job.writes) = <<WriteSettings(c)>>
<1>1. ASSUME NEW x PROVE Head(<<x>>) = x /\ Len(<<x>>) = 1
  OBVIOUS
<1>2. ASSUME NEW x, NEW y
      PROVE  Head(<<x, y>>) = x /\ Len(<<x, y>>) = 2 /\ Tail(<<x, y>>) = <<y>>
  OBVIOUS
<1>3. ASSUME NEW c
      PROVE  /\ WriteSettings(c).target = "settings" /\ WriteSettings(c).value = c
             /\ WriteProfiles(c).target = "profiles" /\ WriteProfiles(c).value = c
  BY DEF WriteSettings, WriteProfiles
<1>4. CASE OneWrite(job.asked, job.writes)
  <2>1. ASSUME NEW c, job.writes = <<WriteSettings(c)>>, GoodSettings(job.asked, c),
               profiles # Absent
        PROVE  /\ Head(job.writes).target = "settings"
               /\ GoodSettings(job.asked, Head(job.writes).value)
               /\ profiles # Absent /\ Len(job.writes) = 1
    BY <1>1, <1>3, <2>1
  <2>2. ASSUME NEW q, job.writes = <<WriteProfiles(q)>>, GoodProfiles(job.asked, q)
        PROVE  /\ Head(job.writes).target = "profiles"
               /\ GoodProfiles(job.asked, Head(job.writes).value)
               /\ Len(job.writes) = 1
    BY <1>1, <1>3, <2>2
  <2> QED BY <1>4, <2>1, <2>2 DEF OneWrite
<1>5. CASE TwoWrites(job.asked, job.writes)
  <2>1. PICK p, c : /\ job.writes = <<WriteProfiles(p), WriteSettings(c)>>
                    /\ GoodProfiles(job.asked, p) /\ GoodSettings(job.asked, c)
    BY <1>5 DEF TwoWrites
  <2> QED BY <1>2, <1>3, <2>1
<1> QED BY <1>4, <1>5 DEF WritesOk

\* The settings change to the value written, the profiles do not.
LEMMA SettingsWritten ==
  ASSUME SettingsInv, WriteNext, Head(job.writes).target = "settings"
  PROVE  /\ GoodSettings(job.asked, ReadSettings') /\ FileOk' /\ UNCHANGED profiles
         /\ ReadProfiles' = ReadProfiles /\ Len(job.writes) = 1
<1> DEFINE c == Head(job.writes).value
<1>1. GoodSettings(job.asked, c) /\ profiles # Absent /\ Len(job.writes) = 1
  BY FirstWrite DEF SettingsInv, JobOk, WriteNext
<1>2. file' = SettingsValue(c) /\ UNCHANGED profiles
  BY DEF WriteNext
<1> HIDE DEF c
<1>3. ReadSettings' = c /\ FileOk'
  BY <1>1, <1>2, ReadBack DEF GoodSettings
<1> QED BY <1>1, <1>2, <1>3 DEF ReadProfiles

\* The profiles change to those written, the settings do not.
LEMMA ProfilesWritten ==
  ASSUME SettingsInv, WriteNext, Head(job.writes).target # "settings"
  PROVE  /\ UNCHANGED file /\ ReadSettings' = ReadSettings
         /\ ReadProfiles' = profiles' /\ GoodProfiles(job.asked, profiles')
         /\ profiles' # Absent
         /\ \/ Len(job.writes) = 1
            \/ \E c : /\ Len(job.writes) = 2 /\ GoodSettings(job.asked, c)
                      /\ Tail(job.writes) = <<WriteSettings(c)>>
<1>1. /\ Head(job.writes).target = "profiles"
      /\ GoodProfiles(job.asked, Head(job.writes).value)
      /\ \/ Len(job.writes) = 1
         \/ \E c : /\ Len(job.writes) = 2 /\ GoodSettings(job.asked, c)
                   /\ Tail(job.writes) = <<WriteSettings(c)>>
  BY FirstWrite DEF SettingsInv, JobOk, WriteNext
<1>2. profiles' = Head(job.writes).value /\ UNCHANGED file
  BY <1>1 DEF WriteNext
<1>3. profiles' # Absent
  BY <1>1, <1>2, SettingsAssumption DEF GoodProfiles
<1>4. ReadSettings' = ReadSettings
  BY <1>2 DEF ReadSettings, Deserialized, Earlier, Migrate
<1> QED BY <1>1, <1>2, <1>3, <1>4 DEF ReadProfiles

LEMMA WriteKeeps ==
  ASSUME SettingsInv, WriteNext
  PROVE  SettingsInv'
<1>1. job # Idle /\ JobOk
  BY DEF SettingsInv, WriteNext
<1>2. /\ FileOk' /\ profiles' \in ProfileSets \union {Absent} /\ Valid(ReadSettings)'
  <2>1. CASE Head(job.writes).target = "settings"
    BY <2>1, SettingsWritten DEF SettingsInv, GoodSettings, Valid, EachUsable, ShortcutsDiffer
  <2>2. CASE Head(job.writes).target # "settings"
    BY <2>2, ProfilesWritten
    DEF SettingsInv, GoodProfiles, FileOk, Valid, EachUsable, ShortcutsDiffer
  <2> QED BY <2>1, <2>2
<1>3. CASE Len(job.writes) = 1
  <2>1. job' = Idle /\ view' = [view EXCEPT ![job.window] = job.answer]
    BY <1>3 DEF WriteNext
  <2>2. view' \in [Window -> Configs \union {Absent}]
    BY <1>1, <2>1 DEF SettingsInv, JobOk
  <2> QED BY <1>2, <2>1, <2>2 DEF SettingsInv
<1>4. CASE Len(job.writes) # 1
  <2>1. /\ Head(job.writes).target # "settings"
        /\ \E c : GoodSettings(job.asked, c) /\ Tail(job.writes) = <<WriteSettings(c)>>
        /\ profiles' # Absent /\ ReadSettings' = ReadSettings
    BY <1>4, SettingsWritten, ProfilesWritten
  <2>2. job' = [job EXCEPT !.writes = Tail(@)] /\ UNCHANGED view
    BY <1>4 DEF WriteNext
  <2>3. /\ job'.asked = job.asked /\ job'.writes = Tail(job.writes) /\ job'.answer = job.answer
        /\ job' = [asked |-> job'.asked, window |-> job'.window, writes |-> job'.writes,
                   answer |-> job'.answer]
    BY <1>1, <2>2 DEF JobOk
  <2>4. \A c : GoodSettings(job.asked, c) => GoodSettings(job.asked, c)'
    BY <2>1, <2>3 DEF GoodSettings
  <2>5. OneWrite(job.asked, job.writes)'
    <3>1. PICK c : GoodSettings(job.asked, c) /\ Tail(job.writes) = <<WriteSettings(c)>>
      BY <2>1
    <3>2. GoodSettings(job.asked, c)' /\ (job.writes = <<WriteSettings(c)>>)'
      BY <2>3, <2>4, <3>1 DEF WriteSettings
    <3> QED BY <2>1, <3>2 DEF OneWrite
  <2>6. JobOk'
    BY <1>1, <2>3, <2>5 DEF JobOk, WritesOk
  <2> QED BY <1>2, <2>2, <2>6 DEF SettingsInv
<1> QED BY <1>3, <1>4

LEMMA NothingWritten ==
  ASSUME SettingsInv, UNCHANGED <<file, profiles>>,
         \/ job' = Idle /\ view' \in [Window -> Configs \union {Absent}]
         \/ UNCHANGED <<job, view>>
  PROVE  SettingsInv'
<1>1. /\ FileOk' /\ Valid(ReadSettings)' /\ profiles' \in ProfileSets \union {Absent}
      /\ \A asked, ws : WritesOk(asked, ws)' = WritesOk(asked, ws)
  BY FilesKept DEF SettingsInv
<1>2. CASE job' = Idle /\ view' \in [Window -> Configs \union {Absent}]
  BY <1>1, <1>2 DEF SettingsInv
<1>3. CASE UNCHANGED <<job, view>>
  <2>1. JobOk => JobOk'
    BY <1>1, <1>3 DEF JobOk
  <2> QED BY <1>1, <1>3, <2>1 DEF SettingsInv
<1> QED BY <1>2, <1>3

-----------------------------------------------------------------------------
(* The specification.                                                      *)

LEMMA SettingsBegin == HistoryInit => SettingsInv
<1> SUFFICES ASSUME HistoryInit PROVE SettingsInv
  OBVIOUS
<1>1. Init
  BY DEF HistoryInit
<1>2. FileOk
  BY <1>1, SettingsAssumption DEF Init, FileOk
<1>3. profiles \in ProfileSets \union {Absent}
  <2>1. NoProfiles \in [{} -> Data]
    BY DEF NoProfiles
  <2> QED BY <1>1, <2>1 DEF Init, ProfileSets
<1> QED BY <1>1, <1>2, <1>3 DEF Init, SettingsInv

\* A step writes, or leaves the files as they are.
LEMMA StepWrites ==
  ASSUME [HistoryNext]_allVars
  PROVE  WriteNext \/ UNCHANGED <<file, profiles>>
<1>1. CASE Command
  <2>1. ASSUME NEW w, NEW command, NEW writes, NEW answer, Run(w, command, writes, answer)
        PROVE  UNCHANGED <<file, profiles>>
    BY <2>1 DEF Run
  <2>2. ASSUME NEW w \in Window, ConfigLoad(w) PROVE UNCHANGED <<file, profiles>>
    BY <2>1, <2>2 DEF ConfigLoad
  <2>3. ASSUME NEW w \in Window, NEW edited, ConfigSave(w, edited)
        PROVE  UNCHANGED <<file, profiles>>
    BY <2>1, <2>3 DEF ConfigSave
  <2>4. ASSUME NEW w \in Window, NEW n \in Name,
               \/ DeleteProfile(w, n)
               \/ \E previous \in Name \cup {Absent}, d \in Data : UpsertProfile(w, previous, n, d)
        PROVE  UNCHANGED <<file, profiles>>
    BY <2>1, <2>4 DEF DeleteProfile, UpsertProfile
  <2>5. CASE WriteFails
    BY <2>5 DEF WriteFails
  <2> QED BY <1>1, <2>2, <2>3, <2>4, <2>5 DEF Command
<1>2. CASE Restart
  BY <1>2 DEF Restart
<1>3. CASE \E w \in Window : (\E input \in Input : BeginRecord(w, input)) \/ Record(w)
                             \/ RecordFails(w)
  BY <1>3 DEF BeginRecord, Record, RecordFails, vars
<1>4. CASE (\E id \in 1..MaxCommands : DeleteEntry(id)) \/ ClearHistory \/ UNCHANGED allVars
  BY <1>4 DEF DeleteEntry, ClearHistory, vars, allVars
<1> QED BY <1>1, <1>2, <1>3, <1>4 DEF HistoryNext

LEMMA SettingsStepKeeps ==
  ASSUME SettingsInv, [HistoryNext]_allVars
  PROVE  SettingsInv'
<1>1. CASE Command
  <2>1. CASE WriteFails
    BY <2>1, NothingWritten DEF WriteFails, SettingsInv
  <2> QED BY <1>1, <2>1, CommandKeeps, WriteKeeps DEF Command
<1>2. CASE Restart
  <2>1. view' \in [Window -> Configs \union {Absent}]
    BY <1>2 DEF Restart
  <2> QED BY <1>2, <2>1, NothingWritten DEF Restart
<1>3. CASE \E w \in Window : (\E input \in Input : BeginRecord(w, input)) \/ Record(w)
                             \/ RecordFails(w)
  BY <1>3, NothingWritten DEF BeginRecord, Record, RecordFails, vars
<1>4. CASE (\E id \in 1..MaxCommands : DeleteEntry(id)) \/ ClearHistory \/ UNCHANGED allVars
  BY <1>4, NothingWritten DEF DeleteEntry, ClearHistory, vars, allVars
<1> QED BY <1>1, <1>2, <1>3, <1>4 DEF HistoryNext

LEMMA SettingsInvariant == HistorySpec => []SettingsInv
  BY SettingsBegin, SettingsStepKeeps, PTL DEF HistorySpec

\* Whatever was written, also in part, can be read again (config.rs, validate_config).
THEOREM AlwaysLoadableHolds == HistorySpec => []AlwaysLoadable
<1>1. SettingsInv => AlwaysLoadable
  BY DEF SettingsInv, AlwaysLoadable
<1> QED BY <1>1, SettingsInvariant, PTL

\* Settings change only where a save has edited them (config.rs, merge_edited_config).
THEOREM EditsMergeHolds == HistorySpec => EditsMerge
<1>1. ASSUME SettingsInv, [HistoryNext]_allVars, NEW s \in Setting,
             ReadSettings'[s] # ReadSettings[s]
      PROVE  Edited(s) /\ ReadSettings'[s] = job.asked.edited[s]
  <2>1. WriteNext /\ Head(job.writes).target = "settings"
    BY <1>1, StepWrites, FilesKept, ProfilesWritten
  <2> QED BY <1>1, <2>1, SettingsWritten DEF GoodSettings, Edited
<1>2. SettingsInv /\ [HistoryNext]_allVars =>
        [\A s \in Setting : ReadSettings'[s] # ReadSettings[s] =>
           Edited(s) /\ ReadSettings'[s] = job.asked.edited[s]]_vars
  BY <1>1
<1> QED BY <1>2, SettingsInvariant, PTL DEF HistorySpec, EditsMerge

\* Profiles change only by the command that names them (config.rs, config_write_to_path
\* and upsert_saved_connection).
THEOREM ProfilesSurviveHolds == HistorySpec => ProfilesSurvive
<1>1. ASSUME SettingsInv, [HistoryNext]_allVars, NEW n \in Name,
             ProfileOf(n, ReadProfiles)' # ProfileOf(n, ReadProfiles)
      PROVE  /\ job.asked.kind \in {"upsert", "delete"}
             /\ n \in {job.asked.previous, job.asked.name}
             /\ job.asked.previous # n => n \notin DOMAIN ReadProfiles
  <2>1. ReadProfiles' # ReadProfiles
    BY <1>1 DEF ProfileOf
  <2>2. WriteNext /\ Head(job.writes).target # "settings"
    BY <1>1, <2>1, StepWrites, FilesKept, SettingsWritten
  <2>3. ReadProfiles' = profiles' /\ GoodProfiles(job.asked, profiles')
    BY <1>1, <2>2, ProfilesWritten
  <2>4. ProfileOf(n, profiles') # ProfileOf(n, ReadProfiles)
    BY <1>1, <2>3 DEF ProfileOf
  <2> QED BY <2>3, <2>4 DEF GoodProfiles
<1>2. SettingsInv /\ [HistoryNext]_allVars =>
        [\A n \in Name : ProfileOf(n, ReadProfiles)' # ProfileOf(n, ReadProfiles) =>
           /\ job.asked.kind \in {"upsert", "delete"}
           /\ n \in {job.asked.previous, job.asked.name}
           /\ job.asked.previous # n => n \notin DOMAIN ReadProfiles]_vars
  BY <1>1
<1> QED BY <1>2, SettingsInvariant, PTL DEF HistorySpec, ProfilesSurvive

-----------------------------------------------------------------------------
(* The history of connections *)

LEMMA LeastIn ==
  ASSUME NEW T \in SUBSET Nat, T # {}
  PROVE  \E m \in T : \A k \in T : m <= k
<1> DEFINE R == {p \in Nat \X Nat : p[1] < p[2]}
<1>1. OpToRel(<, Nat) = R
  BY Zenon DEF OpToRel
<1>2. IsWellFoundedOn(R, Nat)
  BY <1>1, NatLessThanWellFounded, Zenon
<1>3. \A x, y \in Nat : y < x => <<y, x>> \in R
  OBVIOUS
<1> HIDE DEF R
<1>4. PICK x \in T : \A y \in T : <<y, x>> \notin R
  BY <1>2, WFMin
<1>5. ASSUME NEW y \in T PROVE x <= y
  <2>1. ~(y < x)
    BY <1>3, <1>4, Zenon
  <2>2. x \in Nat /\ y \in Nat
    OBVIOUS
  <2> QED BY <2>1, <2>2
<1> QED BY <1>5, Zenon

LEMMA GreatestIn ==
  ASSUME NEW n \in Nat, NEW T \in SUBSET (1..n), T # {}
  PROVE  Max(T) \in T /\ \A k \in T : k <= Max(T)
<1> DEFINE U == {n - k : k \in T}
<1>1. U \in SUBSET Nat /\ U # {}
  <2>1. \A k \in T : n - k \in Nat
    OBVIOUS
  <2> QED  BY <2>1
<1>2. PICK u \in U : \A k \in U : u <= k
  BY <1>1, LeastIn
<1>3. PICK m \in T : u = n - m
  OBVIOUS
<1>4. \A k \in T : m >= k
  BY <1>2, <1>3
<1> QED  BY <1>4 DEF Max

LEMMA PositionsFinite ==
  ASSUME NEW n \in Nat, NEW kept \in SUBSET (1..n)
  PROVE  IsFiniteSet(kept) /\ Cardinality(kept) \in Nat
<1>1. IsFiniteSet(1..n)
  BY FS_Interval
<1>2. IsFiniteSet(kept)
  BY <1>1, FS_Subset
<1> QED  BY <1>2, FS_CardinalityType

\* The positions kept, in their order.
IsOrder(f, kept) ==
  /\ f \in [1..Cardinality(kept) -> kept]
  /\ \A k, l \in 1..Cardinality(kept) : k < l => f[k] < f[l]
  /\ \A i \in kept : \E k \in 1..Cardinality(kept) : f[k] = i

\* What they make of a list, and which of them are of a part.
InOrder(s, f, kept) == [k \in 1..Cardinality(kept) |-> s[f[k]]]

PartIn(f, kept, B) == {k \in 1..Cardinality(kept) : f[k] \in B}

\* Counting the positions kept up to each of them numbers them in their order.
LEMMA RetainIs ==
  ASSUME NEW n \in Nat, NEW kept \in SUBSET (1..n), NEW s
  PROVE  /\ IsFiniteSet(kept) /\ Cardinality(kept) \in Nat
         /\ \E f : IsOrder(f, kept) /\ Retain(s, kept) = InOrder(s, f, kept)
<1> DEFINE Up(i) == {j \in kept : j <= i}
           N == Cardinality(kept)
           g == [i \in kept |-> Cardinality(Up(i))]
           f == [k \in 1..N |-> CHOOSE i \in kept : g[i] = k]
<1>1. IsFiniteSet(kept) /\ N \in Nat
  BY PositionsFinite
<1>2. \A i \in kept : IsFiniteSet(Up(i)) /\ Cardinality(Up(i)) \in Nat /\ Cardinality(Up(i)) <= N
  <2> SUFFICES ASSUME NEW i \in kept
               PROVE  IsFiniteSet(Up(i)) /\ Cardinality(Up(i)) \in Nat /\ Cardinality(Up(i)) <= N
    OBVIOUS
  <2>1. Up(i) \in SUBSET kept
    OBVIOUS
  <2> QED  BY <1>1, <2>1, FS_Subset, FS_CardinalityType
<1>3. \A i, j \in kept : i < j => Cardinality(Up(i)) < Cardinality(Up(j))
  <2> SUFFICES ASSUME NEW i \in kept, NEW j \in kept, i < j
               PROVE  Cardinality(Up(i)) < Cardinality(Up(j))
    OBVIOUS
  <2>1. Up(i) \in SUBSET Up(j) /\ j \in Up(j) /\ j \notin Up(i)
    <3>1. i \in Int /\ j \in Int /\ \A l \in kept : l \in Int
      OBVIOUS
    <3>2. j \in Up(j) /\ j \notin Up(i)
      BY <3>1
    <3>3. \A l \in kept : l <= i => l <= j
      BY <3>1
    <3> QED  BY <3>2, <3>3
  <2>2. IsFiniteSet(Up(j)) /\ Cardinality(Up(i)) \in Nat /\ Cardinality(Up(j)) \in Nat
    BY <1>2
  <2> HIDE DEF Up
  <2>3. Cardinality(Up(i)) <= Cardinality(Up(j)) /\ Cardinality(Up(i)) # Cardinality(Up(j))
    BY <2>1, <2>2, FS_Subset
  <2> QED  BY <2>2, <2>3
<1>4. \A i \in kept : Cardinality(Up(i)) # 0
  BY <1>2, FS_EmptySet
<1> HIDE DEF Up
<1>5. g \in [kept -> 1..N]
  BY <1>1, <1>2, <1>4
<1>6. \A i, j \in kept : i < j => g[i] < g[j]
  BY <1>3
<1>7. \A i \in kept : i \in Int
  OBVIOUS
<1> HIDE DEF g
<1>8. \A i, j \in kept : g[i] = g[j] => i = j
  <2> SUFFICES ASSUME NEW i \in kept, NEW j \in kept, g[i] = g[j], i # j PROVE FALSE
    OBVIOUS
  <2>1. i < j \/ j < i
    BY <1>7
  <2>2. g[i] \in 1..N
    BY <1>5
  <2> QED  BY <1>1, <1>6, <2>1, <2>2
<1>9. g \in Injection(kept, 1..N)
  BY <1>5, <1>8 DEF Injection, IsInjective
<1>10. IsFiniteSet(1..N) /\ Cardinality(1..N) = N
  BY <1>1, FS_Interval
<1>11. g \in Surjection(kept, 1..N)
  BY <1>9, <1>10, FS_Injection
<1>12. \A k \in 1..N : \E i \in kept : g[i] = k
  BY <1>11 DEF Surjection
<1>13. f \in [1..N -> kept] /\ \A k \in 1..N : g[f[k]] = k
  BY <1>12
<1> HIDE DEF f
<1>14. ASSUME NEW k \in 1..N, NEW l \in 1..N, k < l PROVE f[k] < f[l]
  <2>1. f[k] \in kept /\ f[l] \in kept /\ g[f[k]] = k /\ g[f[l]] = l
    BY <1>13
  <2>2. f[l] < f[k] => l < k
    BY <1>6, <2>1
  <2>3. f[k] \in Int /\ f[l] \in Int /\ k \in Int /\ l \in Int
    <3>1. f[k] \in Int /\ f[l] \in Int
      BY <1>7, <2>1, Zenon
    <3> QED  BY <1>1, <3>1
  <2>4. f[k] # f[l]
    BY <1>14, <2>1, <2>3
  <2> QED  BY <1>14, <2>2, <2>3, <2>4
<1>15. ASSUME NEW i \in kept PROVE \E k \in 1..N : f[k] = i
  <2>1. g[i] \in 1..N
    BY <1>5
  <2>2. g[f[g[i]]] = g[i] /\ f[g[i]] \in kept
    BY <1>13, <2>1
  <2>3. f[g[i]] = i
    BY <1>8, <2>2
  <2> QED  BY <2>1, <2>3
<1>16. IsOrder(f, kept)
  BY <1>13, <1>14, <1>15 DEF IsOrder
<1>17. \A k \in 1..N : f[k] = CHOOSE i \in kept : Cardinality({j \in kept : j <= i}) = k
  <2>1. \A i \in kept : g[i] = Cardinality({j \in kept : j <= i})
    BY DEF g, Up
  <2> QED  BY <2>1 DEF f
<1>18. Retain(s, kept) = [k \in 1..N |-> s[f[k]]]
  <2>1. Retain(s, kept) =
          [k \in 1..N |-> s[CHOOSE i \in kept : Cardinality({j \in kept : j <= i}) = k]]
    BY Zenon DEF Retain
  <2> QED  BY <1>17, <2>1, Zenon
<1>19. Retain(s, kept) = InOrder(s, f, kept)
  BY <1>18, Zenon DEF InOrder
<1> QED  BY <1>1, <1>16, <1>19

\* Numbering keeps the size of each part.
LEMMA OrderCounts ==
  ASSUME NEW n \in Nat, NEW kept \in SUBSET (1..n), NEW f, IsOrder(f, kept),
         NEW B \in SUBSET kept
  PROVE  IsFiniteSet(B) /\ Cardinality(PartIn(f, kept, B)) = Cardinality(B)
<1> DEFINE N == Cardinality(kept)
           A == {k \in 1..N : f[k] \in B}
           h == [k \in A |-> f[k]]
<1>1. IsFiniteSet(kept) /\ N \in Nat /\ IsFiniteSet(1..N)
  <2>1. IsFiniteSet(kept) /\ N \in Nat
    BY PositionsFinite
  <2> QED  BY <2>1, FS_Interval
<1>2. IsFiniteSet(A) /\ IsFiniteSet(B)
  <2>1. A \in SUBSET (1..N)
    OBVIOUS
  <2> QED  BY <1>1, <2>1, FS_Subset
<1>3. \A k, l \in 1..N : k # l => f[k] # f[l]
  <2> SUFFICES ASSUME NEW k \in 1..N, NEW l \in 1..N, k # l PROVE f[k] # f[l]
    OBVIOUS
  <2>1. k < l \/ l < k
    BY <1>1
  <2>2. f[k] < f[l] \/ f[l] < f[k]
    BY <2>1 DEF IsOrder
  <2>3. f[k] \in kept /\ f[l] \in kept
    BY DEF IsOrder
  <2>4. \A i \in kept : i \in Int
    OBVIOUS
  <2>5. f[k] \in Int /\ f[l] \in Int
    BY <2>3, <2>4, Zenon
  <2> QED  BY <2>2, <2>5
<1>4. h \in [A -> B] /\ \A k, l \in A : h[k] = h[l] => k = l
  BY <1>3
<1>5. \A b \in B : \E k \in A : h[k] = b
  BY DEF IsOrder
<1> HIDE DEF h
<1>6. h \in Injection(A, B) /\ h \in Surjection(A, B)
  BY <1>4, <1>5 DEF Injection, IsInjective, Surjection
<1>7. Cardinality(A) = Cardinality(B)
  BY <1>2, <1>6, FS_Injection
<1>8. PartIn(f, kept, B) = A
  BY Zenon DEF PartIn
<1> QED  BY <1>2, <1>7, <1>8

\* The entries of a kind, and the latest connection to a destination, of any lists.
OfKindIn(s, kind) == {i \in DOMAIN s : s[i].at.kind = kind}

Visited(vs, at) == {i \in DOMAIN vs : vs[i].kind = at.kind /\ vs[i].host = at.host}

LastIn(vs, at) == IF Visited(vs, at) = {} THEN 0 ELSE Max(Visited(vs, at))

Entry(n) == [id : 1..n, at : Input]

\* The latest connection first, and one identifier per entry.
Ordered(s, vs) ==
  \A i, j \in DOMAIN s : i < j =>
    /\ LastIn(vs, s[i].at) > LastIn(vs, s[j].at)
    /\ s[i].id # s[j].id

Limited(s) == \A kind \in Kind : Cardinality(OfKindIn(s, kind)) <= MaxEntries

\* A destination of a connection is listed, or there is no room among the later ones.
Accounted(s, vs) ==
  \A v \in DOMAIN vs :
    \/ \E i \in DOMAIN s : SameDestination(s[i].at, vs[v])
    \/ /\ Cardinality(OfKindIn(s, vs[v].kind)) >= MaxEntries
       /\ \A i \in OfKindIn(s, vs[v].kind) : LastIn(vs, s[i].at) > LastIn(vs, vs[v])

HistoryInv ==
  /\ recording \in [Window -> Input \union {NoInput}]
  /\ visits \in Seq(Input) /\ ids \in Nat /\ thinned \in BOOLEAN
  /\ history \in [readable : BOOLEAN, entries : Seq(Entry(ids))]
  /\ Ordered(history.entries, visits) /\ Limited(history.entries)
  /\ history.readable /\ ~thinned => Accounted(history.entries, visits)

LEMMA KindsFinite ==
  ASSUME NEW n, NEW s \in Seq(Entry(n)), NEW kind
  PROVE  /\ OfKindIn(s, kind) \in SUBSET (1..Len(s))
         /\ IsFiniteSet(OfKindIn(s, kind)) /\ Cardinality(OfKindIn(s, kind)) \in Nat
<1>1. OfKindIn(s, kind) \in SUBSET (1..Len(s)) /\ Len(s) \in Nat
  BY DEF OfKindIn
<1> QED  BY <1>1, PositionsFinite

LEMMA HistoryInvIs == HistoryInv => HistoryIsRecent
<1> SUFFICES ASSUME HistoryInv PROVE HistoryIsRecent
  OBVIOUS
<1>1. \A at : LastVisit(at) = LastIn(visits, at)
  BY DEF LastVisit, LastIn, Visited
<1>2. \A kind : OfKind(kind) = OfKindIn(history.entries, kind)
  BY DEF OfKind, OfKindIn
<1>3. \A kind \in Kind : Cardinality(OfKindIn(history.entries, kind)) \in Nat
  BY KindsFinite DEF HistoryInv
<1>4. \A v \in DOMAIN visits : visits[v].kind \in Kind
  BY HistoryAssumption DEF HistoryInv
<1>5. MaxEntries \in Nat
  BY HistoryAssumption
<1>6. \A kind \in Kind : Cardinality(OfKind(kind)) <= MaxEntries
  BY <1>2 DEF HistoryInv, Limited
<1>7. \A i, j \in DOMAIN history.entries : i < j =>
        /\ LastVisit(history.entries[i].at) > LastVisit(history.entries[j].at)
        /\ history.entries[i].id # history.entries[j].id
  BY <1>1 DEF HistoryInv, Ordered
<1>8. ASSUME history.readable, ~thinned, NEW v \in DOMAIN visits, ~Listed(visits[v])
      PROVE  /\ Cardinality(OfKind(visits[v].kind)) = MaxEntries
             /\ \A i \in OfKind(visits[v].kind) :
                  LastVisit(history.entries[i].at) > LastVisit(visits[v])
  <2>1. /\ Cardinality(OfKindIn(history.entries, visits[v].kind)) >= MaxEntries
        /\ \A i \in OfKindIn(history.entries, visits[v].kind) :
             LastIn(visits, history.entries[i].at) > LastIn(visits, visits[v])
    BY <1>8 DEF HistoryInv, Accounted, Listed, SameDestination
  <2>2. Cardinality(OfKind(visits[v].kind)) <= MaxEntries
    BY <1>4, <1>6
  <2>3. Cardinality(OfKind(visits[v].kind)) \in Nat
    BY <1>2, <1>3, <1>4
  <2>4. Cardinality(OfKind(visits[v].kind)) >= MaxEntries
    BY <1>2, <2>1
  <2>5. \A i \in OfKind(visits[v].kind) :
          LastVisit(history.entries[i].at) > LastVisit(visits[v])
    BY <1>1, <1>2, <2>1
  <2> QED  BY <1>5, <2>2, <2>3, <2>4, <2>5
<1> QED  BY <1>6, <1>7, <1>8 DEF HistoryIsRecent

\* What is kept of a list: in its order, and of each kind what is kept of that kind.
LEMMA RetainKeeps ==
  ASSUME NEW n, NEW s \in Seq(Entry(n)), NEW vs, NEW kept \in SUBSET (DOMAIN s)
  PROVE  LET r == Retain(s, kept)
         IN  /\ r \in Seq(Entry(n))
             /\ \A k \in DOMAIN r : \E i \in kept : r[k] = s[i]
             /\ \A i \in kept : \E k \in DOMAIN r : r[k] = s[i]
             /\ Ordered(s, vs) => Ordered(r, vs)
             /\ \A kind : /\ IsFiniteSet(kept \intersect OfKindIn(s, kind))
                          /\ Cardinality(OfKindIn(r, kind))
                               = Cardinality(kept \intersect OfKindIn(s, kind))
<1> DEFINE r == Retain(s, kept)
           N == Cardinality(kept)
<1>1. DOMAIN s = 1..Len(s) /\ Len(s) \in Nat
  OBVIOUS
<1>2. kept \in SUBSET (1..Len(s))
  BY <1>1
<1>3. /\ IsFiniteSet(kept) /\ N \in Nat
      /\ \E f : IsOrder(f, kept) /\ r = InOrder(s, f, kept)
  BY <1>1, <1>2, RetainIs
<1>4. PICK f : IsOrder(f, kept) /\ r = InOrder(s, f, kept)
  BY <1>3
<1>5. /\ f \in [1..N -> kept]
      /\ \A k, l \in 1..N : k < l => f[k] < f[l]
      /\ \A i \in kept : \E k \in 1..N : f[k] = i
  BY <1>4 DEF IsOrder
<1>6. r = [k \in 1..N |-> s[f[k]]]
  BY <1>4, Zenon DEF InOrder
<1> HIDE DEF r, N
<1>7. DOMAIN r = 1..N /\ \A k \in 1..N : r[k] = s[f[k]] /\ f[k] \in kept
  BY <1>5, <1>6
<1>8. \A i \in kept : s[i] \in Entry(n)
  OBVIOUS
<1>9. r \in Seq(Entry(n))
  BY <1>3, <1>5, <1>8, <1>6
<1>10. Ordered(s, vs) => Ordered(r, vs)
  BY <1>5, <1>7 DEF Ordered
<1>11. ASSUME NEW kind
       PROVE  /\ IsFiniteSet(kept \intersect OfKindIn(s, kind))
              /\ Cardinality(OfKindIn(r, kind)) = Cardinality(kept \intersect OfKindIn(s, kind))
  <2> DEFINE B == kept \intersect OfKindIn(s, kind)
             A == {k \in 1..N : f[k] \in B}
  <2>1. OfKindIn(r, kind) = A
    BY <1>7 DEF OfKindIn
  <2>2. B \in SUBSET kept
    OBVIOUS
  <2> HIDE DEF B
  <2>3. IsFiniteSet(B) /\ Cardinality(PartIn(f, kept, B)) = Cardinality(B)
    BY <1>1, <1>2, <1>4, <2>2, OrderCounts
  <2>4. A = PartIn(f, kept, B)
    BY Zenon DEF PartIn, N
  <2> QED  BY <2>1, <2>3, <2>4 DEF B
<1> QED  BY <1>5, <1>7, <1>9, <1>10, <1>11 DEF r

\* The entries of the same kind up to one of them, and the entries that stay.
BeforeIn(s, i) == {j \in 1..i : s[j].at.kind = s[i].at.kind}

KeptOf(s) == {i \in DOMAIN s : Cardinality(BeforeIn(s, i)) <= MaxEntries}

LEMMA BeforeIs ==
  ASSUME NEW n, NEW s \in Seq(Entry(n)), NEW i \in DOMAIN s
  PROVE  /\ IsFiniteSet(BeforeIn(s, i)) /\ Cardinality(BeforeIn(s, i)) \in Nat
         /\ \A j \in BeforeIn(s, i) :
              j \in DOMAIN s /\ j <= i /\ s[j].at.kind = s[i].at.kind
<1>1. BeforeIn(s, i) \in SUBSET (1..i) /\ i \in Nat
  BY DEF BeforeIn
<1>2. IsFiniteSet(BeforeIn(s, i)) /\ Cardinality(BeforeIn(s, i)) \in Nat
  BY <1>1, PositionsFinite
<1>3. DOMAIN s = 1..Len(s) /\ Len(s) \in Nat
  OBVIOUS
<1> QED  BY <1>2, <1>3 DEF BeforeIn

\* Of each kind the first entries stay, and none is removed while there is room.
LEMMA KeptIs ==
  ASSUME NEW n, NEW s \in Seq(Entry(n)), NEW kind
  PROVE  LET K == KeptOf(s) \intersect OfKindIn(s, kind)
         IN  /\ Cardinality(K) <= MaxEntries
             /\ \A i \in OfKindIn(s, kind) \ KeptOf(s) :
                  Cardinality(K) >= MaxEntries /\ \A k \in K : k < i
<1> DEFINE K == KeptOf(s) \intersect OfKindIn(s, kind)
<1>1. /\ DOMAIN s = 1..Len(s) /\ Len(s) \in Nat /\ MaxEntries \in Nat
      /\ K \in SUBSET (1..Len(s)) /\ K \in SUBSET Nat
  BY HistoryAssumption DEF OfKindIn
<1>2. IsFiniteSet(K) /\ Cardinality(K) \in Nat
  BY <1>1, PositionsFinite
<1>3. \A k \in K : k \in DOMAIN s /\ s[k].at.kind = kind /\ Cardinality(BeforeIn(s, k)) <= MaxEntries
  BY DEF KeptOf, OfKindIn
<1>4. \A i \in OfKindIn(s, kind) : i \in DOMAIN s /\ s[i].at.kind = kind /\ i \in Nat
  BY <1>1 DEF OfKindIn
<1>5. \A i \in OfKindIn(s, kind) \ KeptOf(s) : ~(Cardinality(BeforeIn(s, i)) <= MaxEntries)
  BY <1>4 DEF KeptOf
<1>6. \A i \in OfKindIn(s, kind) : i \in KeptOf(s) => i \in K
  OBVIOUS
<1> HIDE DEF K
<1>7. Cardinality(K) <= MaxEntries
  <2>1. CASE K = {}
    BY <1>1, <2>1, FS_EmptySet
  <2>2. CASE K # {}
    <3> DEFINE m == Max(K)
    <3>1. m \in K /\ \A k \in K : k <= m
      BY <1>1, <2>2, GreatestIn
    <3> HIDE DEF m
    <3>2. ASSUME NEW k \in K PROVE k \in BeforeIn(s, m)
      <4>1. k \in 1..Len(s) /\ m \in 1..Len(s) /\ k <= m
        BY <1>1, <3>1
      <4>2. k \in 1..m
        BY <1>1, <4>1
      <4>3. s[k].at.kind = s[m].at.kind
        BY <1>3, <3>1
      <4> QED  BY <4>2, <4>3 DEF BeforeIn
    <3>3. m \in DOMAIN s /\ Cardinality(BeforeIn(s, m)) <= MaxEntries
      BY <1>3, <3>1
    <3>4. IsFiniteSet(BeforeIn(s, m)) /\ Cardinality(BeforeIn(s, m)) \in Nat
      BY <3>3, BeforeIs
    <3>5. Cardinality(K) <= Cardinality(BeforeIn(s, m))
      BY <3>2, <3>4, FS_Subset
    <3> QED  BY <1>1, <1>2, <3>3, <3>4, <3>5
  <2> QED  BY <2>1, <2>2
<1>8. ASSUME NEW i \in OfKindIn(s, kind) \ KeptOf(s), NEW k \in K PROVE k < i
  <2>1. SUFFICES ASSUME i <= k PROVE FALSE
    BY <1>1, <1>4
  <2>2. i \in DOMAIN s /\ k \in DOMAIN s /\ i \in Nat /\ k \in Nat
    BY <1>1, <1>3, <1>4
  <2>3. ASSUME NEW j \in BeforeIn(s, i) PROVE j \in BeforeIn(s, k)
    <3>1. j \in 1..i /\ s[j].at.kind = s[i].at.kind
      BY DEF BeforeIn
    <3>2. s[i].at.kind = s[k].at.kind
      BY <1>3, <1>4
    <3>3. j \in 1..k
      BY <2>1, <2>2, <3>1
    <3> QED  BY <3>1, <3>2, <3>3 DEF BeforeIn
  <2>4. /\ IsFiniteSet(BeforeIn(s, k)) /\ Cardinality(BeforeIn(s, k)) \in Nat
        /\ Cardinality(BeforeIn(s, i)) \in Nat
    BY <2>2, BeforeIs
  <2>5. Cardinality(BeforeIn(s, i)) <= Cardinality(BeforeIn(s, k))
    BY <2>3, <2>4, FS_Subset
  <2>6. Cardinality(BeforeIn(s, k)) <= MaxEntries /\ ~(Cardinality(BeforeIn(s, i)) <= MaxEntries)
    BY <1>3, <1>5
  <2> QED  BY <1>1, <2>4, <2>5, <2>6
<1>9. ASSUME NEW i \in OfKindIn(s, kind) \ KeptOf(s) PROVE Cardinality(K) >= MaxEntries
  <2> DEFINE R == OfKindIn(s, kind) \ KeptOf(s)
  <2>1. R \in SUBSET Nat /\ R # {}
    BY <1>4, <1>9
  <2>2. PICK m \in R : \A k \in R : m <= k
    BY <2>1, LeastIn
  <2>3. m \in DOMAIN s /\ s[m].at.kind = kind /\ m \in Nat
    BY <1>4
  <2>4. ASSUME NEW j \in BeforeIn(s, m), j # m PROVE j \in K
    <3>1. j \in DOMAIN s /\ j <= m /\ s[j].at.kind = kind
      BY <2>3, <2>4, BeforeIs
    <3>2. j \in OfKindIn(s, kind) /\ j \in Nat
      BY <1>1, <3>1 DEF OfKindIn
    <3>3. j \notin R
      BY <2>2, <2>3, <2>4, <3>1, <3>2
    <3> QED  BY <1>6, <3>2, <3>3
  <2>5. BeforeIn(s, m) \in SUBSET (K \union {m})
    BY <2>4
  <2>6. /\ IsFiniteSet(K \union {m}) /\ Cardinality(K \union {m}) \in Nat
        /\ Cardinality(K \union {m}) <= Cardinality(K) + 1
    <3>1. /\ IsFiniteSet(K \union {m})
          /\ Cardinality(K \union {m}) = IF m \in K THEN Cardinality(K) ELSE Cardinality(K) + 1
      BY <1>2, FS_AddElement
    <3> QED  BY <1>2, <3>1
  <2>7. Cardinality(BeforeIn(s, m)) <= Cardinality(K \union {m})
    BY <2>5, <2>6, FS_Subset
  <2>8. ~(Cardinality(BeforeIn(s, m)) <= MaxEntries) /\ Cardinality(BeforeIn(s, m)) \in Nat
    BY <1>5, <2>3, BeforeIs
  <2> QED  BY <1>1, <1>2, <2>6, <2>7, <2>8
<1> QED  BY <1>7, <1>8, <1>9 DEF K

\* Two spellings of a destination have the same latest connection.
LEMMA SameLast ==
  ASSUME NEW vs, NEW a, NEW b, SameDestination(a, b)
  PROVE  LastIn(vs, a) = LastIn(vs, b) /\ a.kind = b.kind
<1>1. Visited(vs, a) = Visited(vs, b) /\ a.kind = b.kind
  BY DEF Visited, SameDestination
<1> QED  BY <1>1 DEF LastIn

\* sort_and_limit takes out the oldest of a kind that has too many.
LEMMA LimitKeeps ==
  ASSUME NEW n, NEW s \in Seq(Entry(n)), NEW vs \in Seq(Input), Ordered(s, vs)
  PROVE  LET r == SortAndLimit(s)
         IN  r \in Seq(Entry(n)) /\ Ordered(r, vs) /\ Limited(r)
             /\ (Accounted(s, vs) => Accounted(r, vs))
<1> DEFINE kept == KeptOf(s)
           r == SortAndLimit(s)
<1>1. r = Retain(s, kept)
  BY Zenon DEF SortAndLimit, KeptOf, BeforeIn
<1>2. kept \in SUBSET (DOMAIN s)
  BY DEF KeptOf
<1> HIDE DEF kept, r
<1>3. /\ r \in Seq(Entry(n))
      /\ \A k \in DOMAIN r : \E i \in kept : r[k] = s[i]
      /\ \A i \in kept : \E k \in DOMAIN r : r[k] = s[i]
      /\ Ordered(s, vs) => Ordered(r, vs)
      /\ \A kind : /\ IsFiniteSet(kept \intersect OfKindIn(s, kind))
                   /\ Cardinality(OfKindIn(r, kind))
                        = Cardinality(kept \intersect OfKindIn(s, kind))
  BY <1>1, <1>2, RetainKeeps
<1>4. \A kind :
        /\ Cardinality(kept \intersect OfKindIn(s, kind)) <= MaxEntries
        /\ \A i \in OfKindIn(s, kind) \ kept :
             /\ Cardinality(kept \intersect OfKindIn(s, kind)) >= MaxEntries
             /\ \A k \in kept \intersect OfKindIn(s, kind) : k < i
  BY KeptIs DEF kept
<1>5. Limited(r)
  BY <1>3, <1>4 DEF Limited
<1>6. ASSUME Accounted(s, vs), NEW v \in DOMAIN vs, NEW i \in DOMAIN s,
             SameDestination(s[i].at, vs[v])
      PROVE  \/ \E k \in DOMAIN r : SameDestination(r[k].at, vs[v])
             \/ /\ Cardinality(OfKindIn(r, vs[v].kind)) >= MaxEntries
                /\ \A k \in OfKindIn(r, vs[v].kind) : LastIn(vs, r[k].at) > LastIn(vs, vs[v])
  <2>1. CASE i \in kept
    BY <1>3, <1>6, <2>1
  <2>2. CASE i \notin kept
    <3> DEFINE kind == vs[v].kind
    <3>1. LastIn(vs, s[i].at) = LastIn(vs, vs[v]) /\ s[i].at.kind = kind
      BY <1>6, SameLast
    <3>2. i \in OfKindIn(s, kind) \ kept
      BY <2>2, <3>1 DEF OfKindIn
    <3>3. Cardinality(OfKindIn(r, kind)) >= MaxEntries
      BY <1>3, <1>4, <3>2
    <3>4. ASSUME NEW k \in OfKindIn(r, kind)
          PROVE  LastIn(vs, r[k].at) > LastIn(vs, vs[v])
      <4>1. k \in DOMAIN r /\ r[k].at.kind = kind
        BY DEF OfKindIn
      <4>2. PICK j \in kept : r[k] = s[j]
        BY <1>3, <4>1
      <4>3. j \in kept \intersect OfKindIn(s, kind) /\ j \in DOMAIN s
        BY <1>2, <4>1, <4>2 DEF OfKindIn
      <4>4. j < i
        BY <1>4, <3>2, <4>3
      <4> QED  BY <3>1, <4>2, <4>3, <4>4 DEF Ordered
    <3> QED  BY <3>3, <3>4
  <2> QED  BY <2>1, <2>2
<1>7. ASSUME Accounted(s, vs), NEW v \in DOMAIN vs,
             ~ \E i \in DOMAIN s : SameDestination(s[i].at, vs[v])
      PROVE  /\ Cardinality(OfKindIn(r, vs[v].kind)) >= MaxEntries
             /\ \A k \in OfKindIn(r, vs[v].kind) : LastIn(vs, r[k].at) > LastIn(vs, vs[v])
  <2> DEFINE kind == vs[v].kind
  <2>1. /\ Cardinality(OfKindIn(s, kind)) >= MaxEntries
        /\ \A i \in OfKindIn(s, kind) : LastIn(vs, s[i].at) > LastIn(vs, vs[v])
    BY <1>7 DEF Accounted
  <2> HIDE DEF kind
  <2>2. Cardinality(OfKindIn(r, kind)) >= MaxEntries
    <3>1. CASE OfKindIn(s, kind) \subseteq kept
      <4>1. kept \intersect OfKindIn(s, kind) = OfKindIn(s, kind)
        BY <3>1
      <4> QED  BY <1>3, <2>1, <4>1
    <3>2. CASE ~(OfKindIn(s, kind) \subseteq kept)
      BY <1>3, <1>4, <3>2
    <3> QED  BY <3>1, <3>2
  <2>3. ASSUME NEW k \in OfKindIn(r, kind)
        PROVE  LastIn(vs, r[k].at) > LastIn(vs, vs[v])
    <3>1. PICK j \in kept : r[k] = s[j]
      BY <1>3 DEF OfKindIn
    <3>2. j \in OfKindIn(s, kind)
      BY <1>2, <3>1 DEF OfKindIn
    <3> QED  BY <2>1, <3>1, <3>2
  <2> QED  BY <2>2, <2>3 DEF kind
<1>8. Accounted(s, vs) => Accounted(r, vs)
  BY <1>6, <1>7 DEF Accounted
<1> QED  BY <1>3, <1>5, <1>8 DEF r

LEMMA LastIs ==
  ASSUME NEW vs \in Seq(Input), NEW at
  PROVE  /\ LastIn(vs, at) \in Nat /\ LastIn(vs, at) <= Len(vs)
         /\ Visited(vs, at) \in SUBSET (1..Len(vs))
         /\ Visited(vs, at) # {} => /\ LastIn(vs, at) \in Visited(vs, at)
                                    /\ \A k \in Visited(vs, at) : k <= LastIn(vs, at)
<1>1. Visited(vs, at) \in SUBSET (1..Len(vs)) /\ Len(vs) \in Nat
  BY DEF Visited
<1>2. CASE Visited(vs, at) = {}
  BY <1>1, <1>2 DEF LastIn
<1>3. CASE Visited(vs, at) # {}
  <2>1. LastIn(vs, at) = Max(Visited(vs, at))
    BY <1>3 DEF LastIn
  <2>2. Max(Visited(vs, at)) \in Visited(vs, at)
        /\ \A k \in Visited(vs, at) : k <= Max(Visited(vs, at))
    BY <1>1, <1>3, GreatestIn
  <2>3. LastIn(vs, at) \in 1..Len(vs)
    BY <1>1, <2>1, <2>2
  <2> QED  BY <1>1, <2>1, <2>2, <2>3
<1> QED  BY <1>2, <1>3

\* A further connection is the latest to its destination, and to no other.
LEMMA LastAppends ==
  ASSUME NEW vs \in Seq(Input), NEW input \in Input, NEW at
  PROVE  LET w == Append(vs, input)
         IN  /\ w \in Seq(Input) /\ Len(w) = Len(vs) + 1 /\ w[Len(vs) + 1] = input
             /\ \A v \in 1..Len(vs) : w[v] = vs[v]
             /\ SameDestination(at, input) => LastIn(w, at) = Len(vs) + 1
             /\ ~SameDestination(at, input) => LastIn(w, at) = LastIn(vs, at)
<1> DEFINE w == Append(vs, input)
<1>1. /\ w \in Seq(Input) /\ Len(w) = Len(vs) + 1 /\ w[Len(vs) + 1] = input
      /\ \A v \in 1..Len(vs) : w[v] = vs[v]
      /\ Len(vs) \in Nat /\ DOMAIN w = 1..(Len(vs) + 1) /\ DOMAIN vs = 1..Len(vs)
  OBVIOUS
<1> HIDE DEF w
<1>2. ASSUME SameDestination(at, input) PROVE LastIn(w, at) = Len(vs) + 1
  <2>1. Len(vs) + 1 \in Visited(w, at)
    BY <1>1, <1>2 DEF Visited, SameDestination
  <2>2. LastIn(w, at) \in Nat /\ LastIn(w, at) <= Len(w) /\ Len(vs) + 1 <= LastIn(w, at)
    BY <1>1, <2>1, LastIs
  <2> QED  BY <1>1, <2>2
<1>3. ASSUME ~SameDestination(at, input) PROVE LastIn(w, at) = LastIn(vs, at)
  <2>1. \A i \in 1..(Len(vs) + 1) : i \in Visited(w, at) => i # Len(vs) + 1
    BY <1>1, <1>3 DEF Visited, SameDestination
  <2>2. \A i \in 1..(Len(vs) + 1) : i # Len(vs) + 1 => i \in 1..Len(vs)
    BY <1>1
  <2>3. \A i \in 1..Len(vs) : i \in 1..(Len(vs) + 1)
    BY <1>1
  <2>4. Visited(w, at) = Visited(vs, at)
    <3>1. ASSUME NEW i \in Visited(w, at) PROVE i \in Visited(vs, at)
      <4>1. i \in 1..(Len(vs) + 1) /\ w[i].kind = at.kind /\ w[i].host = at.host
        BY <1>1 DEF Visited
      <4>2. i \in 1..Len(vs)
        BY <2>1, <2>2, <4>1
      <4> QED  BY <1>1, <4>1, <4>2 DEF Visited
    <3>2. ASSUME NEW i \in Visited(vs, at) PROVE i \in Visited(w, at)
      BY <1>1, <2>3 DEF Visited
    <3> QED  BY <3>1, <3>2
  <2> QED  BY <2>4 DEF LastIn
<1> QED  BY <1>1, <1>2, <1>3 DEF w

\* No destination is listed twice.
LEMMA ListedOnce ==
  ASSUME NEW n, NEW s \in Seq(Entry(n)), NEW vs \in Seq(Input), Ordered(s, vs),
         NEW i \in DOMAIN s, NEW j \in DOMAIN s,
         SameDestination(s[i].at, s[j].at) \/ s[i].id = s[j].id
  PROVE  i = j
<1>1. LastIn(vs, s[i].at) \in Nat /\ LastIn(vs, s[j].at) \in Nat
  BY LastIs
<1>2. SameDestination(s[i].at, s[j].at) => LastIn(vs, s[i].at) = LastIn(vs, s[j].at)
  BY SameLast
<1>3. i \in Int /\ j \in Int
  OBVIOUS
<1>4. ~(i < j) /\ ~(j < i)
  BY <1>1, <1>2 DEF Ordered
<1> QED  BY <1>3, <1>4

\* The entries that stay below the new one.
OthersIn(s, input) == {i \in DOMAIN s : ~SameDestination(s[i].at, input)}

\* An entry of the input's destination in front of the entries of others.
LEMMA UpsertKeeps ==
  ASSUME NEW n \in Nat, NEW s \in Seq(Entry(n)), NEW vs \in Seq(Input), Ordered(s, vs),
         NEW input \in Input, NEW id \in 1..(n + 1),
         \A j \in OthersIn(s, input) : s[j].id # id
  PROVE  LET t == <<[id |-> id, at |-> input]>> \o Retain(s, OthersIn(s, input))
             w == Append(vs, input)
         IN  /\ t \in Seq(Entry(n + 1)) /\ Ordered(t, w)
             /\ Accounted(s, vs) => Accounted(t, w)
<1> DEFINE others == OthersIn(s, input)
           r == Retain(s, others)
           e == [id |-> id, at |-> input]
           t == <<e>> \o r
           w == Append(vs, input)
<1>1. others \in SUBSET (DOMAIN s) /\ \A i \in others : ~SameDestination(s[i].at, input)
  BY DEF OthersIn
<1>2. \A i \in DOMAIN s : i \notin others => SameDestination(s[i].at, input)
  BY DEF OthersIn
<1>3. \A j \in others : s[j].id # id
  OBVIOUS
<1>4. e.id = id /\ e.at = input /\ e \in Entry(n + 1)
  BY DEF Entry
<1> HIDE DEF others, e
<1>5. /\ r \in Seq(Entry(n)) /\ Ordered(r, vs)
      /\ \A k \in DOMAIN r : \E i \in others : r[k] = s[i]
      /\ \A i \in others : \E k \in DOMAIN r : r[k] = s[i]
  BY <1>1, RetainKeeps
<1> HIDE DEF r
<1>6. /\ w \in Seq(Input) /\ Len(w) = Len(vs) + 1 /\ w[Len(vs) + 1] = input
      /\ \A v \in 1..Len(vs) : w[v] = vs[v]
      /\ Len(vs) \in Nat /\ DOMAIN w = 1..(Len(vs) + 1) /\ DOMAIN vs = 1..Len(vs)
  BY LastAppends
<1>7. \A at : /\ SameDestination(at, input) => LastIn(w, at) = Len(vs) + 1
              /\ ~SameDestination(at, input) => LastIn(w, at) = LastIn(vs, at)
  BY LastAppends
<1> HIDE DEF w
<1>8. Len(r) \in Nat /\ DOMAIN r = 1..Len(r) /\ r \in Seq(Entry(n + 1))
  <2>1. Entry(n) \subseteq Entry(n + 1)
    BY DEF Entry
  <2> QED  BY <1>5, <2>1
<1>9. /\ t \in Seq(Entry(n + 1)) /\ Len(t) = Len(r) + 1 /\ DOMAIN t = 1..(Len(r) + 1)
      /\ t[1] = e /\ \A k \in 1..Len(r) : t[k + 1] = r[k]
  BY <1>4, <1>8
<1> HIDE DEF t
<1>10. \A k \in DOMAIN t : \/ k = 1 /\ t[k] = e
                           \/ k > 1 /\ k - 1 \in DOMAIN r /\ t[k] = r[k - 1]
  <2> SUFFICES ASSUME NEW k \in DOMAIN t, k # 1
               PROVE  k > 1 /\ k - 1 \in DOMAIN r /\ t[k] = r[k - 1]
    BY <1>9
  <2>1. k \in Nat /\ k > 1 /\ k - 1 \in 1..Len(r) /\ (k - 1) + 1 = k
    BY <1>8, <1>9
  <2>2. t[(k - 1) + 1] = r[k - 1]
    BY <1>9, <2>1
  <2> QED  BY <1>8, <2>1, <2>2
<1>11. \A i \in others : \E k \in DOMAIN t : k > 1 /\ t[k] = s[i]
  <2> SUFFICES ASSUME NEW i \in others PROVE \E k \in DOMAIN t : k > 1 /\ t[k] = s[i]
    OBVIOUS
  <2>1. PICK k \in DOMAIN r : r[k] = s[i]
    BY <1>5
  <2>2. k + 1 \in DOMAIN t /\ k + 1 > 1 /\ t[k + 1] = s[i]
    BY <1>8, <1>9, <2>1
  <2> QED  BY <2>2
<1>12. \A k \in DOMAIN r :
         /\ ~SameDestination(r[k].at, input) /\ r[k].id # id
         /\ LastIn(w, r[k].at) = LastIn(vs, r[k].at)
         /\ LastIn(vs, r[k].at) \in Nat /\ LastIn(vs, r[k].at) <= Len(vs)
  BY <1>1, <1>3, <1>5, <1>7, LastIs
<1>13. LastIn(w, input) = Len(vs) + 1
  BY <1>7 DEF SameDestination
<1>14. Ordered(t, w)
  <2> SUFFICES ASSUME NEW i \in DOMAIN t, NEW j \in DOMAIN t, i < j
               PROVE  LastIn(w, t[i].at) > LastIn(w, t[j].at) /\ t[i].id # t[j].id
    BY DEF Ordered
  <2>1. i \in Nat /\ j \in Nat /\ i >= 1
    BY <1>8, <1>9
  <2>2. j - 1 \in DOMAIN r /\ t[j] = r[j - 1]
    BY <1>10, <2>1
  <2>3. CASE i = 1
    <3>1. t[i].at = input /\ t[i].id = id
      BY <1>4, <1>9, <2>3
    <3>2. LastIn(w, t[j].at) \in Nat /\ LastIn(w, t[j].at) <= Len(vs) /\ t[j].id # id
      BY <1>12, <2>2
    <3> QED  BY <1>6, <1>13, <3>1, <3>2
  <2>4. CASE i # 1
    <3>1. i - 1 \in DOMAIN r /\ t[i] = r[i - 1] /\ i - 1 < j - 1
      BY <1>10, <2>1, <2>4
    <3>2. LastIn(vs, r[i - 1].at) > LastIn(vs, r[j - 1].at) /\ r[i - 1].id # r[j - 1].id
      BY <1>5, <2>2, <3>1 DEF Ordered
    <3> QED  BY <1>12, <2>2, <3>1, <3>2
  <2> QED  BY <2>3, <2>4
<1>15. ASSUME Accounted(s, vs), NEW v \in DOMAIN w,
              ~ \E k \in DOMAIN t : SameDestination(t[k].at, w[v])
       PROVE  /\ Cardinality(OfKindIn(t, w[v].kind)) >= MaxEntries
              /\ \A k \in OfKindIn(t, w[v].kind) : LastIn(w, t[k].at) > LastIn(w, w[v])
  <2> DEFINE kind == w[v].kind
  <2>1. 1 \in DOMAIN t /\ t[1].at = input
    BY <1>4, <1>8, <1>9
  <2>2. ~SameDestination(input, w[v])
    BY <1>15, <2>1
  <2>3. ~SameDestination(w[v], input)
    BY <2>2 DEF SameDestination
  <2>4. v \in DOMAIN vs /\ w[v] = vs[v]
    BY <1>6, <2>2 DEF SameDestination
  <2>5. ASSUME NEW i \in DOMAIN s PROVE ~SameDestination(s[i].at, vs[v])
    <3>1. CASE i \in others
      BY <1>11, <1>15, <2>4, <3>1
    <3>2. CASE i \notin others
      <4>1. SameDestination(s[i].at, input)
        BY <1>2, <3>2
      <4> QED  BY <2>2, <2>4, <4>1 DEF SameDestination
    <3> QED  BY <3>1, <3>2
  <2>6. /\ Cardinality(OfKindIn(s, kind)) >= MaxEntries
        /\ \A i \in OfKindIn(s, kind) : LastIn(vs, s[i].at) > LastIn(vs, vs[v])
    BY <1>15, <2>4, <2>5 DEF Accounted
  <2>7. LastIn(w, w[v]) = LastIn(vs, vs[v]) /\ LastIn(vs, vs[v]) \in Nat
        /\ LastIn(vs, vs[v]) <= Len(vs)
    BY <1>7, <2>3, <2>4, LastIs
  <2> HIDE DEF kind
  <2>8. ASSUME NEW k \in OfKindIn(t, kind) PROVE LastIn(w, t[k].at) > LastIn(w, w[v])
    <3>1. k \in DOMAIN t /\ t[k].at.kind = kind
      BY DEF OfKindIn
    <3>2. CASE k = 1
      BY <1>6, <1>13, <2>1, <2>7, <3>2
    <3>3. CASE k # 1
      <4>1. k - 1 \in DOMAIN r /\ t[k] = r[k - 1]
        BY <1>10, <3>1, <3>3
      <4>2. PICK i \in others : r[k - 1] = s[i]
        BY <1>5, <4>1
      <4>3. i \in OfKindIn(s, kind)
        BY <1>1, <3>1, <4>1, <4>2 DEF OfKindIn
      <4>4. LastIn(vs, s[i].at) > LastIn(vs, vs[v])
        BY <2>6, <4>3
      <4>5. LastIn(w, t[k].at) = LastIn(vs, s[i].at)
        BY <1>12, <4>1, <4>2
      <4> QED  BY <2>7, <4>4, <4>5
    <3> QED  BY <3>2, <3>3
  <2>9. Cardinality(OfKindIn(s, kind)) <= Cardinality(OfKindIn(t, kind))
    <3> DEFINE S == OfKindIn(s, kind)
               T == OfKindIn(t, kind)
               g == [i \in S |-> IF i \in others THEN CHOOSE k \in DOMAIN t : k > 1 /\ t[k] = s[i]
                                 ELSE 1]
    <3>1. IsFiniteSet(T)
      BY <1>9, KindsFinite
    <3>2. \A i \in S : i \in DOMAIN s /\ s[i].at.kind = kind
      BY DEF OfKindIn
    <3>3. \A i \in S : i \in others =>
            g[i] \in DOMAIN t /\ g[i] > 1 /\ t[g[i]] = s[i]
      BY <1>11
    <3>4. \A i \in S : i \notin others =>
            g[i] = 1 /\ SameDestination(s[i].at, input)
      BY <1>2, <3>2
    <3> HIDE DEF S
    <3>5. \A k \in DOMAIN t : t[k].at.kind = kind => k \in T
      BY DEF OfKindIn
    <3> HIDE DEF T
    <3>6. ASSUME NEW i \in S PROVE g[i] \in T
      <4>1. CASE i \in others
        BY <3>2, <3>3, <3>5, <4>1
      <4>2. CASE i \notin others
        <5>1. input.kind = kind
          BY <3>2, <3>4, <4>2 DEF SameDestination
        <5> QED  BY <2>1, <3>4, <3>5, <4>2, <5>1
      <4> QED  BY <4>1, <4>2
    <3>7. g \in [S -> T]
      BY <3>6
    <3> HIDE DEF g
    <3>8. ASSUME NEW i \in S, NEW j \in S, g[i] = g[j] PROVE i = j
      <4>1. i \in DOMAIN s /\ j \in DOMAIN s
        BY <3>2
      <4>2. CASE i \in others /\ j \in others
        <5>1. s[i].id = s[j].id
          BY <3>3, <3>8, <4>2
        <5> QED  BY <4>1, <5>1, ListedOnce
      <4>3. CASE i \notin others /\ j \notin others
        <5>1. SameDestination(s[i].at, s[j].at)
          BY <3>4, <4>3 DEF SameDestination
        <5> QED  BY <4>1, <5>1, ListedOnce
      <4>4. CASE i \in others /\ j \notin others
        BY <3>3, <3>4, <3>8, <4>4
      <4>5. CASE i \notin others /\ j \in others
        BY <3>3, <3>4, <3>8, <4>5
      <4> QED  BY <4>2, <4>3, <4>4, <4>5
    <3>9. g \in Injection(S, T)
      BY <3>7, <3>8 DEF Injection, IsInjective
    <3>10. Cardinality(S) <= Cardinality(T)
      BY <3>1, <3>9, FS_Injection
    <3> QED  BY <3>10 DEF S, T
  <2>10. /\ Cardinality(OfKindIn(s, kind)) \in Nat /\ Cardinality(OfKindIn(t, kind)) \in Nat
         /\ MaxEntries \in Nat
    BY <1>9, KindsFinite, HistoryAssumption
  <2>11. Cardinality(OfKindIn(t, kind)) >= MaxEntries
    BY <2>6, <2>9, <2>10
  <2> QED  BY <2>8, <2>11 DEF kind
<1>16. Accounted(s, vs) => Accounted(t, w)
  BY <1>15 DEF Accounted
<1>17. r = Retain(s, OthersIn(s, input)) /\ e = [id |-> id, at |-> input] /\ w = Append(vs, input)
  BY DEF r, others, e, w
<1> QED  BY <1>9, <1>14, <1>16, <1>17 DEF t

\* upsert_history, with the identifier it takes.
LEMMA UpsertIs ==
  ASSUME HistoryInv, NEW input \in Input
  PROVE  LET s == history.entries
         IN  \E id \in 1..(ids + 1) :
               /\ \A j \in OthersIn(s, input) : s[j].id # id
               /\ UpsertHistory(s, input)
                    = SortAndLimit(<<[id |-> id, at |-> input]>> \o Retain(s, OthersIn(s, input)))
<1> DEFINE s == history.entries
           same == {i \in DOMAIN s : SameDestination(s[i].at, input)}
           id == IF same = {} THEN ids + 1
                 ELSE s[CHOOSE i \in same : \A j \in same : i <= j].id
<1>1. /\ ids \in Nat /\ s \in Seq(Entry(ids)) /\ Ordered(s, visits) /\ visits \in Seq(Input)
  BY DEF HistoryInv
<1>2. DOMAIN s \ same = OthersIn(s, input)
  BY DEF OthersIn
<1>3. UpsertHistory(s, input)
        = SortAndLimit(<<[id |-> id, at |-> input]>> \o Retain(s, DOMAIN s \ same))
  BY Zenon DEF UpsertHistory
<1>4. \A j \in DOMAIN s : s[j].id \in 1..ids
  <2> HIDE DEF s
  <2>1. \A j \in DOMAIN s : s[j] \in Entry(ids)
    BY <1>1
  <2> QED  BY <2>1 DEF Entry
<1>5. CASE same = {}
  <2>1. id = ids + 1
    BY <1>5
  <2>2. \A j \in OthersIn(s, input) : s[j].id # ids + 1
    BY <1>1, <1>4 DEF OthersIn
  <2>3. ids + 1 \in 1..(ids + 1)
    BY <1>1
  <2> QED  BY <1>2, <1>3, <2>1, <2>2, <2>3
<1>6. CASE same # {}
  <2> DEFINE i0 == CHOOSE i \in same : \A j \in same : i <= j
  <2>1. same \in SUBSET Nat
    BY <1>1
  <2>2. i0 \in same
    <3>1. \E i \in same : \A j \in same : i <= j
      BY <1>6, <2>1, LeastIn
    <3> QED  BY <3>1
  <2>3. id = s[i0].id
    BY <1>6
  <2> HIDE DEF i0
  <2>4. i0 \in DOMAIN s /\ i0 \notin OthersIn(s, input)
    BY <2>2 DEF OthersIn
  <2> HIDE DEF id
  <2>5. id \in 1..(ids + 1)
    BY <1>1, <1>4, <2>3, <2>4
  <2>6. \A j \in OthersIn(s, input) : s[j].id # id
    <3> SUFFICES ASSUME NEW j \in OthersIn(s, input), s[j].id = id PROVE FALSE
      OBVIOUS
    <3>1. j \in DOMAIN s /\ s[j].id = s[i0].id
      BY <2>3 DEF OthersIn
    <3>2. j = i0
      BY <1>1, <2>4, <3>1, ListedOnce
    <3> QED  BY <2>4, <3>2
  <2> QED  BY <1>2, <1>3, <2>5, <2>6
<1> QED  BY <1>5, <1>6

LEMMA RecordKeeps ==
  ASSUME HistoryInv, NEW w \in Window, Record(w)
  PROVE  HistoryInv'
<1>1. /\ recording \in [Window -> Input \union {NoInput}] /\ ids \in Nat /\ visits \in Seq(Input)
      /\ history \in [readable : BOOLEAN, entries : Seq(Entry(ids))]
      /\ Ordered(history.entries, visits) /\ thinned \in BOOLEAN
  BY DEF HistoryInv
<1>2. recording[w] \in Input /\ recording' \in [Window -> Input \union {NoInput}]
      /\ thinned' = thinned
  BY <1>1 DEF Record
<1>3. CASE ~history.readable
  <2>1. UNCHANGED <<history, ids, visits>>
    BY <1>3 DEF Record
  <2> QED  BY <1>2, <2>1 DEF HistoryInv, Limited, Ordered, Accounted
<1>4. CASE history.readable
  <2> DEFINE s == history.entries
             input == recording[w]
             w2 == Append(visits, input)
  <2>1. /\ history' = [history EXCEPT !.entries = UpsertHistory(s, input)]
        /\ ids' = ids + 1 /\ visits' = w2
    BY <1>4 DEF Record
  <2>2. PICK id \in 1..(ids + 1) :
          /\ \A j \in OthersIn(s, input) : s[j].id # id
          /\ UpsertHistory(s, input)
               = SortAndLimit(<<[id |-> id, at |-> input]>> \o Retain(s, OthersIn(s, input)))
    BY <1>2, UpsertIs
  <2> DEFINE t == <<[id |-> id, at |-> input]>> \o Retain(s, OthersIn(s, input))
  <2>3. s \in Seq(Entry(ids)) /\ Ordered(s, visits) /\ input \in Input
    BY <1>1, <1>2
  <2> HIDE DEF s, input
  <2>4. /\ t \in Seq(Entry(ids + 1)) /\ Ordered(t, w2)
        /\ Accounted(s, visits) => Accounted(t, w2)
    BY <1>1, <2>2, <2>3, UpsertKeeps
  <2>5. w2 \in Seq(Input)
    BY <1>1, <2>3
  <2> DEFINE u == SortAndLimit(t)
  <2>6. UpsertHistory(s, input) = u
    BY <2>2
  <2> HIDE DEF t, w2
  <2>7. /\ u \in Seq(Entry(ids + 1)) /\ Ordered(u, w2) /\ Limited(u)
        /\ Accounted(t, w2) => Accounted(u, w2)
    BY <2>4, <2>5, LimitKeeps
  <2> HIDE DEF u
  <2>8. history' \in [readable : BOOLEAN, entries : Seq(Entry(ids'))]
        /\ history'.entries = u /\ history'.readable = history.readable
    BY <1>1, <2>1, <2>6, <2>7
  <2>9. Ordered(u, visits') /\ Limited(u)
    BY <2>1, <2>7
  <2>10. history.readable /\ ~thinned => Accounted(u, visits')
    BY <2>1, <2>4, <2>7 DEF HistoryInv, s
  <2>11. ids' \in Nat /\ visits' \in Seq(Input)
    BY <1>1, <2>1, <2>5
  <2> QED  BY <1>1, <1>2, <2>8, <2>9, <2>10, <2>11 DEF HistoryInv, Ordered, Limited, Accounted
<1> QED  BY <1>3, <1>4

LEMMA DeleteKeeps ==
  ASSUME HistoryInv, NEW id, DeleteEntry(id)
  PROVE  HistoryInv'
<1> DEFINE s == history.entries
           kept == DOMAIN s \ {i \in DOMAIN s : s[i].id = id}
           r == Retain(s, kept)
<1>1. /\ history' = [history EXCEPT !.entries = r] /\ thinned' = TRUE
      /\ UNCHANGED <<recording, ids, visits>>
  BY DEF DeleteEntry
<1>2. /\ s \in Seq(Entry(ids)) /\ Ordered(s, visits) /\ Limited(s) /\ kept \in SUBSET (DOMAIN s)
      /\ history \in [readable : BOOLEAN, entries : Seq(Entry(ids))]
  BY DEF HistoryInv
<1> HIDE DEF kept, s
<1>3. /\ r \in Seq(Entry(ids)) /\ Ordered(r, visits)
      /\ \A kind : Cardinality(OfKindIn(r, kind)) = Cardinality(kept \intersect OfKindIn(s, kind))
  BY <1>2, RetainKeeps
<1> HIDE DEF r
<1>4. ASSUME NEW kind \in Kind PROVE Cardinality(OfKindIn(r, kind)) <= MaxEntries
  <2>1. /\ IsFiniteSet(OfKindIn(s, kind)) /\ Cardinality(OfKindIn(s, kind)) \in Nat
        /\ Cardinality(OfKindIn(r, kind)) \in Nat
    BY <1>2, <1>3, KindsFinite
  <2>2. Cardinality(kept \intersect OfKindIn(s, kind)) <= Cardinality(OfKindIn(s, kind))
    BY <2>1, FS_Intersection
  <2>3. Cardinality(OfKindIn(s, kind)) <= MaxEntries /\ MaxEntries \in Nat
    BY <1>2, HistoryAssumption DEF Limited
  <2> QED  BY <1>3, <2>1, <2>2, <2>3
<1>5. Limited(r)
  BY <1>4 DEF Limited
<1>6. /\ history' \in [readable : BOOLEAN, entries : Seq(Entry(ids'))]
      /\ history'.entries = r
  BY <1>1, <1>2, <1>3
<1>7. Ordered(r, visits')
  BY <1>1, <1>3
<1> QED  BY <1>1, <1>5, <1>6, <1>7 DEF HistoryInv, Ordered, Limited, Accounted

\* A history without entries, of no connections.
LEMMA EmptyHistory ==
  /\ \A vs : Ordered(<< >>, vs)
  /\ Limited(<< >>) /\ Accounted(<< >>, << >>)
<1>1. ASSUME NEW kind \in Kind PROVE Cardinality(OfKindIn(<< >>, kind)) <= MaxEntries
  <2>1. OfKindIn(<< >>, kind) = {}
    BY DEF OfKindIn
  <2>2. Cardinality(OfKindIn(<< >>, kind)) = 0
    BY <2>1, FS_EmptySet
  <2> QED  BY <2>2, HistoryAssumption
<1> QED  BY <1>1 DEF Limited, Ordered, Accounted

LEMMA ClearedIs ==
  ASSUME NEW none, none = << >>
  PROVE  /\ \A n \in Nat : none \in Seq(Entry(n))
         /\ none \in Seq(Input)
         /\ Ordered(none, none) /\ Limited(none) /\ Accounted(none, none)
BY EmptyHistory

LEMMA HistoryKeeps ==
  ASSUME HistoryInv, [HistoryNext]_allVars
  PROVE  HistoryInv'
<1>1. /\ recording \in [Window -> Input \union {NoInput}] /\ visits \in Seq(Input) /\ ids \in Nat
      /\ thinned \in BOOLEAN /\ history \in [readable : BOOLEAN, entries : Seq(Entry(ids))]
  BY DEF HistoryInv
<1>2. ASSUME UNCHANGED <<history, ids, visits, thinned>>,
             recording' \in [Window -> Input \union {NoInput}]
      PROVE  HistoryInv'
  BY <1>2 DEF HistoryInv, Ordered, Limited, Accounted
<1>3. CASE UNCHANGED historyVars
  BY <1>1, <1>2, <1>3 DEF historyVars
<1>4. CASE Restart /\ recording' = [v \in Window |-> NoInput]
             /\ UNCHANGED <<history, ids, visits, thinned>>
  BY <1>2, <1>4
<1>5. ASSUME NEW w \in Window, NEW input \in Input, BeginRecord(w, input)
      PROVE  HistoryInv'
  BY <1>1, <1>2, <1>5 DEF BeginRecord
<1>6. ASSUME NEW w \in Window, Record(w) PROVE HistoryInv'
  BY <1>6, RecordKeeps
<1>7. ASSUME NEW w \in Window, RecordFails(w) PROVE HistoryInv'
  <2>1. /\ history' = [readable |-> FALSE, entries |-> << >>] /\ UNCHANGED <<ids, visits, thinned>>
        /\ recording' = [recording EXCEPT ![w] = NoInput]
    BY <1>7 DEF RecordFails
  <2>2. Ordered(<< >>, visits) /\ Limited(<< >>)
    BY EmptyHistory
  <2> QED  BY <1>1, <2>1, <2>2 DEF HistoryInv, Ordered, Limited, Accounted
<1>8. ASSUME NEW id, DeleteEntry(id) PROVE HistoryInv'
  BY <1>8, DeleteKeeps
<1>9. CASE ClearHistory
  <2>1. PICK none : none = << >>
    OBVIOUS
  <2>2. /\ history' = [readable |-> TRUE, entries |-> none] /\ visits' = none
        /\ thinned' = FALSE /\ UNCHANGED <<recording, ids>>
    BY <1>9, <2>1 DEF ClearHistory
  <2>3. /\ none \in Seq(Entry(ids)) /\ none \in Seq(Input)
        /\ Ordered(none, none) /\ Limited(none) /\ Accounted(none, none)
    BY <1>1, <2>1, ClearedIs
  <2>4. /\ history' \in [readable : BOOLEAN, entries : Seq(Entry(ids'))]
        /\ history'.entries = none /\ ids' \in Nat /\ visits' \in Seq(Input)
        /\ recording' \in [Window -> Input \union {NoInput}] /\ thinned' \in BOOLEAN
    BY <1>1, <2>2, <2>3
  <2>5. Ordered(history'.entries, visits') /\ Limited(history'.entries)
        /\ Accounted(history'.entries, visits')
    BY <2>2, <2>3, <2>4
  <2> QED  BY <2>4, <2>5 DEF HistoryInv, Ordered, Limited, Accounted
<1> QED  BY <1>3, <1>4, <1>5, <1>6, <1>7, <1>8, <1>9 DEF HistoryNext, allVars

\* HistoryIsRecent: the history lists the latest connections, each destination once,
\* for any connections, any limit, and any deletions (connection_history.rs,
\* upsert_history and sort_and_limit).
THEOREM HistoryIsRecentHolds == HistorySpec => []HistoryIsRecent
<1>1. HistoryInit => HistoryInv
  <2> SUFFICES ASSUME HistoryInit PROVE HistoryInv
    OBVIOUS
  <2>1. PICK none : none = << >>
    OBVIOUS
  <2>2. /\ history = [readable |-> TRUE, entries |-> none]
        /\ recording = [w \in Window |-> NoInput]
        /\ ids = 0 /\ visits = none /\ thinned = FALSE
    BY <2>1 DEF HistoryInit
  <2>3. /\ none \in Seq(Entry(ids)) /\ none \in Seq(Input)
        /\ Ordered(none, none) /\ Limited(none) /\ Accounted(none, none)
    BY <2>1, <2>2, ClearedIs
  <2> QED  BY <2>2, <2>3 DEF HistoryInv
<1> QED  BY <1>1, HistoryKeeps, HistoryInvIs, PTL DEF HistorySpec
=============================================================================
