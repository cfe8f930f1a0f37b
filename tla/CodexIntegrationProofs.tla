----------------------- MODULE CodexIntegrationProofs -----------------------
(***************************************************************************)
(* Theorems about CodexIntegration: the backup for any number of callers,  *)
(* the rest for calls that come one at a time.                             *)
(***************************************************************************)
EXTENDS CodexIntegration, TLAPS

OneCaller == \A c, d \in Calls : c = d

USE NoFileAssumption

(* What a call writes is a configuration. *)
LEMMA WrittenConfigs ==
  ASSUME TypeOK
  PROVE  Routed \in Config /\ (record # NoFile => Restored \in Config)
BY DEF TypeOK, Routed, Restored, Config, Record, Provider, Url, LegacyTable

(* Every kind of step preserves the types. *)
LEMMA BeginTypes ==
  ASSUME TypeOK, NEW c \in Calls, NEW conf \in Config, NEW rec \in Record \cup {NoFile},
         Begin(c, conf, rec), UNCHANGED <<config, record, user>>,
         backup' \in Config \cup {NoFile}, damaged' \in BOOLEAN
  PROVE  TypeOK'
BY DEF TypeOK, Begin, Call, user

(* The record an enable prepares. *)
LEMMA EnableTypes ==
  ASSUME TypeOK, NEW c \in Calls, Enable(c)
  PROVE  TypeOK'
<1> DEFINE rec == [version |-> 2, provider |-> config.provider, url |-> config.url,
                   removesTable |-> FALSE]
<1>1. rec \in Record
  BY DEF TypeOK, Config, Record
<1>2. Routed \in Config /\ backup' \in Config \cup {NoFile} /\ damaged' \in BOOLEAN
  BY WrittenConfigs DEF Enable, TypeOK
<1>3. Begin(c, Routed, rec) /\ UNCHANGED <<config, record, user>>
  BY DEF Enable
<1> HIDE DEF rec
<1> QED BY <1>1, <1>2, <1>3, BeginTypes

(* The record a migration prepares. *)
LEMMA MigrateTypes ==
  ASSUME TypeOK, NEW c \in Calls, Migrate(c)
  PROVE  TypeOK'
<1> DEFINE rec == [version |-> 2, provider |-> record.provider, url |-> BackedUpUrl,
                   removesTable |-> TRUE]
<1>1. record \in Record
  BY DEF Migrate, Status, TypeOK
<1>2. rec \in Record
  BY <1>1 DEF TypeOK, Config, Record, BackedUpUrl, Url
<1>3. Routed \in Config /\ backup' \in Config \cup {NoFile} /\ damaged' \in BOOLEAN
  BY WrittenConfigs DEF Migrate, TypeOK
<1>4. Begin(c, Routed, rec) /\ UNCHANGED <<config, record, user>>
  BY DEF Migrate
<1> HIDE DEF rec
<1> QED BY <1>2, <1>3, <1>4, BeginTypes

LEMMA DisableTypes ==
  ASSUME TypeOK, NEW c \in Calls, Disable(c)
  PROVE  TypeOK'
<1>1. record # NoFile
  BY DEF Disable, Status
<1>2. Restored \in Config /\ backup' \in Config \cup {NoFile} /\ damaged' \in BOOLEAN
  BY <1>1, WrittenConfigs DEF Disable, TypeOK
<1>3. Begin(c, Restored, NoFile) /\ UNCHANGED <<config, record, user>>
  BY DEF Disable
<1> QED BY <1>2, <1>3, BeginTypes

LEMMA WriteTypes ==
  ASSUME TypeOK, NEW c \in Calls, WriteConfig(c) \/ WriteRecord(c) \/ Interrupt(c)
  PROVE  TypeOK'
<1>1. IdleCall \in Call
  BY DEF IdleCall, Call, Config, Provider, Url
<1>2. call[c] \in Call
  BY DEF TypeOK
<1>3. CASE WriteConfig(c)
  BY <1>2, <1>3 DEF WriteConfig, TypeOK, Call, user
<1>4. CASE WriteRecord(c)
  BY <1>1, <1>2, <1>4 DEF WriteRecord, TypeOK, Call, user
<1>5. CASE Interrupt(c)
  BY <1>1, <1>2, <1>5 DEF Interrupt, TypeOK, user
<1> QED BY <1>3, <1>4, <1>5

(* Every step of the user is an edit of one value. *)
LEMMA UserSteps ==
  ASSUME UserNext
  PROVE  \/ \E p \in Provider : EditProvider(p) /\ (p \notin UserProvider => record # NoFile)
         \/ \E u \in Url : EditUrl(u) /\ (u \notin UserUrl => record # NoFile /\ record.version = 2)
         \/ \E t \in {"none", "ours", "theirs"} :
              EditTable(t) /\ (t = "ours" => record # NoFile /\ record.version = 1)
<1>1. CASE \E p \in UserProvider : EditProvider(p)
  BY <1>1 DEF UserProvider
<1>2. CASE \E u \in UserUrl : EditUrl(u)
  BY <1>2 DEF UserUrl
<1>3. CASE \E t \in {"none", "theirs"} : EditTable(t)
  BY <1>3
<1>4. CASE EditManaged
  BY <1>4 DEF EditManaged, Provider, Url
<1> QED BY <1>1, <1>2, <1>3, <1>4 DEF UserNext

(* The edits, as the invariants see them. *)
LEMMA EditTypes ==
  ASSUME TypeOK, UserNext
  PROVE  TypeOK'
<1>1. ASSUME NEW p \in Provider, EditProvider(p), p \notin UserProvider => record # NoFile
      PROVE  TypeOK'
  BY <1>1 DEF EditProvider, Edit, TypeOK, Config, UserConfig
<1>2. ASSUME NEW u \in Url, EditUrl(u), u \notin UserUrl => record # NoFile /\ record.version = 2
      PROVE  TypeOK'
  BY <1>2 DEF EditUrl, Edit, TypeOK, Config, UserConfig, UserUrl
<1>3. ASSUME NEW t \in {"none", "ours", "theirs"}, EditTable(t)
      PROVE  TypeOK'
  BY <1>3 DEF EditTable, Edit, TypeOK, Config, UserConfig
<1> QED BY <1>1, <1>2, <1>3, UserSteps

-----------------------------------------------------------------------------
BackupInv == TypeOK /\ BackupIsTheUsers /\ FirstBackup

(* The initial values have their types. *)
LEMMA InitTypes == Init => TypeOK
<1>1. IdleCall \in Call
  BY DEF IdleCall, Call, Config, Provider, Url
<1>2. UserConfig \subseteq Config
  BY DEF UserConfig, Config, UserProvider, UserUrl
<1>3. ASSUME Init, NEW c \in UserConfig, c = own
      PROVE  /\ [c EXCEPT !.provider = "codex-switcher", !.table = "ours"] \in Config
             /\ [version |-> 1, provider |-> c.provider, url |-> "absent",
                 removesTable |-> FALSE] \in Record
  BY <1>2 DEF Config, Record, UserConfig, UserProvider, UserUrl, Provider, Url
<1> SUFFICES ASSUME Init PROVE TypeOK
  OBVIOUS
<1>4. config \in Config /\ backup \in Config \cup {NoFile} /\ record \in Record \cup {NoFile}
  BY <1>2, <1>3 DEF Init
<1> QED BY <1>1, <1>4 DEF Init, TypeOK

LEMMA InitBackup == Init => BackupInv
<1>1. UserConfig \subseteq Config
  BY DEF UserConfig, Config, UserProvider, UserUrl
<1> QED BY <1>1, InitTypes DEF Init, BackupInv, BackupIsTheUsers, FirstBackup, AtRest, IdleCall

(* No step disturbs the backup, whoever else is at work. *)
LEMMA NextBackup == BackupInv /\ [Next]_vars => BackupInv'
<1> USE DEF BackupInv, BackupIsTheUsers, FirstBackup
<1>1. ASSUME BackupInv, NEW c \in Calls, Enable(c)
      PROVE  BackupInv'
  <2>1. backup' # NoFile /\ (backup = NoFile => backup' = config)
    BY <1>1 DEF Enable, TypeOK
  <2> QED BY <1>1, <2>1, EnableTypes DEF Enable
<1>2. ASSUME BackupInv, NEW c \in Calls, Migrate(c) \/ Disable(c)
      PROVE  BackupInv'
  <2>1. record # NoFile /\ backup' = backup
    BY <1>2 DEF Migrate, Disable, Status
  <2> QED BY <1>2, <2>1, MigrateTypes, DisableTypes
<1>3. ASSUME BackupInv, NEW c \in Calls, WriteConfig(c) \/ WriteRecord(c) \/ Interrupt(c)
      PROVE  BackupInv'
  <2>1. ~AtRest /\ backup' = backup
    BY <1>3 DEF AtRest, WriteConfig, WriteRecord, Interrupt
  <2> QED BY <1>3, <2>1, WriteTypes
<1>4. ASSUME BackupInv, UserNext
      PROVE  BackupInv'
  <2>1. UNCHANGED <<backup, record, call>>
    BY <1>4, UserSteps DEF EditProvider, EditUrl, EditTable, Edit
  <2>2. ASSUME record = NoFile, config \in UserConfig PROVE config' \in UserConfig
    <3>1. ASSUME NEW p \in UserProvider, EditProvider(p) PROVE config' \in UserConfig
      BY <2>2, <3>1 DEF EditProvider, Edit, UserConfig
    <3>2. ASSUME NEW u \in UserUrl, EditUrl(u) PROVE config' \in UserConfig
      BY <2>2, <3>2 DEF EditUrl, Edit, UserConfig
    <3>3. ASSUME NEW t \in {"none", "theirs"}, EditTable(t) PROVE config' \in UserConfig
      BY <2>2, <3>3 DEF EditTable, Edit, UserConfig
    <3> QED BY <2>2, <1>4, <3>1, <3>2, <3>3 DEF UserNext, EditManaged
  <2> QED BY <1>4, <2>1, <2>2, EditTypes DEF AtRest
<1>5. ASSUME BackupInv, UNCHANGED vars
      PROVE  BackupInv'
  BY <1>5 DEF vars, user, TypeOK, AtRest
<1> QED BY <1>1, <1>2, <1>3, <1>4, <1>5 DEF Next, CallNext

(* The backup is written once and holds a file of the user: for any number *)
(* of callers, interrupted wherever they are (integration.rs:149).         *)
THEOREM BackupIsKept == Spec => []BackupIsTheUsers
<1>1. Spec => []BackupInv
  BY InitBackup, NextBackup, PTL DEF Spec
<1> QED BY <1>1, PTL DEF BackupInv

-----------------------------------------------------------------------------
FilesInv == RestState /\ CallState

LEMMA InitFiles == Init => FilesInv
<1> SUFFICES ASSUME Init PROVE FilesInv
  OBVIOUS
<1>1. CallState
  BY DEF Init, CallState, IdleCall
<1>2. CASE record = NoFile
  <2>1. ASSUME own \in UserConfig
        PROVE  [version |-> 1, provider |-> own.provider, url |-> "absent",
                removesTable |-> FALSE] \in Record
    BY <2>1 DEF Record, UserConfig, UserProvider, Url
  <2>2. config = own
    BY <1>2, <2>1 DEF Init
  <2> QED BY <1>1, <1>2, <2>2 DEF FilesInv, RestState, Keeps
<1>3. CASE record # NoFile
  <2>1. /\ record.version = 1 /\ record.provider = own.provider
        /\ own.table = "none" /\ own \in UserConfig
        /\ config = [own EXCEPT !.provider = "codex-switcher", !.table = "ours"]
    BY <1>3 DEF Init
  <2>2. config.provider = "codex-switcher" /\ config.table = "ours" /\ config.url = own.url
    BY <2>1 DEF UserConfig
  <2> QED BY <1>1, <1>3, <2>1, <2>2 DEF FilesInv, RestState, Keeps, Managed, LegacyTable
<1> QED BY <1>2, <1>3

(* A call that begins has prepared what the user wants. *)
LEMMA BeginFiles ==
  ASSUME IntegrationInv, OneCaller, NEW c \in Calls, call[c].stage = "idle",
         NEW conf \in Config, NEW rec \in Record \cup {NoFile}, Begin(c, conf, rec),
         UNCHANGED <<config, record, user>>, damaged => damaged',
         ~damaged' => Keeps(conf, rec) /\ (rec # NoFile => Managed(conf, rec))
  PROVE  FilesInv'
<1> USE DEF IntegrationInv
<1>1. call'[c] = [stage |-> "config", config |-> conf, record |-> rec]
  BY DEF Begin, TypeOK
<1>2. \A d \in Calls : d = c
  BY DEF OneCaller
<1>3. UNCHANGED <<config, record, own, edited>>
  BY DEF user
<1>4. RestState'
  BY <1>2, <1>3 DEF RestState, Written, Keeps, Managed, LegacyTable
<1>5. CallState'
  BY <1>1, <1>2, <1>3 DEF CallState, Keeps, Managed, LegacyTable
<1> QED BY <1>4, <1>5 DEF FilesInv

(* While nothing is under way the files are in order. *)
LEMMA InOrder ==
  ASSUME IntegrationInv, OneCaller, NEW c \in Calls, call[c].stage = "idle", ~damaged
  PROVE  Keeps(config, record)
BY DEF IntegrationInv, RestState, Written, OneCaller

LEMMA EnableFiles ==
  ASSUME IntegrationInv, OneCaller, NEW c \in Calls, Enable(c)
  PROVE  FilesInv'
<1> DEFINE rec == [version |-> 2, provider |-> config.provider, url |-> config.url,
                   removesTable |-> FALSE]
<1>1. rec \in Record /\ Routed \in Config
  BY WrittenConfigs DEF TypeOK, Config, Record, IntegrationInv
<1>2. Managed(Routed, rec)
  BY DEF Managed, Routed, IntegrationInv, TypeOK, Config
<1>3. ASSUME ~damaged' PROVE Keeps(Routed, rec)
  <2>1. config = own
    BY <1>3, InOrder, NoFileAssumption DEF Enable, Status, Keeps
  <2>2. rec # NoFile /\ rec.version = 2 /\ ~rec.removesTable
        /\ rec.provider = own.provider /\ rec.url = own.url
    BY <1>1, <2>1
  <2>3. Routed.table = own.table
    BY <2>1 DEF Routed, IntegrationInv, TypeOK, Config
  <2> HIDE DEF rec
  <2> QED BY <2>2, <2>3 DEF Keeps, LegacyTable
<1>4. /\ Begin(c, Routed, rec) /\ UNCHANGED <<config, record, user>>
      /\ call[c].stage = "idle" /\ (damaged => damaged')
  BY DEF Enable
<1> HIDE DEF rec
<1> QED BY <1>1, <1>2, <1>3, <1>4, BeginFiles

LEMMA MigrateFiles ==
  ASSUME IntegrationInv, OneCaller, NEW c \in Calls, Migrate(c)
  PROVE  FilesInv'
<1> DEFINE rec == [version |-> 2, provider |-> record.provider, url |-> BackedUpUrl,
                   removesTable |-> TRUE]
<1>1. record \in Record /\ record # NoFile /\ record.version = 1 /\ call[c].stage = "idle"
  BY DEF Migrate, Status, TypeOK, IntegrationInv
<1>2. rec \in Record /\ Routed \in Config
  BY <1>1, WrittenConfigs DEF TypeOK, Config, Record, BackedUpUrl, Url, IntegrationInv
<1>3. Managed(Routed, rec)
  BY DEF Managed, Routed, IntegrationInv, TypeOK, Config
<1>4. ASSUME ~damaged' PROVE Keeps(Routed, rec)
  <2>1. ~damaged /\ BackedUpUrl = own.url
    BY <1>4 DEF Migrate
  <2>2. record.provider = own.provider /\ own.table = "none"
    BY <1>1, <2>1, InOrder DEF Keeps, LegacyTable
  <2>3. rec # NoFile /\ rec.version = 2 /\ rec.removesTable
        /\ rec.provider = own.provider /\ rec.url = own.url
    BY <1>2, <2>1, <2>2
  <2> HIDE DEF rec
  <2> QED BY <2>2, <2>3 DEF Keeps, LegacyTable
<1>5. /\ Begin(c, Routed, rec) /\ UNCHANGED <<config, record, user>>
      /\ damaged => damaged'
  BY DEF Migrate
<1> HIDE DEF rec
<1> QED BY <1>1, <1>2, <1>3, <1>4, <1>5, BeginFiles

LEMMA DisableFiles ==
  ASSUME IntegrationInv, OneCaller, NEW c \in Calls, Disable(c)
  PROVE  FilesInv'
<1>1. record \in Record /\ record # NoFile /\ call[c].stage = "idle"
  BY DEF Disable, Status, TypeOK, IntegrationInv
<1>2. Restored \in Config
  BY <1>1, WrittenConfigs DEF IntegrationInv
<1>3. ASSUME ~damaged' PROVE Keeps(Restored, NoFile)
  <2>1. Keeps(config, record)
    BY <1>1, <1>3, InOrder DEF Disable
  <2>2. own \in UserConfig /\ config \in Config /\ record.version \in {1, 2}
    BY <1>1 DEF IntegrationInv, TypeOK, Record
  <2>3. /\ Restored.provider = own.provider
        /\ Restored.url = own.url
        /\ Restored.table = own.table
    BY <1>1, <2>1, <2>2 DEF Restored, Keeps, LegacyTable
  <2>4. Restored = own
    BY <2>2, <2>3 DEF Restored, UserConfig
  <2> QED BY <2>4 DEF Keeps
<1>4. /\ Begin(c, Restored, NoFile) /\ UNCHANGED <<config, record, user>>
      /\ damaged => damaged'
  BY DEF Disable
<1> QED BY <1>1, <1>2, <1>3, <1>4, BeginFiles

LEMMA WriteFiles ==
  ASSUME IntegrationInv, OneCaller, NEW c \in Calls,
         WriteConfig(c) \/ WriteRecord(c) \/ Interrupt(c)
  PROVE  FilesInv'
<1> USE DEF IntegrationInv
<1>1. \A d \in Calls : d = c
  BY DEF OneCaller
<1>2. CallState /\ RestState /\ call \in [Calls -> Call]
  BY DEF TypeOK
<1>3. CASE WriteConfig(c)
  <2>1. call'[c].stage = "record" /\ call'[c].config = call[c].config
        /\ call'[c].record = call[c].record
    BY <1>2, <1>3 DEF WriteConfig, Call
  <2>2. RestState'
    BY <1>1, <2>1 DEF RestState, Written
  <2>3. CallState'
    BY <1>1, <1>2, <1>3, <2>1 DEF CallState, WriteConfig, Keeps, Managed, LegacyTable, user
  <2> QED BY <2>2, <2>3 DEF FilesInv
<1>4. CASE WriteRecord(c)
  <2>1. call'[c] = IdleCall
    BY <1>2, <1>4 DEF WriteRecord
  <2>2. CallState'
    BY <1>1, <2>1 DEF CallState, IdleCall
  <2>3. RestState'
    BY <1>1, <1>2, <1>4 DEF RestState, CallState, WriteRecord, Keeps, Managed, LegacyTable, user
  <2> QED BY <2>2, <2>3 DEF FilesInv
<1>5. CASE Interrupt(c)
  <2>1. call'[c] = IdleCall
    BY <1>2, <1>5 DEF Interrupt
  <2>2. CallState'
    BY <1>1, <2>1 DEF CallState, IdleCall
  <2>3. RestState'
    BY <1>1, <1>2, <1>5 DEF RestState, Written, Interrupt, Keeps, Managed, LegacyTable, user
  <2> QED BY <2>2, <2>3 DEF FilesInv
<1> QED BY <1>3, <1>4, <1>5

(* An edit changes what the user wants and what the file says alike. *)
LEMMA EditFiles ==
  ASSUME IntegrationInv, UserNext
  PROVE  FilesInv'
<1> USE DEF IntegrationInv
<1>1. AtRest /\ AtRest' /\ UNCHANGED <<record, call>>
  BY UserSteps DEF EditProvider, EditUrl, EditTable, Edit, AtRest
<1>2. CallState'
  BY <1>1 DEF CallState, AtRest
<1>3. ~damaged => Keeps(config, record)
  BY <1>1 DEF RestState, Written, AtRest
<1>4. (record # NoFile /\ ~edited' => Managed(config', record))
  BY UserSteps DEF EditProvider, EditUrl, EditTable, Edit
<1>5. config \in Config /\ own \in UserConfig /\ record \in Record \cup {NoFile}
  BY DEF TypeOK
<1>6. ~damaged' => Keeps(config, record)'
  <2>1. ASSUME NEW p \in Provider, EditProvider(p), ~damaged' PROVE Keeps(config, record)'
    BY <1>3, <1>5, <2>1 DEF EditProvider, Edit, Keeps, LegacyTable, Config, UserConfig
  <2>2. ASSUME NEW u \in Url, EditUrl(u), ~damaged',
               u \notin UserUrl => record # NoFile /\ record.version = 2
        PROVE  Keeps(config, record)'
    BY <1>3, <1>5, <2>2 DEF EditUrl, Edit, Keeps, LegacyTable, Config, UserConfig, UserUrl, Record
  <2>3. ASSUME NEW t \in {"none", "ours", "theirs"}, EditTable(t), ~damaged',
               t = "ours" => record # NoFile /\ record.version = 1
        PROVE  Keeps(config, record)'
    BY <1>3, <1>5, <2>3 DEF EditTable, Edit, Keeps, LegacyTable, Config, UserConfig
  <2> QED BY <2>1, <2>2, <2>3, UserSteps
<1>7. RestState'
  BY <1>1, <1>4, <1>6 DEF RestState, Managed
<1> QED BY <1>2, <1>7 DEF FilesInv

(* A call prepares for what it finds, and nobody changes that until it has  *)
(* written.                                                                *)
LEMMA NextPlanned ==
  ASSUME IntegrationInv, OneCaller, [Next]_vars
  PROVE  Planned'
<1> USE DEF IntegrationInv
<1>1. Planned /\ call \in [Calls -> Call]
  BY DEF TypeOK
<1>2. ASSUME NEW c \in Calls, NEW conf, NEW rec, Begin(c, conf, rec),
             UNCHANGED <<config, record>>,
             /\ record # NoFile => Managed(config, record)
             /\ IF rec = NoFile THEN record # NoFile ELSE conf = Routed
      PROVE  Planned'
  <2>1. call'[c].config = conf /\ call'[c].record = rec
    BY <1>1, <1>2 DEF Begin
  <2>2. \A d \in Calls : d = c
    BY DEF OneCaller
  <2> QED BY <1>2, <2>1, <2>2 DEF Planned, Managed, Routed
<1>3. ASSUME NEW c \in Calls, Enable(c)
      PROVE  Planned'
  <2> DEFINE rec == [version |-> 2, provider |-> config.provider, url |-> config.url,
                     removesTable |-> FALSE]
  <2>0. rec \in Record
    BY DEF TypeOK, Config, Record
  <2>1. record = NoFile /\ rec # NoFile
    BY <1>3, <2>0, NoFileAssumption DEF Enable, Status
  <2>2. Begin(c, Routed, rec) /\ UNCHANGED <<config, record>>
    BY <1>3 DEF Enable
  <2> HIDE DEF rec
  <2> QED BY <1>2, <2>1, <2>2
<1>4. ASSUME NEW c \in Calls, Migrate(c)
      PROVE  Planned'
  <2> DEFINE rec == [version |-> 2, provider |-> record.provider, url |-> BackedUpUrl,
                     removesTable |-> TRUE]
  <2>1. record \in Record /\ Managed(config, record)
    BY <1>4 DEF Migrate, Status, TypeOK
  <2>2. rec \in Record
    BY <2>1 DEF TypeOK, Config, Record, BackedUpUrl, Url
  <2>3. Begin(c, Routed, rec) /\ UNCHANGED <<config, record>>
    BY <1>4 DEF Migrate
  <2> HIDE DEF rec
  <2> QED BY <1>2, <2>1, <2>2, <2>3, NoFileAssumption
<1>5. ASSUME NEW c \in Calls, Disable(c)
      PROVE  Planned'
  <2>1. record # NoFile /\ Managed(config, record)
    BY <1>5 DEF Disable, Status
  <2>2. Begin(c, Restored, NoFile) /\ UNCHANGED <<config, record>>
    BY <1>5 DEF Disable
  <2> QED BY <1>2, <2>1, <2>2
<1>6. ASSUME NEW c \in Calls, WriteConfig(c) \/ WriteRecord(c) \/ Interrupt(c)
      PROVE  Planned'
  <2>1. call'[c].stage # "config"
    BY <1>1, <1>6 DEF WriteConfig, WriteRecord, Interrupt, IdleCall, Call
  <2> QED BY <2>1 DEF Planned, OneCaller
<1>7. CASE UserNext
  BY <1>7, UserSteps DEF Planned, EditProvider, EditUrl, EditTable, Edit, AtRest
<1>8. CASE UNCHANGED vars
  BY <1>1, <1>8 DEF vars, Planned, Managed, Routed
<1> QED BY <1>3, <1>4, <1>5, <1>6, <1>7, <1>8 DEF Next, CallNext

LEMMA NextInv == OneCaller /\ IntegrationInv /\ [Next]_vars => IntegrationInv'
<1> SUFFICES ASSUME OneCaller, IntegrationInv, [Next]_vars PROVE IntegrationInv'
  OBVIOUS
<1>1. BackupInv' /\ Planned'
  BY NextBackup, NextPlanned DEF IntegrationInv, BackupInv
<1>2. CASE \E c \in Calls : CallNext(c)
  BY <1>2, EnableFiles, MigrateFiles, DisableFiles, WriteFiles, <1>1
  DEF CallNext, IntegrationInv, BackupInv, FilesInv
<1>3. CASE UserNext
  BY <1>3, EditFiles, <1>1 DEF IntegrationInv, BackupInv, FilesInv
<1>4. CASE UNCHANGED vars
  <2>1. RestState'
    BY <1>4 DEF vars, user, IntegrationInv, RestState, Written, Keeps, Managed, LegacyTable
  <2>2. CallState'
    BY <1>4 DEF vars, user, IntegrationInv, CallState, Keeps, Managed, LegacyTable
  <2> QED BY <1>1, <2>1, <2>2 DEF IntegrationInv, BackupInv
<1> QED BY <1>2, <1>3, <1>4 DEF Next

(* One caller at a time: the three files stay in order through every call, *)
(* edit and interruption before the first write (integration.rs:103-256).  *)
THEOREM IntegrationInvariant == OneCaller => (Spec => []IntegrationInv)
<1>1. Init => IntegrationInv
  BY InitBackup, InitFiles
  DEF IntegrationInv, BackupInv, FilesInv, Planned, Init, IdleCall
<1> SUFFICES ASSUME OneCaller PROVE Spec => []IntegrationInv
  OBVIOUS
<1>2. IntegrationInv /\ [Next]_vars => IntegrationInv'
  BY NextInv
<1> QED BY <1>1, <1>2, PTL DEF Spec

(* One caller at a time: while the integration is off, config.toml is what *)
(* the user had (integration.rs:172-216).                                  *)
THEOREM OneCallerRestores == OneCaller => (Spec => []DisableRestores)
<1> SUFFICES ASSUME OneCaller PROVE Spec => []DisableRestores
  OBVIOUS
<1>1. IntegrationInv => DisableRestores
  BY DEF IntegrationInv, DisableRestores, RestState, Written, AtRest, Keeps
<1> QED BY <1>1, IntegrationInvariant, PTL

(* One caller at a time: only an edit of the user makes enable and disable *)
(* refuse (integration.rs:109-121, 183-187).                               *)
THEOREM OneCallerDrifts == OneCaller => (Spec => []NoSpuriousDrift)
<1> SUFFICES ASSUME OneCaller PROVE Spec => []NoSpuriousDrift
  OBVIOUS
<1>1. IntegrationInv => NoSpuriousDrift
  BY DEF IntegrationInv, NoSpuriousDrift, RestState, Written, AtRest, Status
<1> QED BY <1>1, IntegrationInvariant, PTL

-----------------------------------------------------------------------------
(* The refinement of ReversibleSwitch.  A call under way has not thrown    *)
(* the switch yet, or has.                                                 *)
LEMMA OnWithOneCaller ==
  ASSUME OneCaller, NEW c \in Calls
  PROVE  On <=> IF call[c].stage = "record" THEN call[c].record # NoFile
                                            ELSE record # NoFile
BY DEF On, Written, OneCaller

(* A file that is managed routes to the proxy, and so does what is written. *)
LEMMA ManagedRoutes ==
  ASSUME NEW conf, NEW rec, Managed(conf, rec)
  PROVE  Switch!Routes(conf)
BY DEF Managed, Switch!Routes

(* The write of config.toml throws the switch. *)
LEMMA WriteThrows ==
  ASSUME IntegrationInv, OneCaller, NEW c \in Calls, WriteConfig(c), ~damaged
  PROVE  Switch!SwitchOn \/ Switch!Upgrade \/ Switch!SwitchOff
<1> DEFINE conf == call[c].config
           rec == call[c].record
<1>1. /\ call[c].stage = "config" /\ config' = conf
      /\ UNCHANGED <<record, own, damaged>>
      /\ call'[c].stage = "record" /\ call'[c].record = rec
  BY DEF WriteConfig, IntegrationInv, TypeOK, Call, user
<1>2. (On <=> record # NoFile) /\ (On' <=> rec # NoFile)
  BY <1>1, OnWithOneCaller DEF On, Written, OneCaller
<1>3. /\ record # NoFile => Managed(config, record)
      /\ IF rec = NoFile THEN record # NoFile ELSE conf = Routed
  BY <1>1 DEF IntegrationInv, Planned
<1> On \in BOOLEAN /\ On' \in BOOLEAN
  BY DEF On
<1> HIDE DEF conf, rec
<1>4. CASE rec = NoFile
  <2>1. conf = own
    BY <1>1, <1>4 DEF IntegrationInv, CallState, Keeps, conf, rec
  <2> QED BY <1>1, <1>2, <1>3, <1>4, <2>1, ManagedRoutes DEF Switch!SwitchOff
<1>5. CASE rec # NoFile /\ record # NoFile
  BY <1>1, <1>2, <1>3, <1>5, ManagedRoutes DEF Switch!Upgrade, Switch!Routed, Routed
<1>6. CASE rec # NoFile /\ record = NoFile
  <2>1. config = own
    BY <1>1, <1>6, OneCaller DEF IntegrationInv, RestState, Written, Keeps, OneCaller
  <2> QED BY <1>1, <1>2, <1>3, <1>6, <2>1 DEF Switch!SwitchOn, Switch!Routed, Routed
<1> QED BY <1>4, <1>5, <1>6

(* Every other step of a call leaves the switch alone, or spoils it. *)
LEMMA CallsThrow ==
  ASSUME IntegrationInv, OneCaller, NEW c \in Calls, CallNext(c)
  PROVE  [Switch!Next]_<<config, own, On, damaged>>
<1> USE DEF IntegrationInv
<1>1. call \in [Calls -> Call]
  BY DEF TypeOK
<1>2. CASE damaged'
  BY <1>2 DEF Switch!Next, Switch!Spoil
<1>3. CASE ~damaged' /\ WriteConfig(c)
  <2>1. ~damaged /\ UNCHANGED damaged
    BY <1>3 DEF WriteConfig
  <2> QED BY <1>3, <2>1, WriteThrows DEF Switch!Next
<1>4. CASE ~damaged' /\ ~WriteConfig(c)
  <2>1. UNCHANGED <<config, own, damaged>>
    BY <1>4 DEF CallNext, Enable, Migrate, Disable, WriteRecord, Interrupt, user, TypeOK
  <2>2. CASE Enable(c) \/ Migrate(c) \/ Disable(c)
    <3>1. call[c].stage = "idle" /\ call'[c].stage = "config" /\ UNCHANGED record
      BY <1>1, <2>2 DEF Enable, Migrate, Disable, Begin
    <3> QED BY <2>1, <3>1 DEF On, Written, OneCaller
  <2>3. CASE WriteRecord(c)
    <3>1. /\ call[c].stage = "record" /\ call'[c].stage = "idle"
          /\ record' = call[c].record
      BY <1>1, <2>3 DEF WriteRecord, IdleCall
    <3> QED BY <2>1, <3>1 DEF On, Written, OneCaller
  <2>4. CASE Interrupt(c)
    <3>1. /\ call[c].stage # "record" /\ call'[c].stage = "idle"
          /\ UNCHANGED record
      BY <1>1, <1>4, <2>4 DEF Interrupt, IdleCall
    <3> QED BY <2>1, <3>1 DEF On, Written, OneCaller
  <2> QED BY <1>4, <2>2, <2>3, <2>4 DEF CallNext
<1> QED BY <1>2, <1>3, <1>4 DEF WriteConfig, CallNext

(* An edit of the user is an edit of the abstract file. *)
LEMMA EditsThrow ==
  ASSUME IntegrationInv, UserNext
  PROVE  [Switch!Next]_<<config, own, On, damaged>>
<1> USE DEF IntegrationInv
<1>1. /\ AtRest /\ UNCHANGED <<record, call>>
  BY UserSteps DEF EditProvider, EditUrl, EditTable, Edit
<1>2. (On <=> record # NoFile) /\ UNCHANGED On
  BY <1>1 DEF On, Written, AtRest
<1>3. /\ config \in Config /\ config' \in Config
      /\ own \in UserConfig /\ own' \in UserConfig
  BY EditTypes DEF TypeOK
<1>4. CASE damaged'
  BY <1>4 DEF Switch!Next, Switch!Spoil
<1>5. CASE ~damaged'
  <2>1. ~damaged /\ UNCHANGED damaged
    BY <1>5, UserSteps DEF EditProvider, EditUrl, EditTable, TypeOK
  <2>2. record = NoFile => config = own
    BY <1>1, <2>1 DEF RestState, Written, AtRest, Keeps
  <2>3. ASSUME NEW f \in Switch!Fields, NEW v,
               config' = [config EXCEPT ![f] = v],
               own' = own \/ own' = [own EXCEPT ![f] = v],
               record = NoFile => own' = [own EXCEPT ![f] = v]
        PROVE  Switch!Edit
    <3>1. f \in DOMAIN config
      BY <1>3, <2>3 DEF Switch!Fields, Config
    <3>2. config'[f] = v
      BY <2>3, <3>1, <1>3 DEF Config
    <3> QED BY <1>2, <1>3, <2>2, <2>3, <3>2 DEF Switch!Edit
  <2>4. ASSUME NEW p \in Provider, EditProvider(p) PROVE Switch!Edit
    BY <2>3, <2>4 DEF EditProvider, Edit, Switch!Fields
  <2>5. ASSUME NEW u \in Url, EditUrl(u), u \notin UserUrl => record # NoFile
        PROVE  Switch!Edit
    BY <2>3, <2>5 DEF EditUrl, Edit, Switch!Fields, UserUrl
  <2>6. ASSUME NEW t \in {"none", "ours", "theirs"}, EditTable(t),
               t = "ours" => record # NoFile
        PROVE  Switch!Edit
    BY <2>3, <2>6 DEF EditTable, Edit, Switch!Fields
  <2>7. Switch!Edit
    BY <2>4, <2>5, <2>6, UserSteps
  <2> QED BY <2>1, <2>7 DEF Switch!Next
<1> QED BY <1>4, <1>5

LEMMA InitSwitch == Init => Switch!Init
<1> SUFFICES ASSUME Init PROVE Switch!Init
  OBVIOUS
<1>1. On <=> record # NoFile
  BY DEF Init, On, Written, IdleCall
<1>2. CASE record = NoFile
  <2>1. config = own
    BY <1>2, InitFiles DEF Init, FilesInv, RestState, Written, IdleCall, Keeps
  <2> QED BY <1>1, <1>2, <2>1 DEF Init, Switch!Init, On
<1>3. CASE record # NoFile
  <2>1. Managed(config, record)
    BY <1>3, InitFiles DEF Init, FilesInv, RestState, Written, IdleCall
  <2> QED BY <1>1, <1>3, <2>1, ManagedRoutes DEF Init, Switch!Init, On
<1> QED BY <1>2, <1>3

(* One caller at a time: enable, disable and the migration implement the   *)
(* abstract switch.  Nothing but a call that was broken off between its    *)
(* writes, an old backup or an edited legacy table spoils it               *)
(* (integration.rs:103-258).                                               *)
THEOREM IntegrationImplementsSwitch == OneCaller => (Spec => WorksAsSwitch)
<1> SUFFICES ASSUME OneCaller PROVE Spec => WorksAsSwitch
  OBVIOUS
<1>1. IntegrationInv /\ [Next]_vars => [Switch!Next]_<<config, own, On, damaged>>
  <2>1. CASE UNCHANGED vars
    BY <2>1 DEF vars, user, On, Written
  <2> QED BY <2>1, CallsThrow, EditsThrow DEF Next
<1>2. WorksAsSwitch <=> Switch!Init /\ [][Switch!Next]_<<config, own, On, damaged>>
  BY DEF WorksAsSwitch, Switch!Spec
<1> QED BY <1>1, <1>2, InitSwitch, IntegrationInvariant, PTL DEF Spec

=============================================================================
