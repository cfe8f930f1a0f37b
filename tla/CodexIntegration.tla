-------------------------- MODULE CodexIntegration --------------------------
(***************************************************************************)
(* The reversible integration with Codex (integration.rs): enable, disable *)
(* and the migration of a version 1 record, over three files in the Codex  *)
(* home: config.toml, its backup, and the record of what was replaced.     *)
(*                                                                         *)
(* A call reads what it needs and then writes one file after the other; a  *)
(* write may fail and the process may die between two of them.  Calls come *)
(* from handlers of the control API, from the terminal UI and from the     *)
(* start of every program, without a lock.                                 *)
(*                                                                         *)
(* Of config.toml the managed values count: model_provider,                *)
(* openai_base_url and the table model_providers.codex-switcher.           *)
(***************************************************************************)

CONSTANTS
  Calls,       \* slots for concurrent calls
  Providers,   \* providers a user may have chosen, "openai" among them or not
  Urls,        \* base URLs a user may have chosen
  FromV1,      \* version 1 of the program may have enabled the integration
  NoFile

ASSUME FromV1Assumption == FromV1 \in BOOLEAN
ASSUME ValuesAssumption ==
  /\ "absent" \notin Providers \cup Urls /\ "invalid" \notin Providers \cup Urls
  /\ "codex-switcher" \notin Providers /\ "proxy" \notin Urls

VARIABLES
  config,      \* config.toml
  backup,      \* config.toml.codex-switcher.bak
  record,      \* .codex-switcher-integration.json
  call,        \* the calls
  own,         \* history: the values the user has chosen
  edited,      \* history: the user has changed a managed value
  damaged      \* history: one of the mishaps below has happened

vars == <<config, backup, record, call, own, edited, damaged>>
user == <<own, edited>>

-----------------------------------------------------------------------------
(* A value that is not a string is "invalid". *)
Provider == Providers \cup {"absent", "invalid", "openai", "codex-switcher"}
Url == Urls \cup {"absent", "invalid", "proxy"}

Config == [provider : Provider, url : Url, table : {"none", "ours", "theirs"}]

(* What a user writes. *)
UserProvider == Provider \ {"codex-switcher"}
UserUrl == Url \ {"proxy"}
UserConfig == [provider : UserProvider, url : UserUrl, table : {"none", "theirs"}]

Record == [version : {1, 2}, provider : Provider, url : Url, removesTable : BOOLEAN]

ASSUME NoFileAssumption == NoFile \notin Config \cup Record

(* What a call is about to write: config.toml, and the record or NoFile.   *)
Call == [stage : {"idle", "config", "record"}, config : Config, record : Record \cup {NoFile}]

TypeOK ==
  /\ config \in Config
  /\ backup \in Config \cup {NoFile}
  /\ record \in Record \cup {NoFile}
  /\ call \in [Calls -> Call]
  /\ own \in UserConfig
  /\ edited \in BOOLEAN
  /\ damaged \in BOOLEAN

IdleCall == [stage |-> "idle", record |-> NoFile,
             config |-> [provider |-> "absent", url |-> "absent", table |-> "none"]]

(* The integration has never been enabled, or version 1 has enabled it; it *)
(* kept a backup too, which may be older than what it replaced.            *)
Init ==
  /\ own \in UserConfig
  /\ \/ config = own /\ backup = NoFile /\ record = NoFile
     \/ /\ FromV1
        /\ own.provider # "invalid" /\ own.table = "none"
        /\ config = [own EXCEPT !.provider = "codex-switcher", !.table = "ours"]
        /\ record = [version |-> 1, provider |-> own.provider, url |-> "absent",
                     removesTable |-> FALSE]
        /\ backup \in UserConfig
  /\ call = [c \in Calls |-> IdleCall]
  /\ edited = FALSE
  /\ damaged = FALSE

-----------------------------------------------------------------------------
(* managed_drift and legacy_managed_drift find no drift. *)
Managed(conf, rec) ==
  IF rec.version = 1
    THEN conf.provider = "codex-switcher" /\ conf.table = "ours"
    ELSE conf.provider = "openai" /\ conf.url = "proxy"

(* The record answers for the table of version 1 too. *)
LegacyTable(rec) == rec.version = 1 \/ rec.removesTable

Status ==
  IF record = NoFile THEN "disabled"
  ELSE IF Managed(config, record) THEN "enabled" ELSE "drifted"

Routed == [config EXCEPT !.provider = "openai", !.url = "proxy"]

Begin(c, conf, rec) ==
  call' = [call EXCEPT ![c] = [stage |-> "config", config |-> conf, record |-> rec]]

(* Mutant of Enable: every enable takes a backup. *)
EnableBacksUpAgain(c) ==
  /\ call[c].stage = "idle"
  /\ Status = "disabled"
  /\ config.provider # "invalid" /\ config.url # "invalid"
  /\ backup' = config
  /\ Begin(c, Routed, [version |-> 2, provider |-> config.provider, url |-> config.url,
                       removesTable |-> FALSE])
  /\ UNCHANGED <<config, record, user, damaged>>

(* enable() without a record: the first backup is kept for good.  With one *)
(* it does nothing, refuses, or migrates.                                  *)
Enable(c) ==
  /\ call[c].stage = "idle"
  /\ Status = "disabled"
  /\ config.provider # "invalid" /\ config.url # "invalid"
  /\ backup' = IF backup = NoFile THEN config ELSE backup
  /\ Begin(c, Routed, [version |-> 2, provider |-> config.provider, url |-> config.url,
                       removesTable |-> FALSE])
  /\ UNCHANGED <<config, record, user, damaged>>

BackedUpUrl == IF backup = NoFile THEN "absent" ELSE backup.url

(* Mutant of Migrate: the version of the record is not raised. *)
MigrateKeepsVersion(c) ==
  /\ call[c].stage = "idle"
  /\ Status = "enabled" /\ record.version = 1
  /\ BackedUpUrl # "invalid"
  /\ Begin(c, Routed, [record EXCEPT !.url = BackedUpUrl, !.removesTable = TRUE])
  /\ damaged' = (damaged \/ BackedUpUrl # own.url)
  /\ UNCHANGED <<config, backup, record, user>>

(* migrate_legacy_record, at the start of a program or by enable(): the    *)
(* original URL is the one of the backup, which may be an old one.         *)
Migrate(c) ==
  /\ call[c].stage = "idle"
  /\ Status = "enabled" /\ record.version = 1
  /\ BackedUpUrl # "invalid"
  /\ Begin(c, Routed, [version |-> 2, provider |-> record.provider, url |-> BackedUpUrl,
                       removesTable |-> TRUE])
  /\ damaged' = (damaged \/ BackedUpUrl # own.url)
  /\ UNCHANGED <<config, backup, record, user>>

(* Mutant of Restored: the base URL of the user is forgotten. *)
RestoredWithoutUrl ==
  [provider |-> record.provider,
   url |-> IF record.version = 1 THEN config.url ELSE "absent",
   table |-> IF LegacyTable(record) THEN "none" ELSE config.table]

(* What disable() puts back. *)
Restored ==
  [provider |-> record.provider,
   url |-> IF record.version = 1 THEN config.url ELSE record.url,
   table |-> IF LegacyTable(record) THEN "none" ELSE config.table]

(* Mutant of Disable: the drift is not looked at. *)
DisableOverEdits(c) ==
  /\ call[c].stage = "idle"
  /\ record # NoFile
  /\ Begin(c, Restored, NoFile)
  /\ UNCHANGED <<config, record, backup, user, damaged>>

(* disable(): unless there is a drift. *)
Disable(c) ==
  /\ call[c].stage = "idle"
  /\ Status = "enabled"
  /\ Begin(c, Restored, NoFile)
  /\ UNCHANGED <<config, backup, record, user, damaged>>

WriteConfig(c) ==
  /\ call[c].stage = "config"
  /\ config' = call[c].config
  /\ call' = [call EXCEPT ![c].stage = "record"]
  /\ UNCHANGED <<backup, record, user, damaged>>

(* The record is written or removed. *)
WriteRecord(c) ==
  /\ call[c].stage = "record"
  /\ record' = call[c].record
  /\ call' = [call EXCEPT ![c] = IdleCall]
  /\ UNCHANGED <<config, backup, user, damaged>>

(* A write fails, or the process dies: harmful between the two writes. *)
Interrupt(c) ==
  /\ call[c].stage # "idle"
  /\ damaged' = (damaged \/ call[c].stage = "record")
  /\ call' = [call EXCEPT ![c] = IdleCall]
  /\ UNCHANGED <<config, backup, record, user>>

-----------------------------------------------------------------------------
AtRest == \A c \in Calls : call[c].stage = "idle"

(* The user edits config.toml while nobody else does: a value of which the *)
(* integration keeps the original becomes an edited one.                   *)
Edit(conf, mine) ==
  /\ AtRest
  /\ config' = conf
  /\ own' = mine
  /\ edited' = (record # NoFile /\ ~Managed(conf, record))
  /\ UNCHANGED <<backup, record, call>>

EditProvider(p) ==
  /\ Edit([config EXCEPT !.provider = p],
          IF record = NoFile THEN [own EXCEPT !.provider = p] ELSE own)
  /\ UNCHANGED damaged

(* Version 1 does not manage the base URL. *)
EditUrl(u) ==
  /\ Edit([config EXCEPT !.url = u],
          IF u # "proxy" /\ (record = NoFile \/ record.version = 1)
            THEN [own EXCEPT !.url = u] ELSE own)
  /\ UNCHANGED damaged

(* A migrated record removes the table without looking whose it is by now. *)
EditTable(t) ==
  /\ Edit([config EXCEPT !.table = t],
          IF t # "ours" THEN [own EXCEPT !.table = t] ELSE own)
  /\ damaged' = (damaged \/ (record # NoFile /\ LegacyTable(record)))

(* A user also puts back what the program had written. *)
EditManaged ==
  /\ record # NoFile
  /\ \/ EditProvider(IF record.version = 1 THEN "codex-switcher" ELSE "openai")
     \/ record.version = 2 /\ EditUrl("proxy")
     \/ record.version = 1 /\ EditTable("ours")

UserNext ==
  \/ \E p \in UserProvider : EditProvider(p)
  \/ \E u \in UserUrl : EditUrl(u)
  \/ \E t \in {"none", "theirs"} : EditTable(t)
  \/ EditManaged

CallNext(c) ==
  \/ Enable(c) \/ Migrate(c) \/ Disable(c)
  \/ WriteConfig(c) \/ WriteRecord(c) \/ Interrupt(c)

Next == (\E c \in Calls : CallNext(c)) \/ UserNext

Spec == Init /\ [][Next]_vars

-----------------------------------------------------------------------------
(* While the integration is off, config.toml is what the user has written: *)
(* the provider, the base URL and the table are back.  Excepted are a call *)
(* interrupted between its two writes and what an old backup is taken for. *)
DisableRestores == AtRest /\ record = NoFile /\ ~damaged => config = own

(* The drift that disable() and enable() refuse to touch is the user's,    *)
(* never what the program has left behind.                                 *)
NoSpuriousDrift == AtRest /\ ~damaged /\ Status = "drifted" => edited

(* The backup is a file the user has written, even if a call has been      *)
(* interrupted and is repeated.                                            *)
BackupIsTheUsers == backup # NoFile => backup \in UserConfig

(* The inductive invariant of one caller: the record holds what the user   *)
(* had and config.toml the rest, now or as soon as a call has written both. *)
Keeps(conf, rec) ==
  IF rec = NoFile THEN conf = own
  ELSE /\ rec.provider = own.provider
       /\ rec.version = 1 => conf.url = own.url
       /\ rec.version = 2 => rec.url = own.url
       /\ IF LegacyTable(rec) THEN own.table = "none" ELSE conf.table = own.table

Written == \A c \in Calls : call[c].stage # "record"

RestState ==
  Written /\ ~damaged =>
    /\ Keeps(config, record)
    /\ record # NoFile /\ ~edited => Managed(config, record)

CallState ==
  \A c \in Calls : call[c].stage # "idle" /\ ~damaged =>
    /\ Keeps(call[c].config, call[c].record)
    /\ call[c].record # NoFile => Managed(call[c].config, call[c].record)
    /\ call[c].stage = "record" => config = call[c].config

(* What a call is about to write fits what it has found. *)
Planned ==
  \A c \in Calls : call[c].stage = "config" =>
    /\ record # NoFile => Managed(config, record)
    /\ IF call[c].record = NoFile THEN record # NoFile ELSE call[c].config = Routed

FirstBackup == backup = NoFile => AtRest /\ record = NoFile /\ config \in UserConfig

IntegrationInv ==
  TypeOK /\ BackupIsTheUsers /\ FirstBackup /\ RestState /\ CallState /\ Planned

(* What the module promises: the integration is reversible.  A disable     *)
(* that has removed the record has put back what the user had.             *)
Reversible ==
  [][\A c \in Calls : WriteRecord(c) /\ record' = NoFile => config = own]_vars

(* The switch is thrown when config.toml is written; the record follows.   *)
On ==
  IF Written THEN record # NoFile
  ELSE \E c \in Calls : call[c].stage = "record" /\ call[c].record # NoFile

(* As long as nothing is damaged the three files behave as one switch: the *)
(* steps of every call and edit are the steps of ReversibleSwitch.         *)
Switch == INSTANCE ReversibleSwitch WITH
  file <- config, on <- On, spoiled <- damaged, Mine <- UserConfig

WorksAsSwitch == Switch!Spec
=============================================================================
