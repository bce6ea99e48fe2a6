------------------------------- MODULE Storage -------------------------------
(***************************************************************************)
(* Provisioning, adoption, backup and restore of an installation.  A site  *)
(* is an installation directory with the database file it names; the       *)
(* operator's tools work on it in separate durable steps, between which    *)
(* they may die, and the web process checks the database on every          *)
(* connection.  Configurations that are refused before anything is written *)
(* and disposable (ephemeral) storage are left out.                        *)
(***************************************************************************)
EXTENDS Integers, FiniteSets, Absence

CONSTANTS Sites,
          Found,        \* kinds of databases that exist before: records of the
                        \* fields "users" and "admin"
          MaxIds,       \* bound: identities and files ever created
          MaxWrites,    \* bound: writes into a database
          Bundles,      \* directories of the backup tool, complete or being written
          MaxMishaps    \* bound: losses, swaps and deletions by the operator

VARIABLES manifest,   \* installation.json of each site, or None
          db,         \* the database file of each site, or None
          key,        \* whether the site holds a generated signing key
          copies,     \* copies of files made before an adoption and by the operator
          tool,       \* the installer that holds the lock of the site, or None
          bundle,     \* what each run of the backup tool wrote, or None
          ids,        \* identities generated so far
          births,     \* database files created so far, including those found
          named,      \* pairs: an identity and the file it was written into
          mishaps

\* History.
VARIABLES acked,      \* writes acknowledged under each identity
          setUp       \* identities with an administrator set up under them, or
                      \* given to a database that had accounts

storageVars == <<manifest, db, key, copies, tool, bundle, ids, births, named, acked, mishaps, setUp>>

IntelligenceTables == {"cves", "cisa_exploits", "rss_articles", "threat_indicators", "fetch_log"}
DeliveryTables == {"webhooks", "rss_feeds"}
AccountTables == {"users", "revoked_sessions"}
KnowledgeTables == {"threat_actors", "detection_rules", "investigation_history"}
AuditTables == {"audit_logs"}
PolicyTables == {"security_policies", "api_tokens", "app_settings", "job_leases"}
BaseTables == IntelligenceTables \cup DeliveryTables \cup AccountTables
                  \cup KnowledgeTables \cup AuditTables \cup PolicyTables

\* The tables of the four migrations.
MigratedTables == {"assets", "asset_network_jobs", "cases", "rule_revisions"}

AllTables == BaseTables \cup MigratedTables \cup {"installation_metadata"}

Ids == 1..MaxIds
Ops == {"init", "adopt", "resume"}
Kinds == {"feeds", "actors", "rules"}
Filling == {"commit", "ready"} \cup Kinds
Steps == {"key", "copy", "save", "file"} \cup Filling

FileType == [id : Ids \cup {None}, tables : SUBSET AllTables, users : BOOLEAN, admin : BOOLEAN,
             marker : BOOLEAN, seeds : SUBSET Kinds, data : Nat, birth : Nat]
Manifest == [state : {"initializing", "ready"}, op : Ops, id : Ids, managed : BOOLEAN,
             tables : SUBSET AllTables]
Tool == [op : Ops, id : Ids, step : Steps, managed : BOOLEAN]
Bundle == [site : Sites \cup {None}, manifest : Manifest, withKey : BOOLEAN,
           files : SUBSET {"db", "manifest", "key", "record"}, db : FileType \cup {None}, began : Nat]

\* Databases that are found have administrators only among their accounts, and
\* None is none of the records.
ASSUME StorageAssumption ==
    /\ MaxIds \in Nat
    /\ \A kind \in Found : kind.users \in BOOLEAN /\ kind.admin \in BOOLEAN
                           /\ (kind.admin => kind.users)
    /\ None \notin FileType \cup Manifest \cup Tool \cup Bundle \cup Ids \cup Sites

\* A file just created: no tables, no identity.
EmptyFile(birth) ==
    [id |-> None, tables |-> {}, users |-> FALSE, admin |-> FALSE, marker |-> FALSE,
     seeds |-> {}, data |-> 0, birth |-> birth]

FoundFile(kind) == [EmptyFile(1) EXCEPT !.tables = BaseTables, !.users = kind.users,
                                        !.admin = kind.admin]

StorageInit ==
    /\ manifest = [d \in Sites |-> None]
    /\ \E d \in Sites, kind \in Found :
          db = [e \in Sites |-> IF e = d THEN FoundFile(kind) ELSE None]
    /\ key = [d \in Sites |-> FALSE]
    /\ copies = {} /\ named = {} /\ setUp = {}
    /\ tool = [d \in Sites |-> None] /\ bundle = [b \in Bundles |-> None]
    /\ ids = 0 /\ births = 1 /\ mishaps = 0
    /\ acked = [id \in 1..MaxIds |-> 0]

-----------------------------------------------------------------------------
(* init, adopt and resume                                                  *)

At(d, step) == tool[d] # None /\ tool[d].step = step

Goes(d, step) == tool' = [tool EXCEPT ![d].step = step]

\* The tool ends, refused or done, and its lock with it.
Ends(d) == tool' = [tool EXCEPT ![d] = None]

Begin(d, op, id, step) ==
    /\ tool[d] = None
    /\ tool' = [tool EXCEPT ![d] = [op |-> op, id |-> id, step |-> step, managed |-> FALSE]]

NewId == ids < MaxIds /\ ids' = ids + 1

\* An adoption copies the database first, an installation takes its key.
FirstStep(op) == IF op = "init" THEN "key" ELSE "copy"

BeginInit(d) ==
    /\ manifest[d] = None /\ db[d] = None
    /\ NewId
    /\ Begin(d, "init", ids + 1, FirstStep("init"))
    /\ UNCHANGED <<manifest, db, key, copies, bundle, births, named, acked, mishaps, setUp>>

\* inspect_database knows the schema of the file.
Recognised(file) == {"users", "cves", "detection_rules", "audit_logs"} \subseteq file.tables

BeginAdopt(d) ==
    /\ manifest[d] = None /\ db[d] # None /\ Recognised(db[d])
    /\ IF db[d].id = None THEN NewId /\ Begin(d, "adopt", ids + 1, FirstStep("adopt"))
       ELSE UNCHANGED ids /\ Begin(d, "adopt", db[d].id, FirstStep("adopt"))
    /\ UNCHANGED <<manifest, db, key, copies, bundle, births, named, acked, mishaps, setUp>>

\* Variant: an installation is resumed whatever became of its file.
ResumableAnyway(d) == TRUE

\* The file of an interrupted installation is there and has its identity.
Resumable(d) == db[d] # None /\ db[d].id = manifest[d].id

BeginResume(d) ==
    /\ manifest[d] # None /\ manifest[d].state = "initializing"
    /\ Resumable(d)
    /\ Begin(d, "resume", manifest[d].id, "file")
    /\ UNCHANGED <<manifest, db, key, copies, bundle, ids, births, named, acked, mishaps, setUp>>

\* A new installation takes its key from the environment or generates one,
\* which never replaces one that is there; an adoption brings its key along.
TakeKey(d, managed) ==
    /\ At(d, "key")
    /\ IF managed /\ key[d] THEN Ends(d) /\ UNCHANGED key
       ELSE /\ tool' = [tool EXCEPT ![d].step = "save", ![d].managed = managed]
            /\ key' = [key EXCEPT ![d] = @ \/ managed]
    /\ UNCHANGED <<manifest, db, copies, bundle, ids, births, named, acked, mishaps, setUp>>

CopyBeforeAdoption(d) ==
    /\ At(d, "copy")
    /\ IF db[d] = None THEN Ends(d) /\ UNCHANGED copies
       ELSE copies' = copies \cup {db[d]} /\ Goes(d, "save")
    /\ UNCHANGED <<manifest, db, key, bundle, ids, births, named, acked, mishaps, setUp>>

SaveInitializing(d) ==
    /\ At(d, "save")
    /\ manifest' = [manifest EXCEPT ![d] =
                      [state |-> "initializing", op |-> tool[d].op, id |-> tool[d].id,
                       managed |-> tool[d].managed, tables |-> {}]]
    /\ Goes(d, "file")
    /\ UNCHANGED <<db, key, copies, bundle, ids, births, named, acked, mishaps, setUp>>

CreateFile(d) ==
    /\ At(d, "file")
    /\ IF db[d] = None
       THEN /\ births' = births + 1
            /\ db' = [db EXCEPT ![d] = EmptyFile(births + 1)]
       ELSE UNCHANGED <<db, births>>
    /\ Goes(d, "commit")
    /\ UNCHANGED <<manifest, key, copies, bundle, ids, named, acked, mishaps, setUp>>

\* Variant: setup is open in every adopted database.
AddIdentityUnmarked(file, id) ==
    IF file.id = None THEN [file EXCEPT !.id = id] ELSE file

\* The administrator was set up if the file holds any account.
AddIdentity(file, id) ==
    IF file.id = None THEN [file EXCEPT !.id = id, !.marker = file.users] ELSE file

\* Variant: only the first attempt at an installation seeds it.
AfterSchemaOnce(d) == IF tool[d].op = "init" THEN "feeds" ELSE "ready"

\* An installation is seeded, also when it is resumed.
AfterSchema(d) == IF manifest[d].op = "init" THEN "feeds" ELSE "ready"

\* One transaction: tables, migrations, identity.
CommitSchema(d) ==
    /\ At(d, "commit")
    /\ IF db[d].id \in {None, manifest[d].id}
       THEN /\ db' = [db EXCEPT ![d] = [AddIdentity(@, manifest[d].id) EXCEPT !.tables = AllTables]]
            /\ named' = named \cup {<<manifest[d].id, db[d].birth>>}
            /\ setUp' = IF db[d].users THEN setUp \cup {manifest[d].id} ELSE setUp
            /\ Goes(d, AfterSchema(d))
       ELSE Ends(d) /\ UNCHANGED <<db, named, setUp>>
    /\ UNCHANGED <<manifest, key, copies, bundle, ids, births, acked, mishaps>>

\* Default records of one kind; those that are there stay.
Seed(d, kind, next) ==
    /\ At(d, kind)
    /\ db' = [db EXCEPT ![d].seeds = @ \cup {kind}]
    /\ Goes(d, next)
    /\ UNCHANGED <<manifest, key, copies, bundle, ids, births, named, acked, mishaps, setUp>>

SeedFeeds(d) == Seed(d, "feeds", "actors")
SeedActors(d) == Seed(d, "actors", "rules")
SeedRules(d) == Seed(d, "rules", "ready")

SaveReady(d) ==
    /\ At(d, "ready")
    /\ manifest' = [manifest EXCEPT ![d].state = "ready", ![d].tables = db[d].tables]
    /\ Ends(d)
    /\ UNCHANGED <<db, key, copies, bundle, ids, births, named, acked, mishaps, setUp>>

Crash(d) ==
    /\ tool[d] # None
    /\ Ends(d)
    /\ UNCHANGED <<manifest, db, key, copies, bundle, ids, births, named, acked, mishaps, setUp>>

Install(d) ==
    \/ BeginInit(d) \/ BeginAdopt(d) \/ BeginResume(d)
    \/ \E managed \in BOOLEAN : TakeKey(d, managed)
    \/ CopyBeforeAdoption(d) \/ SaveInitializing(d) \/ CreateFile(d) \/ CommitSchema(d)
    \/ SeedFeeds(d) \/ SeedActors(d) \/ SeedRules(d)
    \/ SaveReady(d) \/ Crash(d)

-----------------------------------------------------------------------------
(* The web process                                                         *)

\* validate_connection: the site is ready, and a file has its identity.
Accepts(d, file) ==
    /\ manifest[d] # None /\ manifest[d].state = "ready"
    /\ file # None /\ file.id = manifest[d].id
    /\ manifest[d].tables \subseteq file.tables

Usable(d) == Accepts(d, db[d])

RecoveryRequired(file) == ~file.admin /\ file.marker
AdminRequired(file) == ~file.admin /\ ~file.marker

SetUp(d) ==
    /\ Usable(d) /\ AdminRequired(db[d])
    /\ db' = [db EXCEPT ![d].users = TRUE, ![d].admin = TRUE, ![d].marker = TRUE]
    /\ setUp' = setUp \cup {manifest[d].id}
    /\ UNCHANGED <<manifest, key, copies, tool, bundle, ids, births, named, acked, mishaps>>

Write(d) ==
    /\ Usable(d) /\ db[d].admin
    /\ acked[manifest[d].id] < MaxWrites
    /\ db' = [db EXCEPT ![d].data = @ + 1]
    /\ acked' = [acked EXCEPT ![manifest[d].id] = @ + 1]
    /\ UNCHANGED <<manifest, key, copies, tool, bundle, ids, births, named, mishaps, setUp>>

-----------------------------------------------------------------------------
(* The backup tool, which takes no lock: each run has a directory of its   *)
(* own, those of earlier runs are never touched, and runs may overlap      *)

Data(file) == IF file = None THEN 0 ELSE file.data

Written(b, file) == bundle' = [bundle EXCEPT ![b].files = @ \cup {file}]

\* What is left has no completion record, and nobody uses it.
Abandoned(b) == bundle' = [bundle EXCEPT ![b] = None]

Writing(b, file, before) ==
    /\ bundle[b] # None /\ bundle[b].site # None
    /\ file \notin bundle[b].files /\ before \subseteq bundle[b].files

\* The field "began" is history: what the file held that is there to be copied.
BeginBackup(b, d, withKey) ==
    /\ bundle[b] = None
    /\ manifest[d] # None /\ manifest[d].state = "ready"
    /\ withKey => manifest[d].managed
    /\ bundle' = [bundle EXCEPT ![b] =
                     [site |-> d, manifest |-> manifest[d], withKey |-> withKey, files |-> {},
                      db |-> None, began |-> Data(db[d])]]
    /\ UNCHANGED <<manifest, db, key, copies, tool, ids, births, named, acked, mishaps, setUp>>

BackUpDatabase(b) ==
    /\ Writing(b, "db", {})
    /\ IF db[bundle[b].site] = None THEN Abandoned(b)
       ELSE bundle' = [bundle EXCEPT ![b].files = {"db"}, ![b].db = db[bundle[b].site]]
    /\ UNCHANGED <<manifest, db, key, copies, tool, ids, births, named, acked, mishaps, setUp>>

\* Variant: the copy is not compared with the manifest.
Unverified(b) == TRUE

Verified(b) ==
    /\ bundle[b].db.id = bundle[b].manifest.id
    /\ bundle[b].manifest.tables \subseteq bundle[b].db.tables
    /\ ~RecoveryRequired(bundle[b].db)

BackUpManifest(b) ==
    /\ Writing(b, "manifest", {"db"})
    /\ IF Verified(b) THEN Written(b, "manifest") ELSE Abandoned(b)
    /\ UNCHANGED <<manifest, db, key, copies, tool, ids, births, named, acked, mishaps, setUp>>

BackUpKey(b) ==
    /\ Writing(b, "key", {"manifest"})
    /\ bundle[b].withKey
    /\ Written(b, "key")
    /\ UNCHANGED <<manifest, db, key, copies, tool, ids, births, named, acked, mishaps, setUp>>

\* backup.json comes last.
RecordBackup(b) ==
    /\ Writing(b, "record", {"manifest"})
    /\ bundle[b].withKey => "key" \in bundle[b].files
    /\ bundle' = [bundle EXCEPT ![b].files = @ \cup {"record"}, ![b].site = None]
    /\ UNCHANGED <<manifest, db, key, copies, tool, ids, births, named, acked, mishaps, setUp>>

BackupDies(b) ==
    /\ bundle[b] # None /\ bundle[b].site # None
    /\ Abandoned(b)
    /\ UNCHANGED <<manifest, db, key, copies, tool, ids, births, named, acked, mishaps, setUp>>

BackUp(b) ==
    \/ \E d \in Sites, withKey \in BOOLEAN : BeginBackup(b, d, withKey)
    \/ BackUpDatabase(b) \/ BackUpManifest(b) \/ BackUpKey(b) \/ RecordBackup(b) \/ BackupDies(b)

Complete(b) == bundle[b] # None /\ "record" \in bundle[b].files

-----------------------------------------------------------------------------
(* The operator                                                            *)

\* A file, or none, takes the place of the one of a site while no installer
\* runs; a backup that has not copied the database yet will find that one.
Replace(d, file) ==
    /\ tool[d] = None
    /\ db' = [db EXCEPT ![d] = file]
    /\ bundle' = [b \in Bundles |->
                     IF bundle[b] # None /\ bundle[b].site = d /\ bundle[b].files = {}
                     THEN [bundle[b] EXCEPT !.began = Data(file)] ELSE bundle[b]]

\* The database of any complete bundle is copied to where there is none.
Restore(d, b) ==
    /\ Complete(b) /\ db[d] = None
    /\ Replace(d, bundle[b].db)
    /\ UNCHANGED <<manifest, key, copies, tool, ids, births, named, acked, mishaps, setUp>>

\* A file is lost, replaced by a copy of the one of another site, or deprived of
\* its administrators, which may leave no account at all.
Mishandle(d, file) ==
    /\ db[d] # None
    /\ mishaps < MaxMishaps /\ mishaps' = mishaps + 1
    /\ Replace(d, file)
    /\ UNCHANGED <<manifest, key, tool, ids, births, named, acked, setUp>>

Lose(d) == Mishandle(d, None) /\ UNCHANGED copies

Swap(d, e) ==
    /\ db[e] # None /\ db[d] # None /\ db[e].birth # db[d].birth
    /\ copies' = copies \cup {db[e]}
    /\ Mishandle(d, db[e])

DeleteAdmins(d, others) ==
    /\ db[d] # None /\ db[d].users
    /\ Mishandle(d, [db[d] EXCEPT !.admin = FALSE, !.users = others])
    /\ UNCHANGED copies

StorageNext ==
    \/ \E d \in Sites : \/ Install(d) \/ SetUp(d) \/ Write(d) \/ Lose(d)
                        \/ \E b \in Bundles : Restore(d, b)
                        \/ \E others \in BOOLEAN : DeleteAdmins(d, others)
                        \/ \E e \in Sites : Swap(d, e)
    \/ \E b \in Bundles : BackUp(b)

StorageSpec == StorageInit /\ [][StorageNext]_storageVars

-----------------------------------------------------------------------------
\* Files set aside, which the operator may put back.
Copies == copies \cup {bundle[b].db : b \in {c \in Bundles : Complete(c)}}

\* Every database file there is.
DatabaseFiles == ({db[d] : d \in Sites} \cup Copies) \ {None}

\* An interrupted installation is never taken for a finished one: a site that is
\* ready and has its own file has every table, and the default records if it was
\* created empty, wherever init, adopt and resume died before
\* (configure_storage.py:124-131,151-163, database.py:540-559).
ReadyIsComplete ==
    \A d \in Sites : Usable(d) =>
        /\ db[d].tables = AllTables
        /\ manifest[d].op = "init" => db[d].seeds = {"feeds", "actors", "rules"}

\* An identity tells a database: it was written into one file only, so that a
\* lost file is never replaced by an empty one (configure_storage.py:153), and
\* the writes made under it are in files that carry it, whatever the operator
\* puts into its place (local.py:156-177).
IdentityTells ==
    /\ \A p, q \in named : p[1] = q[1] => p[2] = q[2]
    /\ \A file \in DatabaseFiles : file.data > 0 => file.id # None /\ file.data <= acked[file.id]

\* Public setup is not reopened: an installation that was set up, or adopted with
\* accounts, asks for a first administrator again only if a copy of its database
\* from before that time still asks, a bundle or one the operator made
\* (local.py:185-203, docs/storage-resilience.md:127-128).  An adopted database
\* without any account counts as new, whoever had one in it before.
SetupClosed ==
    \A d \in Sites : db[d] # None /\ db[d].id \in setUp /\ AdminRequired(db[d]) =>
        \E copy \in Copies : copy.id = db[d].id /\ AdminRequired(copy)

\* A bundle with its completion record can be restored: it has the manifest, the
\* key if asked for, and a database that every site of that identity accepts and
\* that does not ask for recovery; and although nothing was locked, all that the
\* file held when the backup began, or when the operator last put another one
\* in its place before it was copied (backup_installation.py:35-55).
BundleRestorable ==
    \A b \in Bundles : Complete(b) =>
        /\ "manifest" \in bundle[b].files
        /\ bundle[b].withKey => "key" \in bundle[b].files
        /\ bundle[b].db.id = bundle[b].manifest.id /\ ~RecoveryRequired(bundle[b].db)
        /\ \A d \in Sites : /\ manifest[d] # None /\ manifest[d].state = "ready"
                             /\ manifest[d].id = bundle[b].manifest.id
                             => Accepts(d, bundle[b].db)
        /\ bundle[b].db.data >= bundle[b].began

=============================================================================
