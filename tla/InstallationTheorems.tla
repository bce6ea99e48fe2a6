------------------------ MODULE InstallationTheorems ------------------------
(***************************************************************************)
(* The storage of an installation and its webhooks, for any number of      *)
(* sites, mishaps, found databases, webhooks and edits.                    *)
(*                                                                         *)
(* Storage: the identity in a manifest tells the databases of two          *)
(* installations apart, however many mishaps there are (TellInv). A bundle *)
(* restores what it was taken from, whatever is lost, exchanged or put     *)
(* back meanwhile (BundleInv). While at most one mishap happens, or any    *)
(* number of them but exchanges of files between sites, a site that is     *)
(* ready has all its tables and seeds (MishapInv: the file of an           *)
(* unfinished installation is at its own site only, or no finished         *)
(* installation lacks a file that could be restored).                      *)
(*                                                                         *)
(* Setup: public setup stays closed, since a file that has accounts gets   *)
(* the marker together with its identity, and keeps it. It opens by a copy *)
(* from before setup only, and every file of an installation that is       *)
(* elsewhere or comes back was such a copy (OpenInv).                      *)
(*                                                                         *)
(* Webhooks: a row only ever has a URL that was entered for it. The        *)
(* update under way carries such a URL, or the mask for a row that is      *)
(* gone, and since no identifier is used twice that row stays gone         *)
(* (GivenInv). An alert is tried on every channel that asks for it         *)
(* (TriedInv).                                                             *)
(***************************************************************************)
EXTENDS Storage, Webhooks, FiniteSetTheorems, WellFoundedInduction, TLAPS

\* What the accounts and the marker of a finished setup tell of each other.
Closed(file) == (file.admin => file.users) /\ (file.id # None /\ file.users => file.marker)

File == {file \in FileType : Closed(file)}
Begun == {run \in Bundle : run.db \in File \cup {None}}

SiteTypes ==
    /\ manifest \in [Sites -> Manifest \cup {None}]
    /\ db \in [Sites -> File \cup {None}]
    /\ tool \in [Sites -> Tool \cup {None}]
    /\ copies \subseteq File
    /\ bundle \in [Bundles -> Begun \cup {None}]
    /\ ids \in 0..MaxIds /\ births \in Nat

\* The tool has what its step works on: nobody touches the site meanwhile.
ToolReady ==
    \A d \in Sites : tool[d] # None =>
        /\ tool[d].step \in Filling \cup {"file"} => manifest[d] # None
        /\ tool[d].step \in Filling => db[d] # None

StorageInv == SiteTypes /\ ToolReady

-----------------------------------------------------------------------------
(* Changes of a file that leave setup closed                               *)

LEMMA BaseKnown == BaseTables \subseteq AllTables
BY DEF AllTables

LEMMA FileFields ==
  ASSUME NEW file \in File
  PROVE  file \in FileType /\ Closed(file)
BY DEF File

LEMMA FileEmpty ==
  ASSUME NEW birth \in Nat
  PROVE  EmptyFile(birth) \in File
BY DEF EmptyFile, File, FileType, Closed

LEMMA FileFound ==
  ASSUME NEW kind \in Found
  PROVE  FoundFile(kind) \in File
BY BaseKnown, StorageAssumption DEF FoundFile, EmptyFile, File, FileType, Closed

LEMMA FileNamed ==
  ASSUME NEW file \in File, NEW id \in Ids
  PROVE  [AddIdentity(file, id) EXCEPT !.tables = AllTables] \in File
BY FileFields DEF AddIdentity, File, FileType, Closed

LEMMA FileSeeded ==
  ASSUME NEW file \in File, NEW kind \in Kinds
  PROVE  [file EXCEPT !.seeds = @ \cup {kind}] \in File
BY FileFields DEF File, FileType, Closed, Kinds

LEMMA FileSetUp ==
  ASSUME NEW file \in File
  PROVE  [file EXCEPT !.users = TRUE, !.admin = TRUE, !.marker = TRUE] \in File
BY FileFields DEF File, FileType, Closed

LEMMA FileWritten ==
  ASSUME NEW file \in File
  PROVE  [file EXCEPT !.data = @ + 1] \in File
BY FileFields DEF File, FileType, Closed

LEMMA FileDeprived ==
  ASSUME NEW file \in File, NEW others \in BOOLEAN, file.users
  PROVE  [file EXCEPT !.admin = FALSE, !.users = others] \in File
BY FileFields DEF File, FileType, Closed

-----------------------------------------------------------------------------
(* The steps                                                               *)

\* The file of a site becomes another one.
LEMMA Replacing ==
  ASSUME StorageInv, NEW d \in Sites, NEW file \in File,
         db' = [db EXCEPT ![d] = file],
         UNCHANGED <<manifest, tool, copies, bundle, ids, births>>
  PROVE  StorageInv'
BY StorageAssumption DEF StorageInv, SiteTypes, ToolReady, File

\* The tool at a site goes on.
LEMMA Going ==
  ASSUME StorageInv, NEW d \in Sites, tool[d] # None, NEW step \in Steps, Goes(d, step)
  PROVE  /\ tool' \in [Sites -> Tool \cup {None}]
         /\ tool'[d].step = step
         /\ \A e \in Sites : e # d => tool'[e] = tool[e]
         /\ \A e \in Sites : tool'[e] # None => tool[e] # None
BY DEF StorageInv, SiteTypes, Goes, Tool

LEMMA Ending ==
  ASSUME StorageInv, NEW d \in Sites, Ends(d),
         UNCHANGED <<manifest, db, copies, bundle, ids, births>>
  PROVE  StorageInv'
BY DEF StorageInv, SiteTypes, ToolReady, Ends

LEMMA Beginning ==
  ASSUME StorageInv, NEW d \in Sites,
         BeginInit(d) \/ BeginAdopt(d) \/ BeginResume(d)
  PROVE  StorageInv'
<1> USE DEF StorageInv, Steps, Filling, Kinds
<1>1. UNCHANGED <<manifest, db, copies, bundle, births>>
  BY DEF BeginInit, BeginAdopt, BeginResume
<1>2. PICK op \in Ops, id \in Ids, step \in {"key", "copy", "file"} :
        /\ Begin(d, op, id, step) /\ ids' \in 0..MaxIds
        /\ step = "file" => manifest[d] # None
  <2>1. CASE BeginInit(d)
    BY <2>1, StorageAssumption DEF BeginInit, NewId, FirstStep, Ids, Ops, SiteTypes
  <2>2. CASE BeginAdopt(d)
    <3>1. db[d].id = None \/ db[d].id \in Ids
      BY <2>2 DEF BeginAdopt, SiteTypes, File, FileType
    <3> QED
      BY <2>2, <3>1, StorageAssumption DEF BeginAdopt, NewId, FirstStep, Ids, Ops, SiteTypes
  <2>3. CASE BeginResume(d)
    BY <2>3 DEF BeginResume, Ops, SiteTypes, Manifest
  <2> QED
    BY <2>1, <2>2, <2>3
<1>3. tool' = [tool EXCEPT ![d] = [op |-> op, id |-> id, step |-> step, managed |-> FALSE]]
  BY <1>2 DEF Begin
<1>4. SiteTypes'
  BY <1>1, <1>2, <1>3 DEF SiteTypes, Tool
<1>5. ToolReady'
  BY <1>1, <1>2, <1>3 DEF ToolReady, SiteTypes
<1> QED
  BY <1>4, <1>5

\* Steps before the file is touched.
LEMMA Preparing ==
  ASSUME StorageInv, NEW d \in Sites,
         \/ \E managed \in BOOLEAN : TakeKey(d, managed)
         \/ CopyBeforeAdoption(d) \/ SaveInitializing(d) \/ SaveReady(d)
  PROVE  StorageInv'
<1> USE DEF StorageInv, Steps, Filling, Kinds
<1>1. ASSUME NEW managed \in BOOLEAN, TakeKey(d, managed)
      PROVE  StorageInv'
  <2>1. CASE Ends(d)
    BY <1>1, <2>1, Ending DEF TakeKey
  <2>2. CASE tool' = [tool EXCEPT ![d].step = "save", ![d].managed = managed]
    <3>1. tool[d] \in Tool
      BY <1>1 DEF TakeKey, At, SiteTypes
    <3>2. [tool[d] EXCEPT !.step = "save", !.managed = managed] \in Tool
      BY <3>1 DEF Tool
    <3>3. tool' = [tool EXCEPT ![d] = [tool[d] EXCEPT !.step = "save", !.managed = managed]]
      BY <2>2, <3>1 DEF SiteTypes, Tool
    <3>4. tool' \in [Sites -> Tool \cup {None}] /\ tool'[d].step = "save"
          /\ \A e \in Sites : e # d => tool'[e] = tool[e]
      BY <3>1, <3>2, <3>3 DEF SiteTypes, Tool
    <3> QED
      BY <1>1, <3>4 DEF TakeKey, SiteTypes, ToolReady
  <2> QED
    BY <1>1, <2>1, <2>2 DEF TakeKey
<1>2. ASSUME CopyBeforeAdoption(d)
      PROVE  StorageInv'
  <2>1. CASE db[d] = None
    BY <1>2, <2>1, Ending DEF CopyBeforeAdoption
  <2>2. CASE db[d] # None
    BY <1>2, <2>2, Going DEF CopyBeforeAdoption, At, SiteTypes, ToolReady
  <2> QED
    BY <2>1, <2>2
<1>3. ASSUME SaveInitializing(d)
      PROVE  StorageInv'
  <2> DEFINE record == [state |-> "initializing", op |-> tool[d].op, id |-> tool[d].id,
                        managed |-> tool[d].managed, tables |-> {}]
  <2>1. record \in Manifest
    BY <1>3 DEF SaveInitializing, At, SiteTypes, Tool, Manifest
  <2>2. manifest' = [manifest EXCEPT ![d] = record] /\ record # None
    BY <1>3, <2>1, StorageAssumption DEF SaveInitializing
  <2>3. Goes(d, "file") /\ tool[d] # None
    BY <1>3 DEF SaveInitializing, At
  <2> HIDE DEF record
  <2> QED
    <3>1. SiteTypes'
      BY <1>3, <2>1, <2>2, <2>3, Going DEF SaveInitializing, SiteTypes
    <3>2. manifest'[d] # None /\ \A e \in Sites : manifest[e] # None => manifest'[e] # None
      BY <2>2 DEF SiteTypes
    <3> QED
      BY <1>3, <2>3, <3>1, <3>2, Going DEF SaveInitializing, ToolReady
<1>4. ASSUME SaveReady(d)
      PROVE  StorageInv'
  <2>1. manifest[d] \in Manifest /\ db[d] \in File
    BY <1>4 DEF SaveReady, At, SiteTypes, ToolReady
  <2>2. [manifest[d] EXCEPT !.state = "ready", !.tables = db[d].tables] \in Manifest
    BY <2>1 DEF Manifest, File, FileType
  <2>3. manifest' \in [Sites -> Manifest \cup {None}] /\ \A e \in Sites : manifest[e] # None => manifest'[e] # None
    BY <1>4, <2>2, StorageAssumption DEF SaveReady, SiteTypes
  <2> QED
    BY <1>4, <2>3 DEF SaveReady, Ends, SiteTypes, ToolReady
<1> QED
  BY <1>1, <1>2, <1>3, <1>4

\* Steps that create, migrate and seed the file.
LEMMA FillingSteps ==
  ASSUME StorageInv, NEW d \in Sites,
         CreateFile(d) \/ CommitSchema(d) \/ SeedFeeds(d) \/ SeedActors(d) \/ SeedRules(d)
  PROVE  StorageInv'
<1> USE DEF StorageInv, Steps, Filling, Kinds
<1>1. ASSUME NEW file \in File, NEW step \in Steps, manifest[d] # None, tool[d] # None,
             db' = [db EXCEPT ![d] = file], Goes(d, step),
             UNCHANGED <<manifest, copies, bundle, ids>>, births' \in Nat
      PROVE  StorageInv'
  <2>1. file # None
    BY StorageAssumption DEF File
  <2> QED
    BY <1>1, <2>1, Going DEF SiteTypes, ToolReady
<1>2. CASE CreateFile(d)
  <2>1. manifest[d] # None /\ tool[d] # None /\ Goes(d, "commit")
    BY <1>2 DEF CreateFile, At, ToolReady
  <2>2. CASE db[d] = None
    BY <1>1, <1>2, <2>1, <2>2, FileEmpty DEF CreateFile, SiteTypes
  <2>3. CASE db[d] # None
    <3>1. db[d] \in File /\ db' = [db EXCEPT ![d] = db[d]]
      BY <1>2, <2>3 DEF CreateFile, SiteTypes
    <3> QED
      BY <1>1, <1>2, <2>1, <2>3, <3>1 DEF CreateFile, SiteTypes
  <2> QED
    BY <2>2, <2>3
<1>3. CASE CommitSchema(d)
  <2>1. manifest[d] \in Manifest /\ db[d] \in File /\ tool[d] # None
    BY <1>3 DEF CommitSchema, At, SiteTypes, ToolReady
  <2>2. manifest[d].id \in Ids
    BY <2>1 DEF Manifest
  <2> DEFINE file == [AddIdentity(db[d], manifest[d].id) EXCEPT !.tables = AllTables]
  <2>3. file \in File
    BY <2>1, <2>2, FileNamed
  <2>4. CASE Ends(d) /\ UNCHANGED db
    BY <1>3, <2>4, Ending DEF CommitSchema
  <2>5. CASE db' = [db EXCEPT ![d] = file] /\ Goes(d, AfterSchema(d))
    <3> AfterSchema(d) \in Steps
      BY DEF AfterSchema, Steps, Filling, Kinds
    <3> HIDE DEF file
    <3> QED
      BY <1>1, <1>3, <2>1, <2>3, <2>5 DEF CommitSchema, SiteTypes, ToolReady, At
  <2>6. \/ db' = [db EXCEPT ![d] = file] /\ Goes(d, AfterSchema(d))
        \/ Ends(d) /\ UNCHANGED db
    BY <1>3 DEF CommitSchema
  <2> QED
    BY <2>4, <2>5, <2>6
<1>4. ASSUME NEW kind \in Kinds, NEW next \in Steps, Seed(d, kind, next)
      PROVE  StorageInv'
  <2>1. db[d] \in File /\ tool[d] # None /\ manifest[d] # None
    BY <1>4 DEF Seed, At, SiteTypes, ToolReady
  <2> DEFINE file == [db[d] EXCEPT !.seeds = @ \cup {kind}]
  <2>2. file \in File /\ db' = [db EXCEPT ![d] = file]
    BY <1>4, <2>1, FileSeeded DEF Seed
  <2> HIDE DEF file
  <2> QED
    BY <1>1, <1>4, <2>1, <2>2 DEF Seed, SiteTypes
<1> QED
  BY <1>2, <1>3, <1>4 DEF SeedFeeds, SeedActors, SeedRules

\* What the operator does to a file tells a backup that waits for it, and leaves
\* everything else of the bundles.
LEMMA Replaced ==
  ASSUME StorageInv, NEW d \in Sites, NEW file \in File \cup {None}, Replace(d, file)
  PROVE  /\ tool[d] = None /\ db' = [db EXCEPT ![d] = file]
         /\ bundle' \in [Bundles -> Begun \cup {None}]
         /\ \A b \in Bundles :
               \/ bundle'[b] = bundle[b] /\ (bundle[b] = None \/ bundle[b].site # d \/ bundle[b].files # {})
               \/ /\ bundle[b] \in Begun /\ bundle[b].site = d /\ bundle[b].files = {}
                  /\ bundle'[b] = [bundle[b] EXCEPT !.began = Data(file)]
                  /\ bundle'[b] \in Begun /\ bundle[b] # None /\ bundle'[b] # None
<1>1. Data(file) \in Nat
  BY DEF Data, File, FileType
<1>2. \A run \in Begun : [run EXCEPT !.began = Data(file)] \in Begun /\ run # None
  BY <1>1, StorageAssumption DEF Begun, Bundle
<1>3. bundle \in [Bundles -> Begun \cup {None}]
  BY DEF StorageInv, SiteTypes
<1> QED
  BY <1>2, <1>3 DEF Replace

\* Files are changed, put in the place of others, or go, while no tool runs.
LEMMA Moving ==
  ASSUME StorageInv, NEW d \in Sites,
         \/ \E b \in Bundles : Restore(d, b)
         \/ Lose(d) \/ \E e \in Sites : Swap(d, e)
         \/ \E others \in BOOLEAN : DeleteAdmins(d, others)
  PROVE  StorageInv'
<1> USE DEF StorageInv
<1>1. PICK file \in File \cup {None} : Replace(d, file) /\ UNCHANGED <<manifest, tool, ids, births>>
                                     /\ copies' \subseteq File
  <2>1. ASSUME NEW b \in Bundles, Restore(d, b)
        PROVE  bundle[b].db \in File \cup {None}
    BY <2>1 DEF Restore, Complete, SiteTypes, Begun
  <2>2. ASSUME NEW others \in BOOLEAN, DeleteAdmins(d, others)
        PROVE  [db[d] EXCEPT !.admin = FALSE, !.users = others] \in File
    BY <2>2, FileDeprived DEF DeleteAdmins, SiteTypes
  <2> QED
    BY <2>1, <2>2 DEF Restore, Lose, Swap, DeleteAdmins, Mishandle, SiteTypes
<1> QED
  BY <1>1, Replaced DEF SiteTypes, ToolReady

\* Work of the web process on a file.
LEMMA Serving ==
  ASSUME StorageInv, NEW d \in Sites, SetUp(d) \/ Write(d)
  PROVE  StorageInv'
<1> USE DEF StorageInv
<1>1. db[d] \in File
  BY DEF SetUp, Write, Usable, Accepts, SiteTypes
<1>2. CASE SetUp(d)
  <2> DEFINE file == [db[d] EXCEPT !.users = TRUE, !.admin = TRUE, !.marker = TRUE]
  <2>1. file \in File
    BY <1>1, FileSetUp
  <2>2. db' = [db EXCEPT ![d] = file]
    BY <1>1, <1>2 DEF SetUp, SiteTypes, File, FileType
  <2> HIDE DEF file
  <2> QED
    BY <1>2, <2>1, <2>2, Replacing DEF SetUp
<1>3. CASE Write(d)
  <2> DEFINE file == [db[d] EXCEPT !.data = @ + 1]
  <2>1. file \in File
    BY <1>1, FileWritten
  <2>2. db' = [db EXCEPT ![d] = file]
    BY <1>1, <1>3 DEF Write, SiteTypes, File, FileType
  <2> HIDE DEF file
  <2> QED
    BY <1>3, <2>1, <2>2, Replacing DEF Write
<1> QED
  BY <1>2, <1>3

\* What a step of the backup tool makes of its bundle.
Effect(b, run) ==
    \/ run = None
    \/ /\ run \in Begun /\ bundle[b] = None
       /\ \E d \in Sites : /\ manifest[d] # None /\ manifest[d].state = "ready"
                           /\ run.site = d /\ run.manifest = manifest[d]
                           /\ run.files = {} /\ run.db = None /\ run.began = Data(db[d])
    \/ /\ run \in Begun /\ bundle[b] \in Begun /\ bundle[b] # None /\ bundle[b].site \in Sites
       /\ run.manifest = bundle[b].manifest /\ run.withKey = bundle[b].withKey
       /\ run.began = bundle[b].began
       /\ \/ /\ "db" \notin bundle[b].files /\ db[bundle[b].site] # None
             /\ run.site = bundle[b].site /\ run.files = {"db"} /\ run.db = db[bundle[b].site]
          \/ /\ run.db = bundle[b].db
             /\ \E file \in {"manifest", "key", "record"} :
                   /\ run.files = bundle[b].files \cup {file}
                   /\ run.site = IF file = "record" THEN None ELSE bundle[b].site
                   /\ IF file = "manifest" THEN "db" \in bundle[b].files /\ Verified(b)
                      ELSE "manifest" \in bundle[b].files
                   /\ file = "record" /\ bundle[b].withKey => "key" \in bundle[b].files

\* A run of the backup tool changes nothing but its bundle.
LEMMA BackupEffect ==
  ASSUME StorageInv, NEW b \in Bundles, BackUp(b)
  PROVE  /\ UNCHANGED <<manifest, db, key, tool, copies, ids, births, named, acked, mishaps, setUp>>
         /\ bundle[b] = None \/ bundle[b].site # None
         /\ \E run : bundle' = [bundle EXCEPT ![b] = run] /\ Effect(b, run)
<1>1. UNCHANGED <<manifest, db, key, tool, copies, ids, births, named, acked, mishaps, setUp>>
  BY DEF BackUp, BeginBackup, BackUpDatabase, BackUpManifest, BackUpKey, RecordBackup, BackupDies
<1>2. bundle[b] = None \/ bundle[b].site # None
  BY DEF BackUp, BeginBackup, BackUpDatabase, BackUpManifest, BackUpKey, RecordBackup, BackupDies, Writing
<1>3. ASSUME NEW d \in Sites, NEW withKey \in BOOLEAN, BeginBackup(b, d, withKey)
      PROVE  \E run : bundle' = [bundle EXCEPT ![b] = run] /\ Effect(b, run)
  <2> DEFINE run == [site |-> d, manifest |-> manifest[d], withKey |-> withKey, files |-> {},
                     db |-> None, began |-> Data(db[d])]
  <2>1. manifest[d] \in Manifest /\ Data(db[d]) \in Nat
    BY <1>3 DEF BeginBackup, Data, StorageInv, SiteTypes, File, FileType
  <2>2. run \in Begun
    BY <2>1 DEF Begun, Bundle
  <2>3. run.site = d /\ run.manifest = manifest[d] /\ run.files = {} /\ run.db = None /\ run.began = Data(db[d])
    OBVIOUS
  <2>4. bundle' = [bundle EXCEPT ![b] = run] /\ bundle[b] = None /\ manifest[d] # None /\ manifest[d].state = "ready"
    BY <1>3 DEF BeginBackup
  <2> HIDE DEF run
  <2>5. Effect(b, run)
    BY <2>2, <2>3, <2>4 DEF Effect
  <2> QED
    BY <2>4, <2>5
<1>4. ASSUME Abandoned(b)
      PROVE  \E run : bundle' = [bundle EXCEPT ![b] = run] /\ Effect(b, run)
  BY <1>4 DEF Abandoned, Effect
<1>5. ASSUME bundle[b] # None, bundle[b].site # None
      PROVE  bundle[b] \in Begun /\ bundle[b] \in Bundle /\ bundle[b].site \in Sites
  BY <1>5 DEF StorageInv, SiteTypes, Begun, Bundle
<1>6. ASSUME BackUpDatabase(b), ~Abandoned(b)
      PROVE  \E run : bundle' = [bundle EXCEPT ![b] = run] /\ Effect(b, run)
  <2> DEFINE run == [bundle[b] EXCEPT !.files = {"db"}, !.db = db[bundle[b].site]]
  <2>1. bundle[b] \in Begun /\ bundle[b] \in Bundle /\ bundle[b].site \in Sites /\ bundle[b] # None
        /\ "db" \notin bundle[b].files /\ db[bundle[b].site] # None
    BY <1>5, <1>6 DEF BackUpDatabase, Writing
  <2>2. db[bundle[b].site] \in File /\ File \subseteq FileType
    BY <2>1 DEF StorageInv, SiteTypes, File
  <2>3. /\ run \in Begun /\ run.site = bundle[b].site /\ run.manifest = bundle[b].manifest
        /\ run.withKey = bundle[b].withKey /\ run.began = bundle[b].began
        /\ run.files = {"db"} /\ run.db = db[bundle[b].site]
    BY <2>1, <2>2 DEF Begun, Bundle
  <2>4. bundle' = [bundle EXCEPT ![b] = run]
    BY <1>6, <2>1 DEF BackUpDatabase, StorageInv, SiteTypes, Begun, Bundle
  <2> HIDE DEF run
  <2>5. Effect(b, run)
    BY <2>1, <2>3 DEF Effect
  <2> QED
    BY <2>4, <2>5
<1>7. ASSUME NEW file \in {"manifest", "key"}, Writing(b, file, {IF file = "manifest" THEN "db" ELSE "manifest"}),
             Written(b, file), file = "manifest" => Verified(b)
      PROVE  \E run : bundle' = [bundle EXCEPT ![b] = run] /\ Effect(b, run)
  <2> DEFINE run == [bundle[b] EXCEPT !.files = @ \cup {file}]
  <2>1. bundle[b] \in Begun /\ bundle[b] \in Bundle /\ bundle[b].site \in Sites /\ bundle[b] # None
    BY <1>5, <1>7 DEF Writing
  <2>2. /\ run \in Begun /\ run.site = bundle[b].site /\ run.manifest = bundle[b].manifest
        /\ run.withKey = bundle[b].withKey /\ run.began = bundle[b].began
        /\ run.files = bundle[b].files \cup {file} /\ run.db = bundle[b].db
    BY <2>1 DEF Begun, Bundle
  <2>3. bundle' = [bundle EXCEPT ![b] = run]
    BY <1>7, <2>1 DEF Written, StorageInv, SiteTypes, Begun, Bundle
  <2> HIDE DEF run
  <2>4. Effect(b, run)
    BY <1>7, <2>1, <2>2 DEF Effect, Writing
  <2> QED
    BY <2>3, <2>4
<1>8. ASSUME RecordBackup(b)
      PROVE  \E run : bundle' = [bundle EXCEPT ![b] = run] /\ Effect(b, run)
  <2> DEFINE run == [bundle[b] EXCEPT !.files = @ \cup {"record"}, !.site = None]
  <2>1. bundle[b] \in Begun /\ bundle[b] \in Bundle /\ bundle[b].site \in Sites /\ bundle[b] # None
    BY <1>5, <1>8 DEF RecordBackup, Writing
  <2>2. /\ run \in Begun /\ run.site = None /\ run.manifest = bundle[b].manifest
        /\ run.withKey = bundle[b].withKey /\ run.began = bundle[b].began
        /\ run.files = bundle[b].files \cup {"record"} /\ run.db = bundle[b].db
    BY <2>1 DEF Begun, Bundle
  <2>3. bundle' = [bundle EXCEPT ![b] = run]
    BY <1>8, <2>1 DEF RecordBackup, StorageInv, SiteTypes, Begun, Bundle
  <2> HIDE DEF run
  <2>4. Effect(b, run)
    BY <1>8, <2>1, <2>2 DEF Effect, Writing, RecordBackup
  <2> QED
    BY <2>3, <2>4
<1>9. \E run : bundle' = [bundle EXCEPT ![b] = run] /\ Effect(b, run)
  BY <1>3, <1>4, <1>6, <1>7, <1>8
  DEF BackUp, BackUpDatabase, BackUpManifest, BackUpKey, BackupDies
<1> QED
  BY <1>1, <1>2, <1>9

LEMMA BackingUp ==
  ASSUME StorageInv, NEW b \in Bundles, BackUp(b)
  PROVE  StorageInv'
<1>1. PICK run : bundle' = [bundle EXCEPT ![b] = run] /\ run \in Begun \cup {None}
  BY BackupEffect DEF Effect
<1> QED
  BY <1>1, BackupEffect DEF StorageInv, SiteTypes, ToolReady

-----------------------------------------------------------------------------
LEMMA StorageStarts ==
  ASSUME StorageInit
  PROVE  StorageInv
<1>1. db \in [Sites -> File \cup {None}]
  BY FileFound DEF StorageInit
<1> QED
  BY <1>1, StorageAssumption DEF StorageInit, StorageInv, SiteTypes, ToolReady

LEMMA StorageGoesOn ==
  ASSUME StorageInv, [StorageNext]_storageVars
  PROVE  StorageInv'
<1>1. ASSUME NEW d \in Sites, Install(d)
      PROVE  StorageInv'
  <2>1. CASE Crash(d)
    BY <2>1, Ending DEF Crash
  <2> QED
    BY <1>1, <2>1, Beginning, Preparing, FillingSteps DEF Install
<1>2. CASE UNCHANGED storageVars
  BY <1>2 DEF storageVars, StorageInv, SiteTypes, ToolReady
<1>3. CASE StorageNext
  BY <1>1, <1>3, Serving, Moving, BackingUp DEF StorageNext
<1> QED
  BY <1>2, <1>3

-----------------------------------------------------------------------------
(* What a file tells by its identity                                       *)

\* The files there are, those of unfinished bundles included.
BundledFiles == {bundle[b].db : b \in {c \in Bundles : bundle[c] # None}} \ {None}
Held == ({db[d] : d \in Sites} \cup copies \cup BundledFiles) \ {None}

\* An identity comes with every table, and with the file it was written into;
\* what is written is written under an identity.
Told(file) ==
    /\ file.id # None => file.tables = AllTables /\ <<file.id, file.birth>> \in named
    /\ file.data > 0 => file.id # None /\ file.data <= acked[file.id]

NamesInv ==
    /\ named \subseteq (1..ids) \X Nat
    /\ acked \in [Ids -> Nat] /\ mishaps \in Nat
    /\ \A p, q \in named : p[1] = q[1] => p[2] = q[2]
    /\ \A file \in Held : Told(file)

\* What a manifest says of a finished installation.
ManifestsInv ==
    \A d \in Sites : manifest[d] # None =>
        /\ manifest[d].op \in {"init", "adopt"} /\ manifest[d].id \in 1..ids
        /\ manifest[d].state = "ready" => manifest[d].tables = AllTables

\* How far the tool at a site is: before the manifest, or at the manifest it
\* wrote or found, up to the records it seeds.
ToolFits(d) ==
    /\ tool[d].id \in 1..ids
    /\ tool[d].step \in {"key", "copy", "save"} =>
          /\ manifest[d] = None /\ tool[d].op \in {"init", "adopt"}
          /\ tool[d].op = "init" => db[d] = None
    /\ tool[d].step \in Filling \cup {"file"} =>
          manifest[d] # None /\ manifest[d].state = "initializing" /\ manifest[d].id = tool[d].id
    /\ tool[d].step \in Kinds \cup {"ready"} =>
          /\ db[d] # None /\ db[d].id = manifest[d].id
          /\ (tool[d].step \in Kinds => manifest[d].op = "init")
          /\ (tool[d].step \in {"actors", "rules"} => "feeds" \in db[d].seeds)
          /\ (tool[d].step = "rules" => "actors" \in db[d].seeds)
          /\ (tool[d].step = "ready" /\ manifest[d].op = "init" => db[d].seeds = Kinds)

\* An identity that is not in the file yet is in no other, and known nowhere else.
Unused(d) ==
    /\ \A p \in named : p[1] # tool[d].id
    /\ \A e \in Sites \ {d} :
          /\ tool[e] # None => tool[e].id # tool[d].id
          /\ manifest[e] # None => manifest[e].id # tool[d].id

ToolsInv ==
    \A d \in Sites : tool[d] # None =>
        ToolFits(d) /\ (db[d] = None \/ db[d].id = None => Unused(d))

TellInv == StorageInv /\ NamesInv /\ ManifestsInv /\ ToolsInv

LEMMA HeldAreFiles ==
  ASSUME StorageInv
  PROVE  Held \subseteq File
BY DEF StorageInv, SiteTypes, Held, BundledFiles, Begun

LEMMA NoneApart == None \notin File /\ None \notin Manifest /\ None \notin Tool /\ None \notin Ids
BY StorageAssumption DEF File

LEMMA DbHeld ==
  ASSUME NEW d \in Sites, db[d] # None
  PROVE  db[d] \in Held
BY DEF Held

\* A file is put at a site, and others are set aside.
LEMMA HeldMoved ==
  ASSUME StorageInv, NEW d \in Sites, NEW file, db' = [db EXCEPT ![d] = file],
         copies' \subseteq copies \cup Held, BundledFiles' \subseteq Held
  PROVE  Held' \subseteq Held \cup ({file} \ {None})
BY DEF Held, StorageInv, SiteTypes

LEMMA HeldPlaced ==
  ASSUME StorageInv, NEW d \in Sites, NEW file, db' = [db EXCEPT ![d] = file],
         UNCHANGED <<copies, bundle>>
  PROVE  Held' \subseteq Held \cup ({file} \ {None})
<1>1. BundledFiles' = BundledFiles
  BY DEF BundledFiles
<1>2. BundledFiles \subseteq Held
  BY DEF Held, BundledFiles
<1> QED
  BY <1>1, <1>2, HeldMoved

LEMMA HeldSame ==
  ASSUME UNCHANGED <<db, copies, bundle>>
  PROVE  Held' = Held
BY DEF Held, BundledFiles

LEMMA IdsKnown ==
  ASSUME StorageInv, NamesInv, NEW file \in Held, file.id # None
  PROVE  file.id \in 1..ids /\ file.id \in Ids
BY HeldAreFiles DEF NamesInv, Told, StorageInv, SiteTypes, File, FileType

\* Nothing is written and no identity: what the files tell stays.
LEMMA NamesStay ==
  ASSUME StorageInv, NamesInv, UNCHANGED <<named, acked>>, mishaps' \in Nat,
         ids' \in Nat, ids <= ids', \A file \in Held' : file \in Held \/ Told(file)
  PROVE  NamesInv'
<1>1. \A file \in Held' : Told(file)
  BY DEF NamesInv
<1>2. \A file \in Held' : Told(file)'
  BY <1>1 DEF Told
<1>3. ids \in Nat /\ 1..ids \subseteq 1..ids'
  BY DEF StorageInv, SiteTypes
<1>4. named' \subseteq (1..ids') \X Nat
  BY <1>3 DEF NamesInv
<1> QED
  BY <1>2, <1>4 DEF NamesInv

\* The sites at which nothing happens.
LEMMA ToolsElsewhere ==
  ASSUME StorageInv, NamesInv, ManifestsInv, ToolsInv, NEW d \in Sites, ids' \in Nat, ids <= ids',
         \A e \in Sites \ {d} : tool'[e] = tool[e] /\ manifest'[e] = manifest[e] /\ db'[e] = db[e],
         \A p \in named' : p \in named \/ (tool[d] # None /\ p[1] = tool[d].id),
         tool'[d] # None => \/ tool[d] # None /\ tool'[d].id = tool[d].id
                            \/ tool'[d].id = ids + 1
                            \/ \E p \in named : p[1] = tool'[d].id,
         manifest'[d] # None => \/ manifest[d] # None /\ manifest'[d].id = manifest[d].id
                                \/ tool[d] # None /\ manifest'[d].id = tool[d].id,
         tool'[d] # None => ToolFits(d)' /\ (db'[d] = None \/ db'[d].id = None => Unused(d)')
  PROVE  ToolsInv'
<1> SUFFICES ASSUME NEW e \in Sites \ {d}, tool'[e] # None
             PROVE  ToolFits(e)' /\ (db'[e] = None \/ db'[e].id = None => Unused(e)')
  BY DEF ToolsInv
<1>1. tool[e] # None /\ ToolFits(e) /\ (db[e] = None \/ db[e].id = None => Unused(e))
  BY DEF ToolsInv
<1>2. ids \in Nat /\ tool[e].id \in 1..ids /\ tool[e].id \in 1..ids'
  BY <1>1 DEF StorageInv, SiteTypes, ToolFits
<1>3. ToolFits(e)'
  BY <1>1, <1>2 DEF ToolFits
<1>4. ASSUME Unused(e)
      PROVE  Unused(e)'
  <2>1. /\ \A p \in named : p[1] # tool[e].id
        /\ tool[d] # None => tool[d].id # tool[e].id
        /\ manifest[d] # None => manifest[d].id # tool[e].id
    BY <1>4 DEF Unused
  <2>2. \A p \in named' : p[1] # tool'[e].id
    BY <2>1
  <2>3. tool'[d] # None => tool'[d].id # tool'[e].id
    BY <1>2, <2>1
  <2>4. manifest'[d] # None => manifest'[d].id # tool'[e].id
    BY <2>1
  <2>5. \A f \in Sites \ {e} : (tool'[f] # None => tool'[f].id # tool'[e].id)
                               /\ (manifest'[f] # None => manifest'[f].id # tool'[e].id)
    BY <1>4, <2>3, <2>4 DEF Unused
  <2> QED
    BY <2>2, <2>5 DEF Unused
<1> QED
  BY <1>1, <1>3, <1>4

\* Fresh identities are known nowhere.
LEMMA FreshUnused ==
  ASSUME StorageInv, NamesInv, ManifestsInv, ToolsInv, NEW d \in Sites,
         UNCHANGED <<named, manifest>>, tool'[d].id = ids + 1,
         \A e \in Sites \ {d} : tool'[e] = tool[e]
  PROVE  Unused(d)'
<1>1. ids \in Nat
  BY DEF StorageInv, SiteTypes
<1>2. \A p \in named : p[1] # ids + 1
  BY <1>1 DEF NamesInv
<1>3. \A e \in Sites : manifest[e] # None => manifest[e].id # ids + 1
  BY <1>1 DEF ManifestsInv
<1>4. \A e \in Sites : tool[e] # None => tool[e].id # ids + 1
  BY <1>1 DEF ToolsInv, ToolFits
<1> QED
  BY <1>2, <1>3, <1>4 DEF Unused

LEMMA TellBegins ==
  ASSUME TellInv, NEW d \in Sites,
         BeginInit(d) \/ BeginAdopt(d) \/ BeginResume(d)
  PROVE  NamesInv' /\ ManifestsInv' /\ ToolsInv'
<1> USE DEF TellInv
<1>1. UNCHANGED <<manifest, db, copies, bundle, named, acked, mishaps>> /\ tool[d] = None
  BY DEF BeginInit, BeginAdopt, BeginResume, Begin
<1>2. ids \in Nat /\ ids' \in Nat /\ ids <= ids'
  BY DEF BeginInit, BeginAdopt, BeginResume, NewId, StorageInv, SiteTypes
<1>3. NamesInv'
  BY <1>1, <1>2, HeldSame, NamesStay DEF NamesInv
<1>4. ManifestsInv'
  BY <1>1, <1>2 DEF ManifestsInv
<1>5. ASSUME NEW op \in Ops, NEW id, NEW step, Begin(d, op, id, step)
      PROVE  /\ tool'[d] = [op |-> op, id |-> id, step |-> step, managed |-> FALSE]
             /\ \A e \in Sites \ {d} : tool'[e] = tool[e]
  BY <1>5 DEF Begin, StorageInv, SiteTypes
<1>6. /\ ToolFits(d)' /\ (db'[d] = None \/ db'[d].id = None => Unused(d)')
      /\ tool'[d].id = ids + 1 \/ \E p \in named : p[1] = tool'[d].id
      /\ \A e \in Sites \ {d} : tool'[e] = tool[e]
  <2>1. CASE BeginInit(d)
    <3>1. Begin(d, "init", ids + 1, "key") /\ ids' = ids + 1
      BY <2>1 DEF BeginInit, FirstStep, NewId
    <3>2. tool'[d] = [op |-> "init", id |-> ids + 1, step |-> "key", managed |-> FALSE]
          /\ \A e \in Sites \ {d} : tool'[e] = tool[e]
      BY <1>5, <3>1 DEF Ops
    <3>3. Unused(d)'
      BY <1>1, <3>2, FreshUnused
    <3>4. ToolFits(d)'
      BY <1>1, <1>2, <2>1, <3>1, <3>2 DEF BeginInit, ToolFits, Filling, Kinds
    <3> QED
      BY <3>2, <3>3, <3>4
  <2>2. CASE BeginAdopt(d) /\ db[d].id = None
    <3>1. Begin(d, "adopt", ids + 1, "copy") /\ ids' = ids + 1
      BY <2>2 DEF BeginAdopt, FirstStep, NewId
    <3>2. tool'[d] = [op |-> "adopt", id |-> ids + 1, step |-> "copy", managed |-> FALSE]
          /\ \A e \in Sites \ {d} : tool'[e] = tool[e]
      BY <1>5, <3>1 DEF Ops
    <3>3. Unused(d)'
      BY <1>1, <3>2, FreshUnused
    <3>4. ToolFits(d)'
      BY <1>1, <1>2, <2>2, <3>1, <3>2 DEF BeginAdopt, ToolFits, Filling, Kinds
    <3> QED
      BY <3>2, <3>3, <3>4
  <2>3. CASE BeginAdopt(d) /\ db[d].id # None
    <3>1. Begin(d, "adopt", db[d].id, "copy") /\ ids' = ids /\ db[d] \in Held
      BY <2>3, DbHeld DEF BeginAdopt, FirstStep
    <3>2. tool'[d] = [op |-> "adopt", id |-> db[d].id, step |-> "copy", managed |-> FALSE]
          /\ \A e \in Sites \ {d} : tool'[e] = tool[e]
      BY <1>5, <3>1 DEF Ops
    <3>3. db[d].id \in 1..ids /\ <<db[d].id, db[d].birth>> \in named
      BY <2>3, <3>1, IdsKnown DEF NamesInv, Told
    <3>4. ToolFits(d)'
      BY <1>1, <1>2, <2>3, <3>1, <3>2, <3>3 DEF BeginAdopt, ToolFits, Filling, Kinds
    <3> QED
      BY <1>1, <2>3, <3>2, <3>3, <3>4 DEF BeginAdopt
  <2>4. CASE BeginResume(d)
    <3>1. Begin(d, "resume", manifest[d].id, "file") /\ ids' = ids /\ manifest[d] \in Manifest
          /\ db[d] # None /\ db[d].id = manifest[d].id
      BY <2>4 DEF BeginResume, Resumable, StorageInv, SiteTypes
    <3>2. tool'[d] = [op |-> "resume", id |-> manifest[d].id, step |-> "file", managed |-> FALSE]
          /\ \A e \in Sites \ {d} : tool'[e] = tool[e]
      BY <1>5, <3>1 DEF Ops
    <3>3. manifest[d].id \in Ids /\ manifest[d].id # None
      BY <3>1, NoneApart DEF Manifest
    <3>4. db[d] \in Held /\ db[d].id \in 1..ids /\ <<db[d].id, db[d].birth>> \in named
      BY <3>1, <3>3, DbHeld, IdsKnown DEF NamesInv, Told
    <3>5. ToolFits(d)'
      BY <1>1, <1>2, <2>4, <3>1, <3>2, <3>4 DEF BeginResume, ToolFits, Filling, Kinds
    <3> QED
      BY <1>1, <3>1, <3>2, <3>3, <3>4, <3>5
  <2> QED
    BY <2>1, <2>2, <2>3, <2>4
<1>7. ToolsInv'
  BY <1>1, <1>2, <1>6, ToolsElsewhere
<1> QED
  BY <1>3, <1>4, <1>7

\* The tool of a site ends.
LEMMA TellEnds ==
  ASSUME TellInv, NEW d \in Sites, Ends(d),
         UNCHANGED <<manifest, db, copies, bundle, ids, named, acked, mishaps>>
  PROVE  NamesInv' /\ ManifestsInv' /\ ToolsInv'
<1> USE DEF TellInv
<1>1. tool'[d] = None /\ \A e \in Sites \ {d} : tool'[e] = tool[e]
  BY DEF Ends, StorageInv, SiteTypes
<1>2. ids \in Nat
  BY DEF StorageInv, SiteTypes
<1>3. NamesInv'
  BY <1>2, HeldSame, NamesStay DEF NamesInv
<1>4. ToolsInv'
  BY <1>1, <1>2, ToolsElsewhere
<1> QED
  BY <1>3, <1>4 DEF ManifestsInv

LEMMA TellPrepares ==
  ASSUME TellInv, NEW d \in Sites,
         (\E managed \in BOOLEAN : TakeKey(d, managed)) \/ CopyBeforeAdoption(d)
  PROVE  NamesInv' /\ ManifestsInv' /\ ToolsInv'
<1> USE DEF TellInv
<1>1. CASE Ends(d) /\ UNCHANGED <<manifest, db, copies, bundle, ids, named, acked, mishaps>>
  BY <1>1, TellEnds
<1>2. CASE ~(Ends(d) /\ UNCHANGED copies)
  <2>1. UNCHANGED <<manifest, db, bundle, ids, named, acked, mishaps>> /\ tool[d] \in Tool
        /\ tool[d] # None /\ tool[d].step \in {"key", "copy"}
    BY DEF TakeKey, CopyBeforeAdoption, At, StorageInv, SiteTypes
  <2>2. tool'[d].op = tool[d].op /\ tool'[d].id = tool[d].id /\ tool'[d].step = "save"
        /\ \A e \in Sites \ {d} : tool'[e] = tool[e]
    BY <1>2, <2>1 DEF TakeKey, CopyBeforeAdoption, Goes, StorageInv, SiteTypes, Tool
  <2>3. Held' \subseteq Held /\ ids \in Nat
    <3>1. copies' = copies \/ (db[d] # None /\ copies' = copies \cup {db[d]})
      BY <1>2 DEF TakeKey, CopyBeforeAdoption
    <3> QED
      BY <2>1, <3>1 DEF Held, BundledFiles, StorageInv, SiteTypes
  <2>4. NamesInv'
    BY <2>1, <2>3, NamesStay DEF NamesInv
  <2>5. ToolFits(d)'
    BY <2>1, <2>2 DEF ToolsInv, ToolFits, Filling, Kinds
  <2>6. Unused(d) => Unused(d)'
    BY <2>1, <2>2 DEF Unused
  <2>7. ToolsInv'
    BY <2>1, <2>2, <2>3, <2>5, <2>6, ToolsElsewhere DEF ToolsInv
  <2> QED
    BY <2>1, <2>4, <2>7 DEF ManifestsInv
<1> QED
  BY <1>1, <1>2 DEF TakeKey, CopyBeforeAdoption

LEMMA ToolGoes ==
  ASSUME StorageInv, NEW d \in Sites, tool[d] # None,
         NEW step \in Steps, Goes(d, step)
  PROVE  /\ tool'[d] # None /\ tool'[d].op = tool[d].op /\ tool'[d].id = tool[d].id
         /\ tool'[d].step = step
         /\ \A e \in Sites \ {d} : tool'[e] = tool[e]
<1>1. tool[d] \in Tool
  BY DEF StorageInv, SiteTypes
<1>2. [tool[d] EXCEPT !.step = step] \in Tool
  BY <1>1 DEF Tool
<1>3. tool'[d] = [tool[d] EXCEPT !.step = step] /\ \A e \in Sites \ {d} : tool'[e] = tool[e]
  BY <1>1 DEF Goes, StorageInv, SiteTypes, Tool
<1> QED
  BY <1>1, <1>2, <1>3, NoneApart DEF Tool

LEMMA TellSaves ==
  ASSUME TellInv, NEW d \in Sites, SaveInitializing(d)
  PROVE  NamesInv' /\ ManifestsInv' /\ ToolsInv'
<1> USE DEF TellInv
<1>1. UNCHANGED <<db, copies, bundle, ids, named, acked, mishaps>> /\ tool[d] \in Tool
      /\ tool[d] # None /\ tool[d].step = "save" /\ ids \in Nat
  BY DEF SaveInitializing, At, StorageInv, SiteTypes
<1>2. /\ tool'[d] # None /\ tool'[d].op = tool[d].op /\ tool'[d].id = tool[d].id
      /\ tool'[d].step = "file"
      /\ \A e \in Sites \ {d} : tool'[e] = tool[e]
  BY <1>1, ToolGoes DEF SaveInitializing, Steps
<1>3. /\ manifest'[d] = [state |-> "initializing", op |-> tool[d].op, id |-> tool[d].id,
                         managed |-> tool[d].managed, tables |-> {}]
      /\ manifest'[d] # None
      /\ \A e \in Sites \ {d} : manifest'[e] = manifest[e]
  <2>1. [state |-> "initializing", op |-> tool[d].op, id |-> tool[d].id,
         managed |-> tool[d].managed, tables |-> {}] \in Manifest
    BY <1>1 DEF Manifest, Tool
  <2> QED
    BY <2>1, NoneApart DEF SaveInitializing, StorageInv, SiteTypes
<1>4. tool[d].op \in {"init", "adopt"} /\ tool[d].id \in 1..ids
  BY <1>1 DEF ToolsInv, ToolFits
<1>5. NamesInv'
  BY <1>1, HeldSame, NamesStay DEF NamesInv
<1>6. ManifestsInv'
  BY <1>1, <1>3, <1>4 DEF ManifestsInv
<1>7. ToolFits(d)'
  BY <1>1, <1>2, <1>3, <1>4 DEF ToolFits, Filling, Kinds
<1>8. Unused(d) => Unused(d)'
  BY <1>1, <1>2, <1>3 DEF Unused
<1>9. ToolsInv'
  BY <1>1, <1>2, <1>3, <1>7, <1>8, ToolsElsewhere DEF ToolsInv
<1> QED
  BY <1>5, <1>6, <1>9

LEMMA TellReady ==
  ASSUME TellInv, NEW d \in Sites, SaveReady(d)
  PROVE  /\ NamesInv' /\ ManifestsInv' /\ ToolsInv'
         /\ db[d] \in Held /\ db[d].id = manifest[d].id
         /\ manifest[d].op = "init" => db[d].seeds = Kinds
         /\ manifest'[d].op = manifest[d].op /\ manifest'[d].id = manifest[d].id
         /\ manifest[d] # None /\ manifest'[d].state = "ready"
         /\ \A e \in Sites \ {d} : manifest'[e] = manifest[e]
<1> USE DEF TellInv
<1>1. UNCHANGED <<db, copies, bundle, ids, named, acked, mishaps>> /\ ids \in Nat
      /\ tool[d] # None /\ tool[d].step = "ready" /\ Ends(d)
  BY DEF SaveReady, At, StorageInv, SiteTypes
<1>2. tool'[d] = None /\ \A e \in Sites \ {d} : tool'[e] = tool[e]
  BY <1>1 DEF Ends, StorageInv, SiteTypes
<1>3. /\ manifest[d] # None /\ manifest[d].state = "initializing" /\ db[d] # None
      /\ db[d].id = manifest[d].id /\ (manifest[d].op = "init" => db[d].seeds = Kinds)
  BY <1>1 DEF ToolsInv, ToolFits, Filling
<1>4. manifest[d] \in Manifest /\ db[d] \in Held
  BY <1>3, DbHeld DEF StorageInv, SiteTypes
<1>5. db[d].tables = AllTables
  BY <1>3, <1>4, NoneApart DEF NamesInv, Told, Manifest
<1>6. /\ manifest'[d] = [manifest[d] EXCEPT !.state = "ready", !.tables = db[d].tables]
      /\ \A e \in Sites \ {d} : manifest'[e] = manifest[e]
  BY <1>4 DEF SaveReady, StorageInv, SiteTypes, Manifest
<1>7. /\ manifest'[d].op = manifest[d].op /\ manifest'[d].id = manifest[d].id
      /\ manifest'[d].tables = AllTables /\ manifest'[d].state = "ready"
  BY <1>4, <1>5, <1>6 DEF Manifest
<1>8. NamesInv'
  BY <1>1, HeldSame, NamesStay DEF NamesInv
<1>9. ManifestsInv'
  BY <1>1, <1>3, <1>6, <1>7 DEF ManifestsInv
<1>10. ToolsInv'
  <2>1. \A e \in Sites \ {d} : tool'[e] = tool[e] /\ manifest'[e] = manifest[e] /\ db'[e] = db[e]
    BY <1>1, <1>2, <1>6
  <2>2. ids' \in Nat /\ ids <= ids' /\ \A p \in named' : p \in named
    BY <1>1
  <2> QED
    BY <1>2, <1>3, <1>7, <2>1, <2>2, ToolsElsewhere
<1> QED
  BY <1>3, <1>4, <1>6, <1>7, <1>8, <1>9, <1>10

\* The tool at a site puts a file there that holds what the one before held.
LEMMA TellCreates ==
  ASSUME TellInv, NEW d \in Sites, CreateFile(d)
  PROVE  /\ NamesInv' /\ ManifestsInv' /\ ToolsInv'
         /\ db'[d] = db[d] \/ (db[d] = None /\ db'[d] # None /\ db'[d].id = None)
         /\ manifest[d] # None /\ manifest[d].state = "initializing"
         /\ \A e \in Sites \ {d} : db'[e] = db[e]
<1> USE DEF TellInv
<1>1. UNCHANGED <<manifest, copies, bundle, ids, named, acked, mishaps>> /\ ids \in Nat
      /\ tool[d] # None /\ tool[d].step = "file" /\ tool[d] \in Tool /\ births \in Nat
  BY DEF CreateFile, At, StorageInv, SiteTypes
<1>2. /\ tool'[d] # None /\ tool'[d].id = tool[d].id /\ tool'[d].step = "commit"
      /\ \A e \in Sites \ {d} : tool'[e] = tool[e]
  BY <1>1, ToolGoes DEF CreateFile, Steps, Filling
<1>3. PICK file : /\ db' = [db EXCEPT ![d] = file] /\ file # None
                  /\ file.id = None <=> db[d] = None \/ db[d].id = None
                  /\ file = db[d] \/ db[d] = None
                  /\ file \in Held \/ Told(file)
  <2>1. CASE db[d] = None
    <3>1. EmptyFile(births + 1) \in File /\ EmptyFile(births + 1).id = None
          /\ Told(EmptyFile(births + 1))
      BY <1>1, FileEmpty DEF EmptyFile, Told
    <3> QED
      BY <2>1, <3>1, NoneApart DEF CreateFile
  <2>2. CASE db[d] # None
    BY <2>2, DbHeld DEF CreateFile, StorageInv, SiteTypes
  <2> QED
    BY <2>1, <2>2
<1>4. db'[d] = file /\ \A e \in Sites \ {d} : db'[e] = db[e]
  BY <1>3 DEF StorageInv, SiteTypes
<1>5. NamesInv'
  <2>1. \A held \in Held' : held \in Held \/ Told(held)
    BY <1>1, <1>3, HeldPlaced
  <2> QED
    BY <1>1, <2>1, NamesStay DEF NamesInv
<1>6. ToolFits(d)'
  BY <1>1, <1>2 DEF ToolsInv, ToolFits, Filling, Kinds
<1>7. Unused(d) => Unused(d)'
  BY <1>1, <1>2 DEF Unused
<1>8. ToolsInv'
  BY <1>1, <1>2, <1>3, <1>4, <1>6, <1>7, ToolsElsewhere DEF ToolsInv
<1>9. manifest[d] # None /\ manifest[d].state = "initializing"
  BY <1>1 DEF ToolsInv, ToolFits
<1> QED
  BY <1>1, <1>3, <1>4, <1>5, <1>8, <1>9 DEF ManifestsInv

LEMMA TellCommits ==
  ASSUME TellInv, NEW d \in Sites, CommitSchema(d)
  PROVE  /\ NamesInv' /\ ManifestsInv' /\ ToolsInv'
         /\ \/ Ends(d) /\ UNCHANGED db
            \/ /\ db[d] # None /\ db'[d] # None /\ db'[d].id = manifest[d].id
               /\ db'[d].seeds = db[d].seeds
               /\ db[d].id = manifest[d].id \/ (\A held \in Held : held.id # manifest[d].id)
               /\ manifest[d] # None /\ manifest[d].state = "initializing"
               /\ \A e \in Sites \ {d} : db'[e] = db[e]
               /\ \A e \in Sites \ {d} : manifest[e] # None /\ db[d].id # manifest[d].id =>
                                             manifest[e].id # manifest[d].id
<1> USE DEF TellInv
<1>1. /\ UNCHANGED <<manifest, copies, bundle, ids, acked, mishaps>> /\ ids \in Nat
      /\ tool[d] # None /\ tool[d].step = "commit"
      /\ manifest[d] \in Manifest /\ manifest[d] # None /\ db[d] \in File /\ db[d] # None
  BY DEF CommitSchema, At, StorageInv, SiteTypes, ToolReady, Filling
<1>2. /\ manifest[d].id = tool[d].id /\ manifest[d].id \in 1..ids /\ manifest[d].id \in Ids
      /\ manifest[d].state = "initializing" /\ manifest[d].id # None
      /\ manifest[d].op \in {"init", "adopt"}
  BY <1>1, NoneApart DEF ToolsInv, ToolFits, Filling, ManifestsInv, Manifest
<1>3. CASE Ends(d) /\ UNCHANGED <<db, named>>
  BY <1>1, <1>3, TellEnds
<1>4. CASE ~(Ends(d) /\ UNCHANGED <<db, named>>)
  <2> DEFINE file == [AddIdentity(db[d], manifest[d].id) EXCEPT !.tables = AllTables]
             pair == <<manifest[d].id, db[d].birth>>
  <2>1. /\ db' = [db EXCEPT ![d] = file] /\ db[d].id \in {None, manifest[d].id}
        /\ named' = named \cup {pair} /\ Goes(d, AfterSchema(d))
    BY <1>1, <1>4 DEF CommitSchema, StorageInv, SiteTypes
  <2>2. /\ file \in File /\ file.id = manifest[d].id /\ file.tables = AllTables
        /\ file.birth = db[d].birth /\ file.data = db[d].data /\ file.seeds = db[d].seeds
    BY <1>1, <1>2, <2>1, FileNamed DEF AddIdentity, File, FileType
  <2>3. db'[d] = file /\ file # None /\ \A e \in Sites \ {d} : db'[e] = db[e]
    BY <2>1, <2>2, NoneApart DEF StorageInv, SiteTypes
  <2>4. (db[d].id # None => pair \in named) /\ (db[d].id = None => Unused(d))
    BY <1>1, <1>2, <2>1, DbHeld DEF NamesInv, Told, ToolsInv
  <2>5. \/ db[d].id = manifest[d].id
        \/ (\A held \in Held : held.id # manifest[d].id)
    <3> SUFFICES ASSUME Unused(d), NEW held \in Held, held.id = manifest[d].id
                 PROVE  FALSE
      BY <2>1, <2>4
    <3>1. <<held.id, held.birth>> \in named
      BY <1>2 DEF NamesInv, Told
    <3> QED
      BY <1>2, <3>1 DEF Unused
  <2>6. \A p, q \in named' : p[1] = q[1] => p[2] = q[2]
    <3>1. CASE pair \in named
      BY <2>1, <3>1 DEF NamesInv
    <3>2. CASE Unused(d)
      <4>1. \A p \in named : p[1] # manifest[d].id
        BY <1>2, <3>2 DEF Unused
      <4>2. pair[1] = manifest[d].id
        OBVIOUS
      <4> HIDE DEF pair
      <4> QED
        BY <2>1, <4>1, <4>2 DEF NamesInv
    <3> QED
      BY <2>4, <3>1, <3>2
  <2>7. \A held \in Held' : Told(held)'
    <3> HIDE DEF file
    <3>1. \A held \in Held' : held \in Held \/ held = file
      BY <1>1, <2>1, HeldPlaced
    <3>2. file.data > 0 => file.data <= acked[manifest[d].id]
      BY <1>1, <1>2, <2>1, <2>2, DbHeld DEF NamesInv, Told
    <3>3. ASSUME NEW held, held = file
          PROVE  Told(held)'
      BY <1>1, <1>2, <2>1, <2>2, <3>2, <3>3 DEF Told
    <3>4. \A held \in Held : Told(held)'
      BY <1>1, <2>1 DEF NamesInv, Told
    <3> QED
      BY <3>1, <3>3, <3>4
  <2>8. pair \in (1..ids) \X Nat /\ mishaps' \in Nat
    BY <1>1, <1>2 DEF File, FileType, NamesInv
  <2>9. NamesInv'
    BY <1>1, <2>1, <2>6, <2>7, <2>8 DEF NamesInv
  <2>10. AfterSchema(d) \in Steps /\ (AfterSchema(d) = "feeds" \/ AfterSchema(d) = "ready")
         /\ (AfterSchema(d) = "feeds" <=> manifest[d].op = "init")
    BY DEF AfterSchema, Steps, Filling, Kinds
  <2>11. /\ tool'[d] # None /\ tool'[d].id = tool[d].id /\ tool'[d].step = AfterSchema(d)
         /\ \A e \in Sites \ {d} : tool'[e] = tool[e]
    BY <1>1, <2>1, <2>10, ToolGoes
  <2> HIDE DEF file
  <2>12. ToolFits(d)' /\ db'[d].id # None
    BY <1>1, <1>2, <2>2, <2>3, <2>10, <2>11 DEF ToolFits, Filling, Kinds
  <2>13. \A p \in named' : p \in named \/ p[1] = tool[d].id
    BY <1>2, <2>1
  <2>14. ToolsInv'
    BY <1>1, <2>3, <2>11, <2>12, <2>13, ToolsElsewhere
  <2>15. \A e \in Sites \ {d} : manifest[e] # None /\ db[d].id # manifest[d].id =>
                                    manifest[e].id # manifest[d].id
    BY <1>1, <1>2, <2>1 DEF ToolsInv, Unused
  <2> QED
    BY <1>1, <1>2, <2>2, <2>3, <2>5, <2>9, <2>14, <2>15 DEF ManifestsInv
<1> QED
  BY <1>3, <1>4

\* Records of one kind are seeded.
LEMMA TellSeeds ==
  ASSUME TellInv, NEW d \in Sites, SeedFeeds(d) \/ SeedActors(d) \/ SeedRules(d)
  PROVE  /\ NamesInv' /\ ManifestsInv' /\ ToolsInv'
         /\ manifest[d] # None /\ manifest[d].state = "initializing"
         /\ db[d] # None /\ db'[d] # None /\ db'[d].id = db[d].id
         /\ db[d].seeds \subseteq db'[d].seeds /\ db'[d].seeds \subseteq Kinds
         /\ \A e \in Sites \ {d} : db'[e] = db[e]
<1> USE DEF TellInv
<1>1. PICK kind \in Kinds, next \in {"actors", "rules", "ready"} :
         Seed(d, kind, next) /\ <<kind, next>> \in {<<"feeds", "actors">>, <<"actors", "rules">>,
                                                    <<"rules", "ready">>}
  BY DEF SeedFeeds, SeedActors, SeedRules, Kinds
<1>2. /\ UNCHANGED <<manifest, copies, bundle, ids, named, acked, mishaps>> /\ ids \in Nat
      /\ tool[d] # None /\ tool[d].step = kind
      /\ manifest[d] \in Manifest /\ manifest[d] # None /\ db[d] \in File /\ db[d] # None
  BY <1>1 DEF Seed, At, StorageInv, SiteTypes, ToolReady, Filling
<1>3. /\ manifest[d].state = "initializing" /\ manifest[d].id = tool[d].id
      /\ db[d].id = manifest[d].id /\ manifest[d].op = "init" /\ manifest[d].id # None
      /\ (kind \in {"actors", "rules"} => "feeds" \in db[d].seeds)
      /\ (kind = "rules" => "actors" \in db[d].seeds)
  BY <1>2, NoneApart DEF ToolsInv, ToolFits, Filling, Manifest
<1> DEFINE file == [db[d] EXCEPT !.seeds = @ \cup {kind}]
<1>4. /\ file \in File /\ file.seeds = db[d].seeds \cup {kind} /\ file.id = db[d].id
      /\ file.birth = db[d].birth /\ file.data = db[d].data /\ file.tables = db[d].tables
      /\ file.seeds \subseteq Kinds
  BY <1>2, FileSeeded DEF File, FileType
<1>5. db' = [db EXCEPT ![d] = file] /\ Goes(d, next)
  BY <1>1, <1>2 DEF Seed, StorageInv, SiteTypes
<1> HIDE DEF file
<1>6. db'[d] = file /\ file # None /\ \A e \in Sites \ {d} : db'[e] = db[e]
  BY <1>4, <1>5, NoneApart DEF StorageInv, SiteTypes
<1>7. Told(file)
  BY <1>2, <1>4, DbHeld DEF NamesInv, Told
<1>8. NamesInv'
  <2>1. Held' \subseteq Held \cup ({file} \ {None})
    BY <1>2, <1>5, HeldPlaced
  <2>2. \A held \in Held' : held \in Held \/ Told(held)
    BY <1>7, <2>1
  <2> QED
    BY <1>2, <2>2, NamesStay DEF NamesInv
<1>9. /\ tool'[d] # None /\ tool'[d].id = tool[d].id /\ tool'[d].step = next
      /\ \A e \in Sites \ {d} : tool'[e] = tool[e]
  BY <1>2, <1>5, ToolGoes DEF Steps, Filling, Kinds
<1>10. ToolFits(d)'
  <2>1. next = "ready" => file.seeds = Kinds
    BY <1>1, <1>3, <1>4 DEF Kinds
  <2>2. tool'[d].id \in 1..ids'
    BY <1>2, <1>9 DEF ToolsInv, ToolFits
  <2> QED
    BY <1>1, <1>2, <1>3, <1>4, <1>6, <1>9, <2>1, <2>2 DEF ToolFits, Filling, Kinds
<1>11. ToolsInv'
  BY <1>2, <1>3, <1>4, <1>6, <1>9, <1>10, ToolsElsewhere
<1> QED
  BY <1>2, <1>3, <1>4, <1>6, <1>8, <1>11 DEF ManifestsInv

\* Nobody works on a finished installation but its web process.
LEMMA ReadyIsIdle ==
  ASSUME TellInv, NEW d \in Sites, manifest[d] # None, manifest[d].state = "ready"
  PROVE  tool[d] = None
<1> SUFFICES ASSUME tool[d] # None
             PROVE  FALSE
  OBVIOUS
<1>1. tool[d].step \in Steps /\ ToolFits(d)
  BY DEF TellInv, StorageInv, SiteTypes, Tool, ToolsInv
<1> QED
  BY <1>1 DEF ToolFits, Steps

\* A file takes the place of another while no tool is there.
LEMMA TellPlaces ==
  ASSUME TellInv, NEW d \in Sites, NEW file, db' = [db EXCEPT ![d] = file],
         file = None \/ file \in Held \/ Told(file), tool[d] = None, mishaps' \in Nat,
         copies' \subseteq copies \cup Held, BundledFiles' = BundledFiles,
         UNCHANGED <<manifest, tool, ids, named, acked>>
  PROVE  NamesInv' /\ ManifestsInv' /\ ToolsInv'
<1> USE DEF TellInv
<1>1. Held' \subseteq Held \cup ({file} \ {None})
  <2>1. BundledFiles \subseteq Held
    BY DEF Held, BundledFiles
  <2> QED
    BY <2>1, HeldMoved
<1>2. \A held \in Held' : held \in Held \/ Told(held)
  BY <1>1
<1>3. ids \in Nat /\ \A e \in Sites \ {d} : db'[e] = db[e]
  BY DEF StorageInv, SiteTypes
<1>4. NamesInv'
  BY <1>2, <1>3, NamesStay
<1>5. ToolsInv'
  BY <1>3, ToolsElsewhere
<1> QED
  BY <1>4, <1>5 DEF ManifestsInv

\* No bundle has another database after the operator put a file somewhere.
LEMMA BundlesSame ==
  ASSUME StorageInv, NEW d \in Sites, NEW file \in File \cup {None}, Replace(d, file)
  PROVE  BundledFiles' = BundledFiles
<1>1. \A b \in Bundles : /\ bundle'[b] = None <=> bundle[b] = None
                         /\ bundle[b] # None => bundle'[b].db = bundle[b].db
  <2> SUFFICES ASSUME NEW b \in Bundles
               PROVE  /\ bundle'[b] = None <=> bundle[b] = None
                      /\ bundle[b] # None => bundle'[b].db = bundle[b].db
    OBVIOUS
  <2>1. CASE bundle'[b] = bundle[b]
    BY <2>1
  <2>2. CASE bundle'[b] # bundle[b]
    <3>1. /\ bundle[b] \in Bundle /\ bundle'[b] = [bundle[b] EXCEPT !.began = Data(file)]
          /\ bundle[b] # None /\ bundle'[b] # None
      BY <2>2, Replaced DEF Begun
    <3> QED
      BY <3>1 DEF Bundle
  <2> QED
    BY <2>1, <2>2
<1> QED
  BY <1>1 DEF BundledFiles

LEMMA TellReplaces ==
  ASSUME TellInv, NEW d \in Sites, NEW file \in File \cup {None}, Replace(d, file),
         file = None \/ file \in Held \/ Told(file), mishaps' \in Nat,
         copies' \subseteq copies \cup Held,
         UNCHANGED <<manifest, tool, ids, named, acked>>
  PROVE  NamesInv' /\ ManifestsInv' /\ ToolsInv'
BY Replaced, BundlesSame, TellPlaces DEF TellInv

\* A file gets accounts, or loses them, and is the same in all other respects.
LEMMA TellServes ==
  ASSUME TellInv, NEW d \in Sites, SetUp(d) \/ \E others \in BOOLEAN : DeleteAdmins(d, others)
  PROVE  /\ NamesInv' /\ ManifestsInv' /\ ToolsInv'
         /\ db[d] # None /\ db'[d] # None /\ db'[d].id = db[d].id /\ db'[d].data = db[d].data
         /\ db'[d].seeds = db[d].seeds /\ \A e \in Sites \ {d} : db'[e] = db[e]
<1> USE DEF TellInv
<1>1. db[d] \in File /\ db[d] # None
  BY DEF SetUp, DeleteAdmins, Usable, Accepts, StorageInv, SiteTypes
<1>2. /\ tool[d] = None /\ mishaps' \in Nat /\ UNCHANGED <<manifest, tool, copies, ids, named, acked>>
  <2>1. CASE SetUp(d)
    BY <2>1, ReadyIsIdle DEF SetUp, Usable, Accepts, NamesInv
  <2>2. ASSUME NEW others \in BOOLEAN, DeleteAdmins(d, others)
        PROVE  /\ tool[d] = None /\ mishaps' \in Nat /\ UNCHANGED <<manifest, tool, copies, ids, named, acked>>
    <3>1. PICK file : Mishandle(d, file) /\ UNCHANGED copies
      BY <2>2 DEF DeleteAdmins
    <3> QED
      BY <3>1 DEF Mishandle, Replace, NamesInv
  <2> QED
    BY <2>1, <2>2
<1>3. PICK file \in File : /\ db' = [db EXCEPT ![d] = file] /\ BundledFiles' = BundledFiles
                           /\ file.id = db[d].id /\ file.tables = db[d].tables /\ file.birth = db[d].birth
                           /\ file.data = db[d].data /\ file.seeds = db[d].seeds
  <2>1. CASE SetUp(d)
    <3> DEFINE new == [db[d] EXCEPT !.users = TRUE, !.admin = TRUE, !.marker = TRUE]
    <3>1. new \in File /\ new.id = db[d].id /\ new.tables = db[d].tables /\ new.birth = db[d].birth
          /\ new.data = db[d].data /\ new.seeds = db[d].seeds
      BY <1>1, FileSetUp DEF File, FileType
    <3>2. db' = [db EXCEPT ![d] = new] /\ UNCHANGED bundle
      BY <1>1, <2>1 DEF SetUp, StorageInv, SiteTypes, File, FileType
    <3> HIDE DEF new
    <3> QED
      BY <3>1, <3>2 DEF BundledFiles
  <2>2. ASSUME NEW others \in BOOLEAN, DeleteAdmins(d, others)
        PROVE  \E file \in File : /\ db' = [db EXCEPT ![d] = file] /\ BundledFiles' = BundledFiles
                           /\ file.id = db[d].id /\ file.tables = db[d].tables /\ file.birth = db[d].birth
                           /\ file.data = db[d].data /\ file.seeds = db[d].seeds
    <3> DEFINE new == [db[d] EXCEPT !.admin = FALSE, !.users = others]
    <3>1. new \in File /\ new.id = db[d].id /\ new.tables = db[d].tables /\ new.birth = db[d].birth
          /\ new.data = db[d].data /\ new.seeds = db[d].seeds
      BY <1>1, <2>2, FileDeprived DEF File, FileType, DeleteAdmins
    <3>2. Replace(d, new)
      BY <2>2 DEF DeleteAdmins, Mishandle
    <3> HIDE DEF new
    <3> QED
      BY <3>1, <3>2, Replaced, BundlesSame
  <2> QED
    BY <2>1, <2>2
<1>4. Told(file)
  BY <1>1, <1>3, DbHeld DEF NamesInv, Told
<1>5. NamesInv' /\ ManifestsInv' /\ ToolsInv'
  BY <1>2, <1>3, <1>4, TellPlaces
<1> QED
  BY <1>1, <1>3, <1>5, NoneApart DEF StorageInv, SiteTypes

\* A write is acknowledged under the identity of the file it is in.
LEMMA TellWrites ==
  ASSUME TellInv, NEW d \in Sites, Write(d)
  PROVE  /\ NamesInv' /\ ManifestsInv' /\ ToolsInv'
         /\ db[d] # None /\ db'[d] # None /\ db'[d].id = db[d].id /\ db'[d].data = db[d].data + 1
         /\ db'[d].seeds = db[d].seeds /\ \A e \in Sites \ {d} : db'[e] = db[e]
<1> USE DEF TellInv
<1>1. /\ db[d] \in File /\ db[d] # None /\ manifest[d] \in Manifest /\ db[d].id = manifest[d].id
      /\ db[d].id \in Ids /\ db[d].id # None /\ db[d].data \in Nat
      /\ tool[d] = None /\ UNCHANGED <<manifest, tool, copies, bundle, ids, named, mishaps>>
      /\ acked' = [acked EXCEPT ![db[d].id] = @ + 1]
  BY ReadyIsIdle, NoneApart DEF Write, Usable, Accepts, StorageInv, SiteTypes, File, FileType, Manifest
<1> DEFINE new == [db[d] EXCEPT !.data = @ + 1]
<1>2. PICK file \in File : file = new
  BY <1>1, FileWritten
<1>3. /\ db' = [db EXCEPT ![d] = file]
      /\ file.id = db[d].id /\ file.tables = db[d].tables /\ file.birth = db[d].birth
      /\ file.data = db[d].data + 1 /\ file.seeds = db[d].seeds
  BY <1>1, <1>2 DEF Write, StorageInv, SiteTypes, File, FileType
<1>4. db'[d] = file /\ \A e \in Sites \ {d} : db'[e] = db[e]
  BY <1>3 DEF StorageInv, SiteTypes
<1>5. /\ acked' \in [Ids -> Nat] /\ acked'[db[d].id] = acked[db[d].id] + 1
      /\ \A id \in Ids : acked[id] \in Nat /\ acked'[id] \in Nat /\ acked[id] <= acked'[id]
  BY <1>1 DEF NamesInv
<1>6. \A held \in Held : Told(held)'
  <2> SUFFICES ASSUME NEW held \in Held
               PROVE  Told(held)'
    OBVIOUS
  <2>1. held \in File /\ Told(held) /\ held.data \in Nat
    BY HeldAreFiles DEF NamesInv, File, FileType
  <2>2. held.id # None => held.id \in Ids
    BY IdsKnown
  <2> QED
    BY <1>1, <1>5, <2>1, <2>2 DEF Told
<1>7. Told(file)'
  <2>1. Told(db[d])
    BY <1>1, DbHeld DEF NamesInv
  <2>2. db[d].data <= acked[db[d].id]
    BY <1>1, <1>5, <2>1 DEF Told
  <2> QED
    BY <1>1, <1>3, <1>5, <2>1, <2>2 DEF Told
<1>8. Held' \subseteq Held \cup ({file} \ {None})
  BY <1>1, <1>3, HeldPlaced
<1>9. NamesInv'
  BY <1>1, <1>5, <1>6, <1>7, <1>8 DEF NamesInv
<1>10. ids \in Nat
  BY DEF StorageInv, SiteTypes
<1>11. ToolsInv'
  BY <1>1, <1>4, <1>10, ToolsElsewhere
<1> QED
  BY <1>1, <1>3, <1>4, <1>9, <1>11, NoneApart DEF ManifestsInv

LEMMA TellMoves ==
  ASSUME TellInv, NEW d \in Sites,
         (\E b \in Bundles : Restore(d, b)) \/ Lose(d) \/ \E e \in Sites : Swap(d, e)
  PROVE  NamesInv' /\ ManifestsInv' /\ ToolsInv'
<1>1. PICK file \in Held \cup {None} : Replace(d, file) /\ copies' \subseteq copies \cup Held
  <2>1. ASSUME NEW b \in Bundles, Restore(d, b)
        PROVE  bundle[b].db \in Held \cup {None} /\ Replace(d, bundle[b].db) /\ UNCHANGED copies
    BY <2>1 DEF Restore, Complete, Held, BundledFiles
  <2> QED
    BY <2>1 DEF Lose, Swap, Mishandle, Held
<1>2. mishaps' \in Nat /\ UNCHANGED <<manifest, tool, ids, named, acked>>
  BY DEF Restore, Lose, Swap, Mishandle, TellInv, NamesInv
<1>3. file \in File \cup {None}
  BY HeldAreFiles DEF TellInv
<1> QED
  BY <1>1, <1>2, <1>3, TellReplaces

\* A backup copies what is there.
LEMMA TellBundles ==
  ASSUME TellInv, NEW b \in Bundles, BackUp(b)
  PROVE  BundledFiles' \subseteq Held
<1>1. PICK run : bundle' = [bundle EXCEPT ![b] = run] /\ Effect(b, run)
  BY BackupEffect DEF TellInv
<1>2. run = None \/ run.db \in Held \cup {None}
  BY <1>1 DEF Effect, Held, BundledFiles
<1>3. \A c \in Bundles : bundle'[c] = IF c = b THEN run ELSE bundle[c]
  BY <1>1 DEF TellInv, StorageInv, SiteTypes
<1> QED
  BY <1>2, <1>3 DEF BundledFiles, Held

LEMMA TellBacksUp ==
  ASSUME TellInv, NEW b \in Bundles, BackUp(b)
  PROVE  /\ NamesInv' /\ ManifestsInv' /\ ToolsInv'
         /\ UNCHANGED <<manifest, db, tool, mishaps>>
<1>1. UNCHANGED <<manifest, db, tool, copies, ids, named, acked, mishaps>>
  BY BackupEffect DEF TellInv
<1>2. Held' \subseteq Held
  BY <1>1, TellBundles DEF Held
<1>3. ids \in Nat /\ mishaps' \in Nat
  BY <1>1 DEF TellInv, StorageInv, SiteTypes, NamesInv
<1>4. NamesInv'
  BY <1>1, <1>2, <1>3, NamesStay DEF TellInv
<1> QED
  BY <1>1, <1>4 DEF TellInv, ManifestsInv, ToolsInv, ToolFits, Unused

LEMMA TellStarts ==
  ASSUME StorageInit
  PROVE  TellInv
<1>1. StorageInv
  BY StorageStarts
<1>2. \A file \in Held : file.id = None /\ file.data = 0
  <2>1. \A d \in Sites : db[d] = None \/ \E kind \in Found : db[d] = FoundFile(kind)
    BY DEF StorageInit
  <2>2. \A kind \in Found : FoundFile(kind).id = None /\ FoundFile(kind).data = 0
    BY DEF FoundFile, EmptyFile
  <2>3. copies = {} /\ \A b \in Bundles : bundle[b] = None
    BY DEF StorageInit
  <2> QED
    BY <2>1, <2>2, <2>3 DEF Held, BundledFiles
<1>3. NamesInv
  BY <1>2 DEF StorageInit, NamesInv, Told, Ids
<1> QED
  BY <1>1, <1>3 DEF StorageInit, TellInv, ManifestsInv, ToolsInv

LEMMA TellGoesOn ==
  ASSUME TellInv, [StorageNext]_storageVars
  PROVE  TellInv'
<1>1. StorageInv'
  BY StorageGoesOn DEF TellInv
<1>2. ASSUME NEW d \in Sites, Install(d)
      PROVE  NamesInv' /\ ManifestsInv' /\ ToolsInv'
  <2>1. CASE Crash(d)
    BY <2>1, TellEnds DEF Crash
  <2> QED
    BY <1>2, <2>1, TellBegins, TellPrepares, TellSaves, TellReady, TellCreates, TellCommits, TellSeeds
    DEF Install
<1>3. CASE UNCHANGED storageVars
  <2>1. Held' = Held /\ UNCHANGED <<named, acked>> /\ ids' = ids /\ ids \in Nat /\ mishaps' \in Nat
    BY <1>3, HeldSame DEF storageVars, TellInv, NamesInv, StorageInv, SiteTypes
  <2>2. NamesInv'
    BY <2>1, NamesStay DEF TellInv
  <2>3. ManifestsInv'
    BY <1>3 DEF storageVars, TellInv, ManifestsInv
  <2>4. ToolsInv'
    BY <1>3 DEF storageVars, TellInv, ToolsInv, ToolFits, Unused
  <2> QED
    BY <1>1, <2>2, <2>3, <2>4 DEF TellInv
<1>4. CASE StorageNext
  <2>1. ASSUME NEW d \in Sites, \/ SetUp(d) \/ Write(d) \/ Lose(d)
                                \/ \E b \in Bundles : Restore(d, b)
                                \/ \E others \in BOOLEAN : DeleteAdmins(d, others)
                                \/ \E e \in Sites : Swap(d, e)
        PROVE  NamesInv' /\ ManifestsInv' /\ ToolsInv'
    BY <2>1, TellServes, TellWrites, TellMoves
  <2>2. ASSUME NEW b \in Bundles, BackUp(b)
        PROVE  NamesInv' /\ ManifestsInv' /\ ToolsInv'
    BY <2>2, TellBacksUp
  <2>3. NamesInv' /\ ManifestsInv' /\ ToolsInv'
    BY <1>2, <1>4, <2>1, <2>2 DEF StorageNext
  <2> QED
    BY <1>1, <2>3 DEF TellInv
<1> QED
  BY <1>1, <1>3, <1>4 DEF TellInv

\* An identity tells a database: it is written into one file, and what was written
\* under it is in files that carry it, whatever is adopted, resumed, lost, swapped
\* or restored (configure_storage.py:153, local.py:156-177).
THEOREM IdentitiesTell == StorageSpec => []IdentityTells
<1>1. StorageInit => TellInv
  BY TellStarts
<1>2. TellInv /\ [StorageNext]_storageVars => TellInv'
  BY TellGoesOn
<1>3. ASSUME TellInv
      PROVE  IdentityTells
  <2>1. DatabaseFiles \subseteq Held
    BY DEF DatabaseFiles, Copies, Held, BundledFiles, Complete
  <2> QED
    BY <1>3, <2>1 DEF TellInv, NamesInv, Told, IdentityTells
<1> QED
  BY <1>1, <1>2, <1>3, PTL DEF StorageSpec

-----------------------------------------------------------------------------
(* What a backup holds                                                     *)

Ready(d) == manifest[d] # None /\ manifest[d].state = "ready"

\* A bundle is of a finished installation, it gets its files in order, and it
\* has or will find what the file held when the backup began, or since then.
BundleFits(b) ==
    /\ bundle[b].manifest.state = "ready" /\ bundle[b].manifest.tables = AllTables
    /\ bundle[b].site # None => manifest[bundle[b].site] = bundle[b].manifest
    /\ bundle[b].files = {} => bundle[b].site # None /\ Data(db[bundle[b].site]) >= bundle[b].began
    /\ bundle[b].files # {} =>
          "db" \in bundle[b].files /\ bundle[b].db # None /\ bundle[b].db.data >= bundle[b].began
    /\ "manifest" \in bundle[b].files => Verified(b)
    /\ "record" \in bundle[b].files =>
          /\ "manifest" \in bundle[b].files /\ bundle[b].site = None
          /\ bundle[b].withKey => "key" \in bundle[b].files

BundleInv == \A b \in Bundles : bundle[b] # None => BundleFits(b)

LEMMA DataKnown ==
  ASSUME StorageInv, NEW d \in Sites
  PROVE  Data(db[d]) \in Nat
BY DEF StorageInv, SiteTypes, Data, File, FileType

\* Bundles stay, and so do the installations they are of.
LEMMA BundleStays ==
  ASSUME StorageInv, StorageInv', BundleInv, UNCHANGED bundle,
         \A e \in Sites : Ready(e) => manifest'[e] = manifest[e] /\ Data(db[e]) <= Data(db'[e])
  PROVE  BundleInv'
<1> SUFFICES ASSUME NEW b \in Bundles, bundle[b] # None
             PROVE  BundleFits(b)'
  BY DEF BundleInv
<1>1. bundle[b] \in Bundle /\ BundleFits(b) /\ bundle'[b] = bundle[b]
  BY DEF BundleInv, StorageInv, SiteTypes, Begun
<1>2. bundle[b].began \in Nat /\ bundle[b].manifest # None
  BY <1>1, NoneApart DEF Bundle
<1>3. ASSUME bundle[b].site # None
      PROVE  /\ bundle[b].site \in Sites /\ manifest'[bundle[b].site] = bundle[b].manifest
             /\ Data(db[bundle[b].site]) <= Data(db'[bundle[b].site])
  BY <1>1, <1>2, <1>3 DEF BundleFits, Ready, Bundle
<1>4. ASSUME bundle[b].files = {}
      PROVE  bundle[b].site # None /\ Data(db[bundle[b].site])' >= bundle[b].began
  <2>1. bundle[b].site # None /\ Data(db[bundle[b].site]) >= bundle[b].began
    BY <1>1, <1>4 DEF BundleFits
  <2>2. Data(db[bundle[b].site]) \in Nat /\ Data(db'[bundle[b].site]) \in Nat
    <3>1. \A e \in Sites : Data(db'[e]) \in Nat
      BY DataKnown DEF StorageInv, SiteTypes, Data, File, FileType
    <3> QED
      BY <1>3, <2>1, <3>1, DataKnown
  <2>3. Data(db[bundle[b].site])' = Data(db'[bundle[b].site])
    BY <1>1 DEF Data
  <2> QED
    BY <1>2, <1>3, <2>1, <2>2, <2>3
<1>5. Verified(b) => Verified(b)'
  BY <1>1 DEF Verified, RecoveryRequired
<1> QED
  BY <1>1, <1>3, <1>4, <1>5 DEF BundleFits

\* The operator puts a file somewhere.
LEMMA BundleReplaced ==
  ASSUME StorageInv, BundleInv, NEW d \in Sites, NEW file \in File \cup {None},
         Replace(d, file), UNCHANGED manifest
  PROVE  BundleInv'
<1> SUFFICES ASSUME NEW b \in Bundles, bundle'[b] # None
             PROVE  BundleFits(b)'
  BY DEF BundleInv
<1>1. db'[d] = file /\ \A e \in Sites \ {d} : db'[e] = db[e]
  BY Replaced DEF StorageInv, SiteTypes
<1>2. Data(file) \in Nat
  BY DEF Data, File, FileType
<1>3. CASE bundle'[b] = bundle[b] /\ (bundle[b].site # d \/ bundle[b].files # {})
  <2>1. BundleFits(b) /\ bundle[b] \in Bundle
    BY <1>3 DEF BundleInv, StorageInv, SiteTypes, Begun
  <2>2. bundle[b].files = {} => bundle[b].site \in Sites \ {d}
    BY <1>3, <2>1 DEF BundleFits, Bundle
  <2>3. bundle[b].files = {} => Data(db[bundle[b].site])' = Data(db[bundle[b].site])
    BY <1>1, <1>3, <2>2 DEF Data
  <2>4. Verified(b) => Verified(b)'
    BY <1>3 DEF Verified, RecoveryRequired
  <2> QED
    BY <1>3, <2>1, <2>3, <2>4 DEF BundleFits
<1>4. CASE ~(bundle'[b] = bundle[b] /\ (bundle[b].site # d \/ bundle[b].files # {}))
  <2>1. /\ bundle[b] \in Bundle /\ bundle[b] # None /\ bundle[b].site = d /\ bundle[b].files = {}
        /\ bundle'[b] = [bundle[b] EXCEPT !.began = Data(file)]
    BY <1>4, Replaced DEF Begun
  <2>2. /\ bundle'[b].site = d /\ bundle'[b].files = {} /\ bundle'[b].manifest = bundle[b].manifest
        /\ bundle'[b].began = Data(file)
    BY <2>1 DEF Bundle
  <2>3. BundleFits(b)
    BY <2>1 DEF BundleInv
  <2>4. Data(db[bundle[b].site])' = Data(file)
    BY <1>1, <2>2 DEF Data
  <2>5. d # None
    BY <2>1, <2>3 DEF BundleFits
  <2> QED
    BY <1>2, <2>1, <2>2, <2>3, <2>4, <2>5 DEF BundleFits
<1> QED
  BY <1>3, <1>4

\* A run of the backup tool takes its files from the installation it began with.
LEMMA BundleGrows ==
  ASSUME TellInv, BundleInv, NEW b \in Bundles, BackUp(b)
  PROVE  BundleInv'
<1> USE DEF TellInv
<1>1. UNCHANGED <<manifest, db>> /\ (bundle[b] = None \/ bundle[b].site # None)
  BY BackupEffect
<1>2. PICK run : bundle' = [bundle EXCEPT ![b] = run] /\ Effect(b, run)
  BY BackupEffect
<1>3. \A c \in Bundles : bundle'[c] = IF c = b THEN run ELSE bundle[c]
  BY <1>2 DEF StorageInv, SiteTypes
<1>4. ASSUME NEW c \in Bundles, c # b, bundle'[c] # None
      PROVE  BundleFits(c)'
  <2>1. BundleFits(c) /\ bundle'[c] = bundle[c]
    BY <1>3, <1>4 DEF BundleInv
  <2> QED
    BY <1>1, <2>1 DEF BundleFits, Verified, RecoveryRequired, Data
<1>5. ASSUME run # None
      PROVE  BundleFits(b)'
  <2>1. bundle'[b] = run /\ run \in Bundle
    BY <1>2, <1>3, <1>5 DEF Effect, Begun
  <2>2. CASE bundle[b] = None
    <3>1. PICK d \in Sites : /\ manifest[d] # None /\ manifest[d].state = "ready"
                             /\ run.site = d /\ run.manifest = manifest[d]
                             /\ run.files = {} /\ run.db = None /\ run.began = Data(db[d])
      BY <1>2, <1>5, <2>2 DEF Effect
    <3>2. Data(db[d]) \in Nat /\ Data(db[run.site])' = Data(db[d]) /\ run.manifest.tables = AllTables
      BY <1>1, <2>1, <3>1, DataKnown DEF Data, ManifestsInv
    <3>3. d # None
      BY StorageAssumption
    <3> QED
      BY <1>1, <2>1, <3>1, <3>2, <3>3 DEF BundleFits
  <2>3. CASE bundle[b] # None
    <3>1. /\ BundleFits(b) /\ bundle[b].site # None /\ bundle[b] \in Bundle
          /\ run.manifest = bundle[b].manifest /\ run.withKey = bundle[b].withKey
          /\ run.began = bundle[b].began /\ "record" \notin bundle[b].files
      BY <1>1, <1>2, <1>5, <2>3 DEF BundleInv, Effect, Begun, BundleFits
    <3>2. CASE /\ "db" \notin bundle[b].files /\ db[bundle[b].site] # None
               /\ run.site = bundle[b].site /\ run.files = {"db"} /\ run.db = db[bundle[b].site]
      <4>1. bundle[b].files = {} /\ Data(db[bundle[b].site]) = run.db.data
        BY <3>1, <3>2 DEF BundleFits, Data
      <4> QED
        BY <1>1, <2>1, <3>1, <3>2, <4>1 DEF BundleFits
    <3>3. ASSUME NEW file \in {"manifest", "key", "record"},
                 /\ run.db = bundle[b].db /\ run.files = bundle[b].files \cup {file}
                 /\ run.site = IF file = "record" THEN None ELSE bundle[b].site
                 /\ IF file = "manifest" THEN "db" \in bundle[b].files /\ Verified(b)
                    ELSE "manifest" \in bundle[b].files
                 /\ file = "record" /\ bundle[b].withKey => "key" \in bundle[b].files
          PROVE  BundleFits(b)'
      <4>1. Verified(b) /\ "db" \in bundle[b].files /\ bundle[b].db # None
            /\ bundle[b].db.data >= bundle[b].began
        BY <3>1, <3>3 DEF BundleFits
      <4>2. Verified(b)'
        BY <2>1, <3>1, <3>3, <4>1 DEF Verified, RecoveryRequired
      <4> QED
        BY <1>1, <2>1, <3>1, <3>3, <4>1, <4>2 DEF BundleFits
    <3> QED
      BY <1>2, <1>5, <2>3, <3>2, <3>3 DEF Effect
  <2> QED
    BY <2>2, <2>3
<1> QED
  BY <1>3, <1>4, <1>5 DEF BundleInv

\* Tools change manifests and files of unfinished installations only.
LEMMA ReadyStays ==
  ASSUME TellInv, NEW d \in Sites, Install(d)
  PROVE  /\ UNCHANGED bundle
         /\ \A e \in Sites : Ready(e) => manifest'[e] = manifest[e] /\ db'[e] = db[e]
<1> USE DEF TellInv
<1>1. UNCHANGED bundle
  BY DEF Install, BeginInit, BeginAdopt, BeginResume, TakeKey, CopyBeforeAdoption, SaveInitializing,
         CreateFile, CommitSchema, SeedFeeds, SeedActors, SeedRules, Seed, SaveReady, Crash
<1>2. CASE UNCHANGED <<manifest, db>>
  BY <1>1, <1>2
<1>3. CASE ~UNCHANGED <<manifest, db>>
  <2>1. SaveInitializing(d) \/ CreateFile(d) \/ CommitSchema(d) \/ SaveReady(d)
        \/ SeedFeeds(d) \/ SeedActors(d) \/ SeedRules(d)
    BY <1>3 DEF Install, BeginInit, BeginAdopt, BeginResume, TakeKey, CopyBeforeAdoption, Crash
  <2>2. tool[d] # None
    BY <2>1 DEF SaveInitializing, CreateFile, CommitSchema, SaveReady, SeedFeeds, SeedActors, SeedRules, Seed, At
  <2>3. ~Ready(d)
    BY <2>2, ReadyIsIdle DEF Ready
  <2>4. \A e \in Sites \ {d} : manifest'[e] = manifest[e] /\ db'[e] = db[e]
    BY <2>1 DEF SaveInitializing, CreateFile, CommitSchema, SaveReady, SeedFeeds, SeedActors, SeedRules, Seed,
                StorageInv, SiteTypes
  <2> QED
    BY <1>1, <2>3, <2>4
<1> QED
  BY <1>2, <1>3

LEMMA BundleStarts ==
  ASSUME StorageInit
  PROVE  BundleInv
BY DEF StorageInit, BundleInv

LEMMA BundleGoesOn ==
  ASSUME TellInv, BundleInv, [StorageNext]_storageVars
  PROVE  BundleInv'
<1> USE DEF TellInv
<1>1. StorageInv'
  BY StorageGoesOn
<1>2. \A e \in Sites : Data(db[e]) \in Nat
  BY DataKnown
<1>3. ASSUME NEW d \in Sites, Install(d)
      PROVE  BundleInv'
  BY <1>1, <1>2, <1>3, ReadyStays, BundleStays
<1>4. ASSUME NEW d \in Sites, SetUp(d) \/ Write(d)
      PROVE  BundleInv'
  <2>1. UNCHANGED <<manifest, bundle>> /\ \A e \in Sites \ {d} : db'[e] = db[e]
    BY <1>4 DEF SetUp, Write, StorageInv, SiteTypes
  <2>2. Data(db[d]) <= Data(db'[d])
    <3>1. db[d] # None /\ db'[d] # None /\ (db'[d].data = db[d].data \/ db'[d].data = db[d].data + 1)
      BY <1>4, TellServes, TellWrites
    <3> QED
      BY <1>2, <3>1 DEF Data
  <2>3. \A e \in Sites : Data(db[e]) <= Data(db'[e])
    BY <1>2, <2>1, <2>2
  <2> QED
    BY <1>1, <2>1, <2>3, BundleStays
<1>5. ASSUME NEW d \in Sites, NEW b \in Bundles, Restore(d, b)
      PROVE  BundleInv'
  <2>1. bundle[b].db \in File \cup {None} /\ Replace(d, bundle[b].db) /\ UNCHANGED manifest
    BY <1>5 DEF Restore, Complete, StorageInv, SiteTypes, Begun
  <2> QED
    BY <2>1, BundleReplaced
<1>6. ASSUME NEW d \in Sites, Lose(d) \/ \E e \in Sites : Swap(d, e)
      PROVE  BundleInv'
  <2>1. PICK file \in File \cup {None} : Replace(d, file) /\ UNCHANGED manifest
    BY <1>6 DEF Lose, Swap, Mishandle, StorageInv, SiteTypes
  <2> QED
    BY <2>1, BundleReplaced
<1>7. ASSUME NEW d \in Sites, NEW others \in BOOLEAN, DeleteAdmins(d, others)
      PROVE  BundleInv'
  <2>1. [db[d] EXCEPT !.admin = FALSE, !.users = others] \in File
    BY <1>7, FileDeprived DEF DeleteAdmins, StorageInv, SiteTypes
  <2> QED
    BY <1>7, <2>1, BundleReplaced DEF DeleteAdmins, Mishandle
<1>8. CASE UNCHANGED storageVars
  BY <1>1, <1>2, <1>8, BundleStays DEF storageVars
<1> QED
  BY <1>3, <1>4, <1>5, <1>6, <1>7, <1>8, BundleGrows DEF StorageNext

\* A bundle with its completion record can be restored, whatever the operator does
\* to the files while the backup runs, and whatever older bundles are put back
\* meanwhile: what it has was verified after it was copied, and is no less than
\* the file held when the backup began or was last put there
\* (backup_installation.py:35-55, local.py:156-183).
THEOREM BundlesRestore == StorageSpec => []BundleRestorable
<1>1. StorageInit => TellInv /\ BundleInv
  BY TellStarts, BundleStarts
<1>2. TellInv /\ BundleInv /\ [StorageNext]_storageVars => (TellInv /\ BundleInv)'
  BY TellGoesOn, BundleGoesOn
<1>3. ASSUME TellInv, BundleInv
      PROVE  BundleRestorable
  <2> SUFFICES ASSUME NEW b \in Bundles, Complete(b)
               PROVE  /\ "manifest" \in bundle[b].files
                      /\ bundle[b].withKey => "key" \in bundle[b].files
                      /\ bundle[b].db.id = bundle[b].manifest.id /\ ~RecoveryRequired(bundle[b].db)
                      /\ \A d \in Sites : /\ manifest[d] # None /\ manifest[d].state = "ready"
                                          /\ manifest[d].id = bundle[b].manifest.id
                                          => Accepts(d, bundle[b].db)
                      /\ bundle[b].db.data >= bundle[b].began
    BY DEF BundleRestorable
  <2>1. /\ "manifest" \in bundle[b].files /\ Verified(b) /\ bundle[b].db # None
        /\ bundle[b].manifest.tables = AllTables /\ bundle[b].db.data >= bundle[b].began
        /\ bundle[b].withKey => "key" \in bundle[b].files
    BY <1>3 DEF BundleInv, BundleFits, Complete
  <2>2. \A d \in Sites : manifest[d] # None /\ manifest[d].state = "ready" => manifest[d].tables = AllTables
    BY <1>3 DEF TellInv, ManifestsInv
  <2> QED
    BY <2>1, <2>2 DEF Verified, Accepts
<1> QED
  BY <1>1, <1>2, <1>3, PTL DEF StorageSpec

-----------------------------------------------------------------------------
(* When setup is open                                                      *)

Asks(file) == file # None /\ file.id # None /\ AdminRequired(file)

\* A file of a database from before it was set up.
EarlyIn(files, id) == \E file \in files : file.id = id /\ AdminRequired(file)

SetUpNamed == \A id \in setUp : id # None /\ \E p \in named : p[1] = id

\* What asks for nothing was set up.
AccountsKnown == \A file \in Held : file.id # None /\ ~AdminRequired(file) => file.id \in setUp

\* What asks although it was set up, or while another file has its identity, was
\* copied before.
AskedEarly == \A d \in Sites : Asks(db[d]) /\ db[d].id \in setUp => EarlyIn(Copies, db[d].id)
CopiedEarly ==
    \A d, e \in Sites : /\ d # e /\ Asks(db[d]) /\ db[e] # None /\ db[e].id = db[d].id
                        => EarlyIn(Copies, db[d].id)

OpenInv == SetUpNamed /\ AccountsKnown /\ AskedEarly /\ CopiedEarly

\* What was set aside stays, with the database of every complete bundle.
LEMMA CopiesKept ==
  ASSUME copies \subseteq copies', \A b \in Bundles : Complete(b) => Complete(b)' /\ bundle'[b].db = bundle[b].db
  PROVE  Copies \subseteq Copies'
BY DEF Copies

LEMMA CopiesReplaced ==
  ASSUME StorageInv, NEW d \in Sites, NEW file \in File \cup {None}, Replace(d, file),
         copies \subseteq copies'
  PROVE  Copies \subseteq Copies'
<1>1. \A b \in Bundles : Complete(b) => bundle'[b] = bundle[b]
  BY Replaced DEF Complete
<1> QED
  BY <1>1, CopiesKept DEF Complete

LEMMA CopiesSame ==
  ASSUME copies \subseteq copies', UNCHANGED bundle
  PROVE  Copies \subseteq Copies' /\ BundledFiles' = BundledFiles
BY CopiesKept DEF Complete, BundledFiles

LEMMA CopiesBackedUp ==
  ASSUME TellInv, BundleInv, NEW b \in Bundles, BackUp(b)
  PROVE  Copies \subseteq Copies'
<1>1. UNCHANGED copies /\ (bundle[b] = None \/ bundle[b].site # None)
  BY BackupEffect DEF TellInv
<1>2. PICK run : bundle' = [bundle EXCEPT ![b] = run]
  BY BackupEffect DEF TellInv
<1>3. ~Complete(b)
  BY <1>1 DEF Complete, BundleInv, BundleFits
<1>4. \A c \in Bundles : Complete(c) => bundle'[c] = bundle[c]
  BY <1>2, <1>3 DEF TellInv, StorageInv, SiteTypes
<1> QED
  BY <1>1, <1>4, CopiesKept DEF Complete

\* Files that are there ask as they asked before, or go, or have no identity.
LEMMA OpenAlike ==
  ASSUME OpenInv, Copies \subseteq Copies', named \subseteq named', UNCHANGED setUp,
         Held' \subseteq Held \cup {db'[d] : d \in Sites},
         \A d \in Sites : \/ db'[d] = db[d] \/ db'[d] = None \/ db'[d].id = None
                          \/ /\ db[d] # None /\ db'[d].id = db[d].id
                             /\ AdminRequired(db'[d]) <=> AdminRequired(db[d])
  PROVE  OpenInv'
<1>1. \A id : EarlyIn(Copies, id) => EarlyIn(Copies', id)
  BY DEF EarlyIn
<1>2. \A d \in Sites : Asks(db'[d]) => Asks(db[d]) /\ db'[d].id = db[d].id
  BY DEF Asks
<1>3. SetUpNamed'
  BY DEF OpenInv, SetUpNamed
<1>4. AccountsKnown'
  <2> SUFFICES ASSUME NEW file \in Held', file.id # None, ~AdminRequired(file)
               PROVE  file.id \in setUp
    BY DEF AccountsKnown
  <2>1. CASE file \in Held
    BY <2>1 DEF OpenInv, AccountsKnown
  <2>2. ASSUME NEW d \in Sites, file = db'[d]
        PROVE  file.id \in setUp
    <3>1. file # None
      BY DEF Held
    <3>2. db[d] # None /\ db[d].id = file.id /\ ~AdminRequired(db[d])
      BY <2>2, <3>1
    <3> QED
      BY <3>2, DbHeld DEF OpenInv, AccountsKnown
  <2> QED
    BY <2>1, <2>2
<1>5. AskedEarly'
  <2> SUFFICES ASSUME NEW d \in Sites, Asks(db'[d]), db'[d].id \in setUp
               PROVE  EarlyIn(Copies', db'[d].id)
    BY DEF AskedEarly, Asks, AdminRequired
  <2> QED
    BY <1>1, <1>2 DEF OpenInv, AskedEarly
<1>6. CopiedEarly'
  <2> SUFFICES ASSUME NEW d \in Sites, NEW e \in Sites, d # e, Asks(db'[d]), db'[e] # None,
                      db'[e].id = db'[d].id
               PROVE  EarlyIn(Copies', db'[d].id)
    BY DEF CopiedEarly, Asks, AdminRequired
  <2>1. Asks(db[d]) /\ db'[d].id = db[d].id /\ db'[d].id # None
    BY <1>2 DEF Asks
  <2>2. db[e] # None /\ db[e].id = db[d].id
    BY <2>1
  <2> QED
    BY <1>1, <2>1, <2>2 DEF OpenInv, CopiedEarly
<1> QED
  BY <1>3, <1>4, <1>5, <1>6 DEF OpenInv

\* A file is put at a site that is among the copies.
LEMMA OpenMoves ==
  ASSUME StorageInv, OpenInv, Copies \subseteq Copies', UNCHANGED <<named, setUp>>,
         NEW d \in Sites, NEW file \in Held, file \in Copies', db' = [db EXCEPT ![d] = file],
         Held' \subseteq Held
  PROVE  OpenInv'
<1>1. \A id : EarlyIn(Copies, id) => EarlyIn(Copies', id)
  BY DEF EarlyIn
<1>2. db'[d] = file /\ \A e \in Sites \ {d} : db'[e] = db[e]
  BY DEF StorageInv, SiteTypes
<1>3. Asks(file) => EarlyIn(Copies', file.id)
  BY DEF Asks, EarlyIn
<1>4. SetUpNamed' /\ AccountsKnown'
  BY DEF OpenInv, SetUpNamed, AccountsKnown
<1>5. AskedEarly'
  <2> SUFFICES ASSUME NEW e \in Sites, Asks(db'[e]), db'[e].id \in setUp
               PROVE  EarlyIn(Copies', db'[e].id)
    BY DEF AskedEarly, Asks, AdminRequired
  <2> QED
    BY <1>1, <1>2, <1>3 DEF OpenInv, AskedEarly
<1>6. CopiedEarly'
  <2> SUFFICES ASSUME NEW x \in Sites, NEW y \in Sites, x # y, Asks(db'[x]), db'[y] # None,
                      db'[y].id = db'[x].id, ~Asks(file) \/ file.id # db'[x].id
               PROVE  EarlyIn(Copies', db'[x].id)
    BY <1>3 DEF CopiedEarly, Asks, AdminRequired
  <2>1. x # d /\ db'[x] = db[x] /\ db[x].id # None
    BY <1>2 DEF Asks
  <2>2. CASE y = d
    <3>1. file.id \in setUp
      BY <1>2, <2>1, <2>2 DEF Asks, OpenInv, AccountsKnown, Held
    <3> QED
      BY <1>1, <1>2, <2>1, <2>2, <3>1 DEF OpenInv, AskedEarly
  <2>3. CASE y # d
    BY <1>1, <1>2, <2>1, <2>3 DEF OpenInv, CopiedEarly
  <2> QED
    BY <2>2, <2>3
<1> QED
  BY <1>4, <1>5, <1>6 DEF OpenInv

\* The first administrator of an identity: a file that asks elsewhere was copied.
LEMMA OpenSetsUp ==
  ASSUME TellInv, OpenInv, NEW d \in Sites, SetUp(d)
  PROVE  OpenInv'
<1>1. /\ db[d] # None /\ db[d] \in Held /\ db[d].id = manifest[d].id /\ db[d].id # None
      /\ UNCHANGED <<copies, bundle, named>> /\ setUp' = setUp \cup {db[d].id}
  BY DbHeld, NoneApart DEF SetUp, Usable, Accepts, TellInv, StorageInv, SiteTypes, Manifest
<1> DEFINE new == [db[d] EXCEPT !.users = TRUE, !.admin = TRUE, !.marker = TRUE]
<1>2. new.id = db[d].id /\ ~AdminRequired(new) /\ db' = [db EXCEPT ![d] = new]
  <2>1. db[d] \in FileType
    BY <1>1 DEF TellInv, StorageInv, SiteTypes, File
  <2> QED
    BY <2>1 DEF SetUp, TellInv, StorageInv, SiteTypes, FileType, AdminRequired
<1> HIDE DEF new
<1>3. db'[d] = new /\ \A e \in Sites \ {d} : db'[e] = db[e]
  BY <1>2 DEF TellInv, StorageInv, SiteTypes
<1>4. Held' \subseteq Held \cup {new}
  BY <1>1, <1>2, HeldPlaced DEF TellInv
<1>5. \A id : EarlyIn(Copies, id) => EarlyIn(Copies', id)
  BY <1>1, CopiesSame DEF EarlyIn
<1>6. SetUpNamed'
  BY <1>1 DEF OpenInv, SetUpNamed, TellInv, NamesInv, Told
<1>7. AccountsKnown'
  BY <1>1, <1>2, <1>4 DEF OpenInv, AccountsKnown
<1>8. AskedEarly'
  <2> SUFFICES ASSUME NEW e \in Sites, Asks(db'[e]), db'[e].id \in setUp'
               PROVE  EarlyIn(Copies', db'[e].id)
    BY DEF AskedEarly, Asks, AdminRequired
  <2>1. e # d /\ db'[e] = db[e]
    BY <1>2, <1>3 DEF Asks
  <2> QED
    BY <1>1, <1>5, <2>1 DEF OpenInv, AskedEarly, CopiedEarly
<1>9. CopiedEarly'
  <2> SUFFICES ASSUME NEW x \in Sites, NEW y \in Sites, x # y, Asks(db'[x]), db'[y] # None,
                      db'[y].id = db'[x].id
               PROVE  EarlyIn(Copies', db'[x].id)
    BY DEF CopiedEarly, Asks, AdminRequired
  <2>1. x # d /\ db'[x] = db[x] /\ db[y] # None /\ db[y].id = db[x].id
    BY <1>1, <1>2, <1>3 DEF Asks
  <2> QED
    BY <1>5, <2>1 DEF OpenInv, CopiedEarly
<1> QED
  BY <1>6, <1>7, <1>8, <1>9 DEF OpenInv

\* An identity that is given to a database is in no other; one that it has already
\* is not set up by it.
LEMMA OpenCommits ==
  ASSUME TellInv, OpenInv, NEW d \in Sites, CommitSchema(d)
  PROVE  OpenInv'
<1> USE DEF TellInv
<1>1. /\ UNCHANGED <<copies, bundle>> /\ manifest[d] \in Manifest /\ db[d] \in File /\ db[d] # None
      /\ manifest[d].id = tool[d].id /\ manifest[d].id # None /\ manifest[d].id \in Ids
      /\ db[d].id = None => Unused(d)
  <2>1. tool[d] # None /\ tool[d].step = "commit"
    BY DEF CommitSchema, At
  <2> QED
    BY <2>1, NoneApart DEF CommitSchema, StorageInv, SiteTypes, ToolReady, Filling, ToolsInv, ToolFits, Manifest
<1>2. CASE UNCHANGED <<db, named, setUp>>
  <2>1. Held' = Held /\ Copies \subseteq Copies'
    BY <1>1, <1>2, HeldSame, CopiesSame
  <2> QED
    BY <1>2, <2>1, OpenAlike
<1> DEFINE file == [AddIdentity(db[d], manifest[d].id) EXCEPT !.tables = AllTables]
<1>3. CASE ~UNCHANGED <<db, named, setUp>>
  <2>1. /\ db' = [db EXCEPT ![d] = file] /\ db[d].id \in {None, manifest[d].id}
        /\ named \subseteq named' /\ <<manifest[d].id, db[d].birth>> \in named'
        /\ setUp' = IF db[d].users THEN setUp \cup {manifest[d].id} ELSE setUp
    BY <1>1, <1>3 DEF CommitSchema, StorageInv, SiteTypes
  <2>2. /\ file.id = manifest[d].id
        /\ db[d].id # None => (AdminRequired(file) <=> AdminRequired(db[d]))
        /\ db[d].id = None => (AdminRequired(file) <=> ~db[d].users)
    BY <1>1, <2>1 DEF AddIdentity, File, FileType, Closed, AdminRequired
  <2>3. db'[d] = file /\ \A e \in Sites \ {d} : db'[e] = db[e]
    BY <2>1 DEF StorageInv, SiteTypes
  <2> HIDE DEF file
  <2>4. Held' \subseteq Held \cup {file} /\ Copies \subseteq Copies'
    BY <1>1, <2>1, HeldPlaced, CopiesSame
  <2>5. CASE db[d].id # None
    <3>1. db[d].users => ~AdminRequired(db[d])
      BY <1>1, <2>5 DEF File, Closed, AdminRequired
    <3>2. UNCHANGED setUp
      BY <1>1, <2>1, <2>5, <3>1, DbHeld DEF OpenInv, AccountsKnown
    <3> QED
      BY <1>1, <2>1, <2>2, <2>3, <2>4, <2>5, <3>2, OpenAlike
  <2>6. CASE db[d].id = None
    <3>1. \A p \in named : p[1] # manifest[d].id
      BY <1>1, <2>6 DEF Unused
    <3>2. manifest[d].id \notin setUp /\ \A held \in Held : held.id # manifest[d].id
      BY <1>1, <3>1 DEF OpenInv, SetUpNamed, NamesInv, Told
    <3>3. \A id : EarlyIn(Copies, id) => EarlyIn(Copies', id)
      BY <2>4 DEF EarlyIn
    <3>4. SetUpNamed'
      BY <1>1, <2>1 DEF OpenInv, SetUpNamed
    <3>5. AccountsKnown'
      BY <2>1, <2>2, <2>4, <2>6 DEF OpenInv, AccountsKnown
    <3>6. AskedEarly'
      <4> SUFFICES ASSUME NEW e \in Sites, Asks(db'[e]), db'[e].id \in setUp'
                   PROVE  EarlyIn(Copies', db'[e].id)
        BY DEF AskedEarly, Asks, AdminRequired
      <4>1. e # d
        BY <2>1, <2>2, <2>3, <2>6, <3>2 DEF Asks
      <4>2. db'[e] = db[e] /\ db[e].id # manifest[d].id /\ db[e].id \in setUp
        BY <2>1, <2>3, <3>2, <4>1, DbHeld DEF Asks
      <4> QED
        BY <3>3, <4>2 DEF OpenInv, AskedEarly
    <3>7. CopiedEarly'
      <4> SUFFICES ASSUME NEW x \in Sites, NEW y \in Sites, x # y, Asks(db'[x]), db'[y] # None,
                          db'[y].id = db'[x].id
                   PROVE  EarlyIn(Copies', db'[x].id)
        BY DEF CopiedEarly, Asks, AdminRequired
      <4>1. x # d /\ y # d
        BY <2>2, <2>3, <3>2, DbHeld DEF Asks
      <4> QED
        BY <2>3, <3>3, <4>1 DEF OpenInv, CopiedEarly
    <3> QED
      BY <3>4, <3>5, <3>6, <3>7 DEF OpenInv
  <2> QED
    BY <2>5, <2>6
<1> QED
  BY <1>2, <1>3

\* The other steps of the tools write no account and set nothing up.
LEMMA OpenInstalls ==
  ASSUME TellInv, OpenInv, NEW d \in Sites, Install(d), ~CommitSchema(d)
  PROVE  OpenInv'
<1> USE DEF TellInv
<1>1. UNCHANGED <<bundle, named, setUp>> /\ copies \subseteq copies' /\ copies' \subseteq copies \cup Held
  BY DEF Install, BeginInit, BeginAdopt, BeginResume, TakeKey, CopyBeforeAdoption, SaveInitializing,
         CreateFile, SeedFeeds, SeedActors, SeedRules, Seed, SaveReady, Crash, Held
<1>2. Copies \subseteq Copies' /\ BundledFiles' = BundledFiles
  BY <1>1, CopiesSame
<1>3. CASE CreateFile(d) \/ SeedFeeds(d) \/ SeedActors(d) \/ SeedRules(d)
  <2>1. PICK file : db' = [db EXCEPT ![d] = file] /\ (\/ file.id = None
                                                    \/ file = db[d]
                                                    \/ /\ db[d] # None /\ file.id = db[d].id
                                                       /\ AdminRequired(file) <=> AdminRequired(db[d]))
    <3>1. CASE CreateFile(d)
      BY <3>1 DEF CreateFile, EmptyFile, StorageInv, SiteTypes
    <3>2. CASE SeedFeeds(d) \/ SeedActors(d) \/ SeedRules(d)
      <4>1. PICK kind \in Kinds : db' = [db EXCEPT ![d].seeds = @ \cup {kind}]
        BY <3>2 DEF SeedFeeds, SeedActors, SeedRules, Seed, Kinds
      <4>2. db[d] \in FileType /\ db[d] # None
        BY <3>2, TellSeeds DEF StorageInv, SiteTypes, File
      <4> DEFINE new == [db[d] EXCEPT !.seeds = @ \cup {kind}]
      <4>3. db' = [db EXCEPT ![d] = new] /\ new.id = db[d].id
            /\ (AdminRequired(new) <=> AdminRequired(db[d]))
        BY <4>1, <4>2 DEF StorageInv, SiteTypes, FileType, AdminRequired
      <4> HIDE DEF new
      <4> QED
        BY <4>2, <4>3
    <3> QED
      BY <1>3, <3>1, <3>2
  <2>2. db'[d] = file /\ \A e \in Sites \ {d} : db'[e] = db[e]
    BY <2>1 DEF StorageInv, SiteTypes
  <2>3. Held' \subseteq Held \cup {db'[e] : e \in Sites}
    <3>1. BundledFiles \subseteq Held
      BY DEF Held, BundledFiles
    <3> QED
      BY <1>1, <1>2, <2>1, <2>2, <3>1, HeldMoved
  <2> QED
    BY <1>1, <1>2, <2>1, <2>2, <2>3, OpenAlike
<1>4. CASE ~(CreateFile(d) \/ SeedFeeds(d) \/ SeedActors(d) \/ SeedRules(d))
  <2>1. UNCHANGED db
    BY <1>4 DEF Install, BeginInit, BeginAdopt, BeginResume, TakeKey, CopyBeforeAdoption, SaveInitializing,
                SaveReady, Crash
  <2>2. Held' \subseteq Held
    BY <1>1, <1>2, <2>1 DEF Held
  <2> QED
    BY <1>1, <1>2, <2>1, <2>2, OpenAlike
<1> QED
  BY <1>3, <1>4

\* The operator puts a copy back, makes one that goes to another site, or loses a
\* file, and the accounts of one go.
LEMMA OpenHandled ==
  ASSUME TellInv, BundleInv, OpenInv, NEW d \in Sites,
         \/ \E b \in Bundles : Restore(d, b)
         \/ Lose(d) \/ \E e \in Sites : Swap(d, e)
         \/ \E others \in BOOLEAN : DeleteAdmins(d, others)
  PROVE  OpenInv'
<1> USE DEF TellInv
<1>1. BundledFiles \subseteq Held
  BY DEF Held, BundledFiles
<1>2. ASSUME NEW b \in Bundles, Restore(d, b)
      PROVE  OpenInv'
  <2>1. bundle[b].db \in File /\ bundle[b].db \in Held /\ bundle[b].db \in Copies
    BY <1>2, <1>1 DEF Restore, Complete, BundleInv, BundleFits, StorageInv, SiteTypes, Begun, BundledFiles, Copies
  <2>2. Replace(d, bundle[b].db) /\ UNCHANGED <<copies, named, setUp>>
    BY <1>2 DEF Restore
  <2>3. /\ db' = [db EXCEPT ![d] = bundle[b].db] /\ BundledFiles' = BundledFiles /\ Copies \subseteq Copies'
    BY <2>1, <2>2, Replaced, BundlesSame, CopiesReplaced
  <2>4. Held' \subseteq Held
    BY <1>1, <2>1, <2>2, <2>3, HeldMoved
  <2> QED
    BY <2>1, <2>2, <2>3, <2>4, OpenMoves
<1>3. ASSUME NEW e \in Sites, Swap(d, e)
      PROVE  OpenInv'
  <2>1. /\ db[e] \in File /\ db[e] \in Held /\ db[e] \in copies' /\ copies' \subseteq copies \cup Held
        /\ copies \subseteq copies' /\ Replace(d, db[e]) /\ UNCHANGED <<named, setUp>>
    BY <1>3, DbHeld DEF Swap, Mishandle, StorageInv, SiteTypes
  <2>2. /\ db' = [db EXCEPT ![d] = db[e]] /\ BundledFiles' = BundledFiles
        /\ Copies \subseteq Copies' /\ db[e] \in Copies'
    BY <2>1, Replaced, BundlesSame, CopiesReplaced DEF Copies
  <2>3. Held' \subseteq Held
    BY <1>1, <2>1, <2>2, HeldMoved
  <2> QED
    BY <2>1, <2>2, <2>3, OpenMoves
<1>4. ASSUME Lose(d) \/ \E others \in BOOLEAN : DeleteAdmins(d, others)
      PROVE  OpenInv'
  <2>1. PICK file \in File \cup {None} :
           /\ Replace(d, file) /\ UNCHANGED <<copies, named, setUp>>
           /\ \/ file = None
              \/ file.id = None
              \/ db[d] # None /\ file.id = db[d].id /\ (AdminRequired(file) <=> AdminRequired(db[d]))
    <3>1. ASSUME NEW others \in BOOLEAN, DeleteAdmins(d, others)
          PROVE  LET file == [db[d] EXCEPT !.admin = FALSE, !.users = others]
                 IN  /\ file \in File /\ Replace(d, file) /\ UNCHANGED <<copies, named, setUp>>
                     /\ file.id = db[d].id /\ db[d] # None
                     /\ file.id # None => (AdminRequired(file) <=> AdminRequired(db[d]))
      <4>1. db[d] \in File /\ db[d].users /\ db[d] # None
        BY <3>1 DEF DeleteAdmins, StorageInv, SiteTypes
      <4>2. db[d].id # None => db[d].marker
        BY <4>1 DEF File, Closed
      <4> QED
        BY <3>1, <4>1, <4>2, FileDeprived DEF DeleteAdmins, Mishandle, File, FileType, AdminRequired
    <3>2. CASE Lose(d)
      BY <3>2 DEF Lose, Mishandle
    <3> QED
      BY <1>4, <3>1, <3>2
  <2>2. /\ db' = [db EXCEPT ![d] = file] /\ BundledFiles' = BundledFiles /\ Copies \subseteq Copies'
    BY <2>1, Replaced, BundlesSame, CopiesReplaced
  <2>3. db'[d] = file /\ \A e \in Sites \ {d} : db'[e] = db[e]
    BY <2>2 DEF StorageInv, SiteTypes
  <2>4. Held' \subseteq Held \cup {db'[e] : e \in Sites}
    BY <1>1, <2>1, <2>2, <2>3, HeldMoved
  <2> QED
    BY <2>1, <2>2, <2>3, <2>4, OpenAlike
<1> QED
  BY <1>2, <1>3, <1>4

LEMMA OpenWrites ==
  ASSUME TellInv, OpenInv, NEW d \in Sites, Write(d)
  PROVE  OpenInv'
<1> USE DEF TellInv
<1>1. db[d] \in FileType /\ db[d] # None /\ UNCHANGED <<copies, bundle, named, setUp>>
  BY DEF Write, Usable, Accepts, StorageInv, SiteTypes, File
<1> DEFINE new == [db[d] EXCEPT !.data = @ + 1]
<1>2. db' = [db EXCEPT ![d] = new] /\ new.id = db[d].id /\ (AdminRequired(new) <=> AdminRequired(db[d]))
  BY <1>1 DEF Write, StorageInv, SiteTypes, FileType, AdminRequired
<1> HIDE DEF new
<1>3. db'[d] = new /\ \A e \in Sites \ {d} : db'[e] = db[e]
  BY <1>2 DEF StorageInv, SiteTypes
<1>4. Held' \subseteq Held \cup {db'[e] : e \in Sites} /\ Copies \subseteq Copies'
  BY <1>1, <1>2, <1>3, HeldPlaced, CopiesSame
<1> QED
  BY <1>1, <1>2, <1>3, <1>4, OpenAlike

LEMMA OpenStarts ==
  ASSUME StorageInit
  PROVE  OpenInv
<1>1. \A file \in Held : file.id = None
  <2>1. \A d \in Sites : db[d] = None \/ db[d].id = None
    BY DEF StorageInit, FoundFile, EmptyFile
  <2> QED
    BY <2>1 DEF StorageInit, Held, BundledFiles
<1> QED
  BY <1>1, DbHeld DEF StorageInit, OpenInv, SetUpNamed, AccountsKnown, AskedEarly, CopiedEarly, Asks

LEMMA OpenGoesOn ==
  ASSUME TellInv, BundleInv, OpenInv, [StorageNext]_storageVars
  PROVE  OpenInv'
<1>1. CASE UNCHANGED storageVars
  <2>1. Held' = Held /\ Copies \subseteq Copies' /\ UNCHANGED <<db, named, setUp>>
    BY <1>1, HeldSame, CopiesSame DEF storageVars
  <2> QED
    BY <2>1, OpenAlike
<1>2. ASSUME NEW b \in Bundles, BackUp(b)
      PROVE  OpenInv'
  <2>1. UNCHANGED <<db, copies, named, setUp>> /\ Copies \subseteq Copies'
    BY <1>2, BackupEffect, CopiesBackedUp DEF TellInv
  <2>2. BundledFiles' \subseteq Held
    BY <1>2, TellBundles
  <2>3. Held' \subseteq Held
    BY <2>1, <2>2 DEF Held
  <2> QED
    BY <2>1, <2>3, OpenAlike
<1> QED
  BY <1>1, <1>2, OpenCommits, OpenInstalls, OpenSetsUp, OpenWrites, OpenHandled DEF StorageNext

\* Public setup stays closed, unless a copy from before it was closed is put back:
\* a database gets the marker together with its identity if it has accounts, and
\* at its setup, and no identity comes without a file that carries it
\* (local.py:185-203, docs/storage-resilience.md:127-128).
THEOREM SetupStaysClosed == StorageSpec => []SetupClosed
<1>1. StorageInit => TellInv /\ BundleInv /\ OpenInv
  BY TellStarts, BundleStarts, OpenStarts
<1>2. TellInv /\ BundleInv /\ OpenInv /\ [StorageNext]_storageVars => (TellInv /\ BundleInv /\ OpenInv)'
  BY TellGoesOn, BundleGoesOn, OpenGoesOn
<1>3. OpenInv => SetupClosed
  BY DEF OpenInv, SetUpNamed, AskedEarly, Asks, EarlyIn, SetupClosed
<1> QED
  BY <1>1, <1>2, <1>3, PTL DEF StorageSpec

-----------------------------------------------------------------------------
(* What a mishap may disturb                                               *)

\* Nothing that matters was lost or exchanged yet; or one file at most.  Whether
\* files are exchanged at all is the parameter of what follows.
Quiet(swaps) == mishaps = 0 \/ ~swaps
Calm(swaps) == mishaps <= 1 \/ ~swaps

\* Before a mishap every finished installation has its file.
Undamaged == \A d \in Sites : Ready(d) => db[d] # None /\ db[d].id = manifest[d].id

\* A file that is not seeded yet is nowhere but at the installation it is for.
Apart ==
    \A d \in Sites : manifest[d] # None /\ manifest[d].op = "init" =>
        /\ \A e \in Sites : db[e] # None /\ db[e].id = manifest[d].id =>
              db[e].seeds = Kinds \/ (e = d /\ manifest[d].state = "initializing")
        /\ \A file \in BundledFiles : file.id = manifest[d].id => file.seeds = Kinds

\* No finished installation lacks a file, so that none is restored.
Kept == \A d \in Sites : Ready(d) => db[d] # None

Seeded ==
    \A d \in Sites : Ready(d) /\ manifest[d].op = "init" /\ db[d] # None /\ db[d].id = manifest[d].id =>
        db[d].seeds = Kinds

MishapInv(swaps) ==
    /\ mishaps = 0 => Undamaged
    /\ Quiet(swaps) => Apart
    /\ Calm(swaps) => (Apart \/ Kept) /\ Seeded

InstalledInv(swaps) == TellInv /\ BundleInv /\ MishapInv(swaps)

LEMMA BundledSame ==
  ASSUME UNCHANGED bundle
  PROVE  BundledFiles' = BundledFiles
BY DEF BundledFiles

LEMMA Mishaps ==
  ASSUME TellInv
  PROVE  mishaps \in Nat
BY DEF TellInv, NamesInv

\* Nothing happens to files that is of interest here.
LEMMA MishapStays ==
  ASSUME NEW swaps \in BOOLEAN, TellInv, MishapInv(swaps),
         mishaps' = mishaps \/ mishaps' = mishaps + 1, UNCHANGED manifest, BundledFiles' = BundledFiles,
         \A e \in Sites : \/ db'[e] = db[e]
                          \/ /\ db[e] # None /\ db'[e] # None
                             /\ db'[e].id = db[e].id /\ db'[e].seeds = db[e].seeds
  PROVE  MishapInv(swaps)'
<1>1. \A e \in Sites : /\ db'[e] = None <=> db[e] = None
                       /\ db[e] # None => db'[e].id = db[e].id /\ db'[e].seeds = db[e].seeds
  OBVIOUS
<1>2. (Undamaged => Undamaged') /\ (Kept => Kept') /\ (Seeded => Seeded')
  BY <1>1 DEF Undamaged, Kept, Seeded, Ready
<1>3. Apart => Apart'
  BY <1>1 DEF Apart
<1>4. Undamaged => Kept
  BY DEF Undamaged, Kept
<1>5. mishaps \in Nat
  BY Mishaps
<1> QED
  BY <1>2, <1>3, <1>4, <1>5 DEF MishapInv, Quiet, Calm

LEMMA InstalledSaves ==
  ASSUME NEW swaps \in BOOLEAN, TellInv, MishapInv(swaps), NEW d \in Sites, SaveInitializing(d)
  PROVE  MishapInv(swaps)'
<1>1. /\ UNCHANGED <<db, bundle, mishaps>> /\ tool[d] # None /\ tool[d].step = "save"
      /\ manifest' = [manifest EXCEPT ![d] = [state |-> "initializing", op |-> tool[d].op, id |-> tool[d].id,
                                              managed |-> tool[d].managed, tables |-> {}]]
  BY DEF SaveInitializing, At
<1>2. manifest[d] = None /\ (tool[d].op = "init" => db[d] = None) /\ ToolFits(d)
      /\ (db[d] = None => Unused(d))
  BY <1>1 DEF TellInv, ToolsInv, ToolFits
<1>3. /\ \A e \in Sites \ {d} : manifest'[e] = manifest[e]
      /\ manifest'[d].state = "initializing" /\ manifest'[d].op = tool[d].op /\ manifest'[d].id = tool[d].id
  BY <1>1 DEF TellInv, StorageInv, SiteTypes
<1>4. \A e \in Sites : Ready(e)' => Ready(e) /\ e # d
  BY <1>3 DEF Ready
<1>5. (Undamaged => Undamaged') /\ (Kept => Kept') /\ (Seeded => Seeded')
  BY <1>1, <1>3, <1>4 DEF Undamaged, Kept, Seeded
<1>6. ASSUME Apart
      PROVE  Apart'
  <2> SUFFICES ASSUME NEW x \in Sites, manifest'[x] # None, manifest'[x].op = "init"
               PROVE  /\ \A e \in Sites : db[e] # None /\ db[e].id = manifest'[x].id =>
                            db[e].seeds = Kinds \/ (e = x /\ manifest'[x].state = "initializing")
                      /\ \A file \in BundledFiles : file.id = manifest'[x].id => file.seeds = Kinds
    BY <1>1, BundledSame DEF Apart
  <2>1. CASE x # d
    BY <1>3, <1>6, <2>1 DEF Apart
  <2>2. CASE x = d
    <3>1. Unused(d) /\ tool[d].id # None
      BY <1>1, <1>2, <1>3, <2>2, NoneApart DEF TellInv, StorageInv, SiteTypes, Tool
    <3>2. \A held \in Held : held.id # tool[d].id
      BY <3>1 DEF Unused, TellInv, NamesInv, Told
    <3>3. BundledFiles \subseteq Held
      BY DEF Held, BundledFiles
    <3> QED
      BY <1>3, <2>2, <3>2, <3>3, DbHeld
  <2> QED
    BY <2>1, <2>2
<1> QED
  BY <1>1, <1>5, <1>6 DEF MishapInv, Quiet, Calm

LEMMA InstalledReady ==
  ASSUME NEW swaps \in BOOLEAN, TellInv, MishapInv(swaps), NEW d \in Sites, SaveReady(d)
  PROVE  MishapInv(swaps)'
<1>1. UNCHANGED <<db, mishaps>> /\ BundledFiles' = BundledFiles
  BY BundledSame DEF SaveReady
<1>2. /\ manifest[d] # None /\ db[d] \in Held /\ db[d] # None /\ db[d].id = manifest[d].id
      /\ (manifest[d].op = "init" => db[d].seeds = Kinds)
      /\ manifest'[d].op = manifest[d].op /\ manifest'[d].id = manifest[d].id
      /\ manifest'[d].state = "ready"
      /\ \A e \in Sites \ {d} : manifest'[e] = manifest[e]
  BY TellReady DEF Held
<1>3. \A e \in Sites : Ready(e)' => e = d \/ (Ready(e) /\ manifest'[e] = manifest[e])
  BY <1>2 DEF Ready
<1>4. (Undamaged => Undamaged') /\ (Kept => Kept') /\ (Seeded => Seeded')
  BY <1>1, <1>2, <1>3 DEF Undamaged, Kept, Seeded
<1>5. \A e \in Sites : manifest'[e] # None => manifest[e] # None /\ manifest'[e].op = manifest[e].op
                                              /\ manifest'[e].id = manifest[e].id
  BY <1>2
<1>6. Apart => Apart'
  BY <1>1, <1>2, <1>5 DEF Apart
<1> QED
  BY <1>1, <1>4, <1>6 DEF MishapInv, Quiet, Calm

\* The file of an unfinished installation gets what it lacks.
LEMMA InstalledFills ==
  ASSUME NEW swaps \in BOOLEAN, TellInv, MishapInv(swaps), NEW d \in Sites,
         UNCHANGED <<manifest, bundle, mishaps>>, manifest[d] # None,
         manifest[d].state = "initializing", \A e \in Sites \ {d} : db'[e] = db[e],
         \/ db'[d] = db[d]
         \/ db'[d].id = None
         \/ /\ db'[d] # None /\ db'[d].id = manifest[d].id /\ db'[d].seeds \subseteq Kinds
            /\ \A e \in Sites \ {d} : manifest[e] # None /\ manifest[e].id = manifest[d].id =>
                  db[d] # None /\ db[d].id = manifest[d].id /\ db[d].seeds \subseteq db'[d].seeds
  PROVE  MishapInv(swaps)'
<1>1. \A e \in Sites : /\ Ready(e) <=> Ready(e)'
                       /\ Ready(e) => db'[e] = db[e]
  BY DEF Ready
<1>2. (Undamaged => Undamaged') /\ (Kept => Kept') /\ (Seeded => Seeded')
  BY <1>1 DEF Undamaged, Kept, Seeded
<1>3. ASSUME Apart
      PROVE  Apart'
  <2> SUFFICES ASSUME NEW x \in Sites, manifest[x] # None, manifest[x].op = "init"
               PROVE  /\ \A e \in Sites : db'[e] # None /\ db'[e].id = manifest[x].id =>
                            db'[e].seeds = Kinds \/ (e = x /\ manifest[x].state = "initializing")
                      /\ \A file \in BundledFiles : file.id = manifest[x].id => file.seeds = Kinds
    BY BundledSame DEF Apart
  <2>1. manifest[x].id # None
    BY NoneApart DEF TellInv, StorageInv, SiteTypes, Manifest
  <2>2. \A e \in Sites : db[e] # None /\ db[e].id = manifest[x].id =>
            db[e].seeds = Kinds \/ (e = x /\ manifest[x].state = "initializing")
    BY <1>3 DEF Apart
  <2>3. db'[d] # None /\ db'[d].id = manifest[x].id =>
            db'[d].seeds = Kinds \/ (d = x /\ manifest[x].state = "initializing")
    BY <2>1, <2>2
  <2> QED
    BY <1>3, <2>2, <2>3 DEF Apart
<1> QED
  BY <1>2, <1>3 DEF MishapInv, Quiet, Calm

\* A complete bundle is restored where there is no database.
LEMMA InstalledRestores ==
  ASSUME NEW swaps \in BOOLEAN, InstalledInv(swaps), NEW d \in Sites, NEW b \in Bundles, Restore(d, b)
  PROVE  MishapInv(swaps)'
<1> USE DEF InstalledInv
<1>1. /\ UNCHANGED <<manifest, mishaps>> /\ db[d] = None /\ Replace(d, bundle[b].db)
      /\ bundle[b].db \in File /\ bundle[b].db \in BundledFiles
  BY DEF Restore, Complete, BundleInv, BundleFits, TellInv, StorageInv, SiteTypes, Begun, BundledFiles
<1>2. db'[d] = bundle[b].db /\ (\A e \in Sites \ {d} : db'[e] = db[e]) /\ BundledFiles' = BundledFiles
  BY <1>1, Replaced, BundlesSame DEF TellInv, StorageInv, SiteTypes
<1>3. \A e \in Sites : Ready(e)' <=> Ready(e)
  BY <1>1 DEF Ready
<1>4. (Undamaged => Undamaged') /\ (Kept => Kept')
  BY <1>1, <1>2, <1>3 DEF Undamaged, Kept
<1>5. Apart => Apart'
  BY <1>1, <1>2 DEF Apart
<1>6. Seeded /\ (Apart \/ Kept) => Seeded'
  BY <1>1, <1>2, <1>3 DEF Seeded, Apart, Kept, Ready
<1> QED
  BY <1>1, <1>4, <1>5, <1>6 DEF MishapInv, Quiet, Calm

\* A file is lost or replaced by the one of another site.
LEMMA InstalledSuffers ==
  ASSUME NEW swaps \in BOOLEAN, TellInv, MishapInv(swaps), NEW d \in Sites,
         Lose(d) \/ (swaps /\ \E e \in Sites : Swap(d, e))
  PROVE  MishapInv(swaps)'
<1>1. /\ UNCHANGED manifest /\ mishaps' = mishaps + 1 /\ mishaps \in Nat /\ db[d] # None
  BY Mishaps DEF Lose, Swap, Mishandle
<1>2. (Calm(swaps)' => Calm(swaps) /\ Quiet(swaps) /\ Apart /\ Seeded)
      /\ (Calm(swaps)' /\ swaps => Undamaged /\ Kept) /\ (Quiet(swaps)' => ~swaps)
  BY <1>1 DEF MishapInv, Quiet, Calm, Undamaged, Kept
<1>3. \A e \in Sites : Ready(e)' <=> Ready(e)
  BY <1>1 DEF Ready
<1>4. CASE Lose(d)
  <2>1. db'[d] = None /\ (\A e \in Sites \ {d} : db'[e] = db[e]) /\ BundledFiles' = BundledFiles
    BY <1>4, Replaced, BundlesSame DEF Lose, Mishandle, TellInv, StorageInv, SiteTypes
  <2>2. \A e \in Sites : db'[e] # None => db'[e] = db[e]
    BY <2>1
  <2>3. (Apart => Apart') /\ (Seeded => Seeded')
    BY <1>1, <1>3, <2>1, <2>2 DEF Apart, Seeded
  <2> QED
    BY <1>1, <1>2, <2>3 DEF MishapInv, Quiet, Calm
<1>5. ASSUME swaps, NEW e \in Sites, Swap(d, e)
      PROVE  MishapInv(swaps)'
  <2>1. /\ db[e] # None /\ db[e].birth # db[d].birth /\ e # d
        /\ db'[d] = db[e] /\ \A x \in Sites \ {d} : db'[x] = db[x]
    BY <1>5, Replaced DEF Swap, Mishandle, TellInv, StorageInv, SiteTypes
  <2>2. ASSUME Calm(swaps)', Ready(d), db[e].id = manifest[d].id
        PROVE  FALSE
    <3>1. db[d] # None /\ db[d].id = manifest[d].id
      BY <1>2, <1>5, <2>2 DEF Undamaged
    <3>2. manifest[d].id # None
      BY <2>2, NoneApart DEF Ready, TellInv, StorageInv, SiteTypes, Manifest
    <3>3. <<db[d].id, db[d].birth>> \in named /\ <<db[e].id, db[e].birth>> \in named
      BY <2>1, <2>2, <3>1, <3>2, DbHeld DEF TellInv, NamesInv, Told
    <3>4. \A p, q \in named : p[1] = q[1] => p[2] = q[2]
      BY DEF TellInv, NamesInv
    <3> DEFINE one == <<db[d].id, db[d].birth>>
               other == <<db[e].id, db[e].birth>>
    <3>5. one[1] = other[1] /\ one[2] # other[2]
      BY <2>1, <2>2, <3>1
    <3> QED
      BY <3>3, <3>4, <3>5
  <2>3. Kept => Kept'
    BY <1>3, <2>1 DEF Kept
  <2>4. Calm(swaps)' /\ Seeded => Seeded'
    BY <1>1, <1>3, <2>1, <2>2 DEF Seeded
  <2> QED
    BY <1>1, <1>2, <1>5, <2>3, <2>4 DEF MishapInv, Quiet, Calm
<1> QED
  BY <1>4, <1>5

\* A backup takes its database from a finished installation.
LEMMA InstalledBacksUp ==
  ASSUME NEW swaps \in BOOLEAN, InstalledInv(swaps), NEW b \in Bundles, BackUp(b)
  PROVE  MishapInv(swaps)'
<1> USE DEF InstalledInv
<1>1. UNCHANGED <<manifest, db, mishaps>>
  BY BackupEffect DEF TellInv
<1>2. PICK run : bundle' = [bundle EXCEPT ![b] = run] /\ Effect(b, run)
  BY BackupEffect DEF TellInv
<1>3. \A c \in Bundles : bundle'[c] = IF c = b THEN run ELSE bundle[c]
  BY <1>2 DEF TellInv, StorageInv, SiteTypes
<1>4. run # None /\ run.db # None => run.db \in BundledFiles \/ \E d \in Sites : Ready(d) /\ run.db = db[d]
  <2> SUFFICES ASSUME run # None, run.db # None, run.db \notin BundledFiles
               PROVE  \E d \in Sites : Ready(d) /\ run.db = db[d]
    OBVIOUS
  <2>1. bundle[b] \in Begun /\ bundle[b] # None /\ bundle[b].site \in Sites /\ run.db = db[bundle[b].site]
    BY <1>2 DEF Effect, BundledFiles
  <2>2. manifest[bundle[b].site] = bundle[b].manifest /\ bundle[b].manifest.state = "ready"
    BY <2>1, StorageAssumption DEF BundleInv, BundleFits
  <2>3. bundle[b].manifest # None
    BY <2>1, NoneApart DEF Begun, Bundle
  <2> QED
    BY <2>1, <2>2, <2>3 DEF Ready
<1>5. \A file \in BundledFiles' : file \in BundledFiles \/ \E d \in Sites : Ready(d) /\ file = db[d]
  BY <1>3, <1>4 DEF BundledFiles
<1>6. Apart => Apart'
  <2> SUFFICES ASSUME Apart, NEW x \in Sites, manifest[x] # None, manifest[x].op = "init",
                      NEW file \in BundledFiles', file.id = manifest[x].id
               PROVE  file.seeds = Kinds
    BY <1>1 DEF Apart
  <2>1. CASE file \in BundledFiles
    BY <2>1 DEF Apart
  <2>2. ASSUME NEW d \in Sites, Ready(d), file = db[d]
        PROVE  file.seeds = Kinds
    <3>1. file # None
      BY DEF BundledFiles
    <3> QED
      BY <2>2, <3>1 DEF Apart, Ready
  <2> QED
    BY <1>5, <2>1, <2>2
<1>7. (Undamaged => Undamaged') /\ (Kept => Kept') /\ (Seeded => Seeded')
  BY <1>1 DEF Undamaged, Kept, Seeded, Ready
<1> QED
  BY <1>1, <1>6, <1>7 DEF MishapInv, Quiet, Calm

LEMMA InstalledStarts ==
  ASSUME NEW swaps \in BOOLEAN, StorageInit
  PROVE  InstalledInv(swaps)
<1>1. TellInv /\ BundleInv
  BY TellStarts, BundleStarts
<1>2. MishapInv(swaps)
  BY DEF StorageInit, MishapInv, Quiet, Calm, Undamaged, Apart, Kept, Seeded, Ready
<1> QED
  BY <1>1, <1>2 DEF InstalledInv

\* The file of one site takes the place of another's.
Exchange == \E d, e \in Sites : Swap(d, e)

LEMMA InstalledInstalls ==
  ASSUME NEW swaps \in BOOLEAN, TellInv, TellInv', MishapInv(swaps), NEW d \in Sites, Install(d)
  PROVE  MishapInv(swaps)'
<1>1. ASSUME BeginInit(d) \/ BeginAdopt(d) \/ BeginResume(d) \/ CopyBeforeAdoption(d) \/ Crash(d)
             \/ \E managed \in BOOLEAN : TakeKey(d, managed)
      PROVE  MishapInv(swaps)'
  <2>1. UNCHANGED <<manifest, db, bundle, mishaps>>
    BY <1>1 DEF BeginInit, BeginAdopt, BeginResume, CopyBeforeAdoption, Crash, TakeKey
  <2> QED
    BY <2>1, BundledSame, MishapStays
<1>2. CASE CreateFile(d)
  BY <1>2, TellCreates, InstalledFills DEF CreateFile
<1>3. CASE CommitSchema(d)
  <2>1. UNCHANGED <<manifest, bundle, mishaps>>
    BY <1>3 DEF CommitSchema
  <2>2. CASE UNCHANGED db
    BY <2>1, <2>2, BundledSame, MishapStays
  <2>3. CASE ~UNCHANGED db
    <3>1. db'[d].seeds \subseteq Kinds
      BY <1>3, <2>3, TellCommits DEF TellInv, StorageInv, SiteTypes, File, FileType
    <3> QED
      BY <1>3, <2>1, <2>3, <3>1, TellCommits, InstalledFills
  <2> QED
    BY <2>2, <2>3
<1>4. CASE SeedFeeds(d) \/ SeedActors(d) \/ SeedRules(d)
  <2>1. \E kind \in Kinds, next \in Steps : Seed(d, kind, next)
    BY <1>4 DEF SeedFeeds, SeedActors, SeedRules, Kinds, Steps, Filling
  <2>2. UNCHANGED <<manifest, bundle, mishaps>> /\ db[d].id = manifest[d].id
    BY <2>1 DEF Seed, At, TellInv, ToolsInv, ToolFits
  <2> QED
    BY <1>4, <2>2, TellSeeds, InstalledFills
<1> QED
  BY <1>1, <1>2, <1>3, <1>4, InstalledSaves, InstalledReady DEF Install

LEMMA InstalledServes ==
  ASSUME NEW swaps \in BOOLEAN, TellInv, MishapInv(swaps), NEW d \in Sites,
         SetUp(d) \/ Write(d) \/ \E others \in BOOLEAN : DeleteAdmins(d, others)
  PROVE  MishapInv(swaps)'
<1>1. UNCHANGED manifest /\ (mishaps' = mishaps \/ mishaps' = mishaps + 1)
  BY DEF SetUp, Write, DeleteAdmins, Mishandle
<1>2. BundledFiles' = BundledFiles
  <2>1. ASSUME NEW others \in BOOLEAN, DeleteAdmins(d, others)
        PROVE  BundledFiles' = BundledFiles
    <3>1. [db[d] EXCEPT !.admin = FALSE, !.users = others] \in File
      BY <2>1, FileDeprived DEF DeleteAdmins, TellInv, StorageInv, SiteTypes
    <3> QED
      BY <2>1, <3>1, BundlesSame DEF DeleteAdmins, Mishandle, TellInv
  <2> QED
    BY <2>1, BundledSame DEF SetUp, Write
<1>3. /\ db[d] # None /\ db'[d] # None /\ db'[d].id = db[d].id
      /\ db'[d].seeds = db[d].seeds /\ \A e \in Sites \ {d} : db'[e] = db[e]
  BY TellWrites, TellServes
<1> QED
  BY <1>1, <1>2, <1>3, MishapStays

LEMMA InstalledGoesOn ==
  ASSUME NEW swaps \in BOOLEAN, InstalledInv(swaps), [StorageNext]_storageVars,
         swaps \/ [~Exchange]_storageVars
  PROVE  InstalledInv(swaps)'
<1> USE DEF InstalledInv
<1>1. TellInv' /\ BundleInv'
  BY TellGoesOn, BundleGoesOn
<1>2. CASE UNCHANGED storageVars
  <2>1. UNCHANGED <<manifest, db, bundle, mishaps>>
    BY <1>2 DEF storageVars
  <2> QED
    BY <1>1, <2>1, BundledSame, MishapStays
<1>3. ASSUME StorageNext, swaps \/ ~Exchange
      PROVE  MishapInv(swaps)'
  <2>1. ASSUME NEW d \in Sites, \/ \E b \in Bundles : Restore(d, b)
                                \/ Lose(d) \/ (swaps /\ \E e \in Sites : Swap(d, e))
        PROVE  MishapInv(swaps)'
    BY <2>1, InstalledRestores, InstalledSuffers
  <2> QED
    BY <1>1, <1>3, <2>1, InstalledInstalls, InstalledServes, InstalledBacksUp DEF StorageNext, Exchange
<1> QED
  BY <1>1, <1>2, <1>3

\* However many mishaps, a finished installation has every table.
TablesThere == \A d \in Sites : Usable(d) => db[d].tables = AllTables

LEMMA InstalledShows ==
  ASSUME NEW swaps \in BOOLEAN, InstalledInv(swaps)
  PROVE  TablesThere /\ (Calm(swaps) => ReadyIsComplete)
<1>1. TablesThere
  <2> SUFFICES ASSUME NEW d \in Sites, Usable(d)
               PROVE  db[d].tables = AllTables
    BY DEF TablesThere
  <2>1. db[d] \in Held /\ db[d].id # None
    BY DbHeld, NoneApart DEF Usable, Accepts, InstalledInv, TellInv, StorageInv, SiteTypes, Manifest
  <2> QED
    BY <2>1 DEF InstalledInv, TellInv, NamesInv, Told
<1> QED
  BY <1>1 DEF InstalledInv, MishapInv, Seeded, Ready, ReadyIsComplete, TablesThere, Usable, Accepts, Kinds

\* What holds with exchanges, of which one mishap at most is one.
LEMMA InstalledStays == StorageSpec => [](TablesThere /\ (mishaps <= 1 => ReadyIsComplete))
<1>1. StorageInit => InstalledInv(TRUE)
  BY InstalledStarts
<1>2. InstalledInv(TRUE) /\ [StorageNext]_storageVars => InstalledInv(TRUE)'
  BY InstalledGoesOn
<1>3. InstalledInv(TRUE) => TablesThere /\ (mishaps <= 1 => ReadyIsComplete)
  BY InstalledShows DEF Calm
<1> QED
  BY <1>1, <1>2, <1>3, PTL DEF StorageSpec

\* A site that is ready and has its own file has every table, whatever happened
\* to its files (database.py:540-559, local.py:156-177).
THEOREM TablesStay == StorageSpec => []TablesThere
BY InstalledStays, PTL

\* An interrupted installation is not taken for a finished one, as long as the
\* operator has lost or exchanged one file at most.  With a second mishap the
\* file of an unfinished installation can be adopted elsewhere, backed up there
\* and restored at home, where nothing tells it from the one that was finished
\* meanwhile (configure_storage.py:124-131,151-163).
THEOREM ReadyMeansComplete == StorageSpec => [](mishaps <= 1 => ReadyIsComplete)
BY InstalledStays, PTL

\* It takes an exchange of files between sites: with any number of losses and
\* of deleted accounts, each followed by any restores and new installations, what
\* is ready is complete.
THEOREM ReadyUnlessExchanged == StorageSpec /\ [][~Exchange]_storageVars => []ReadyIsComplete
<1>1. StorageInit => InstalledInv(FALSE)
  BY InstalledStarts
<1>2. InstalledInv(FALSE) /\ [StorageNext]_storageVars /\ [~Exchange]_storageVars => InstalledInv(FALSE)'
  BY InstalledGoesOn
<1>3. InstalledInv(FALSE) => ReadyIsComplete
  BY InstalledShows DEF Calm
<1> QED
  BY <1>1, <1>2, <1>3, PTL DEF StorageSpec

\* Every site has its kinds of files, and a tool that fills one has the profile
\* and the database file its step works on, whichever tool began the site and
\* died, and whatever was restored or lost before (configure_storage.py:119-143,
\* 146-159).
THEOREM StorageTyped == StorageSpec => [](SiteTypes /\ ToolReady)
<1>1. StorageInit => StorageInv
  BY StorageStarts
<1>2. StorageInv /\ [StorageNext]_storageVars => StorageInv'
  BY StorageGoesOn
<1> QED
  BY <1>1, <1>2, PTL DEF StorageSpec, StorageInv

-----------------------------------------------------------------------------
(* Webhooks                                                                *)

HookIds == 1..MaxHooks
Row == [url : Urls \cup {Masked}, active : BOOLEAN, wants : Preferences]
Edit == [hook : HookIds, url : Urls \cup {Masked}, active : BOOLEAN, wants : Preferences]

TableTypes ==
    /\ created \in 0..MaxHooks
    /\ hooks \in [HookIds -> Row \cup {None}]
    /\ edits \in [Editors -> Edit \cup {None}]
    /\ given \in [HookIds -> SUBSET Urls]

RowsGiven == \A h \in HookIds : hooks[h] # None => h <= created /\ hooks[h].url \in given[h]

EditGiven(e, h) == h <= created /\ (hooks[h] # None => edits[e].url \in given[h])

EditsGiven == \A e \in Editors : edits[e] # None => EditGiven(e, edits[e].hook)

\* What a notification holds, whatever it holds.
IsDelivery(d) ==
    \E rows, news, left, tried, sent, failed, skipped :
        d = [rows |-> rows, news |-> news, left |-> left, tried |-> tried,
             sent |-> sent, failed |-> failed, skipped |-> skipped]

ReadGiven == \A h \in DOMAIN delivery.rows : h \in HookIds /\ delivery.rows[h].url \in given[h]

RowsRead == delivery # None => IsDelivery(delivery) /\ ReadGiven

GivenInv == TableTypes /\ RowsGiven /\ EditsGiven /\ RowsRead

LEMMA GivenInit ==
  ASSUME WebhooksInit
  PROVE  GivenInv
BY WebhooksAssumption DEF WebhooksInit, GivenInv, TableTypes, RowsGiven, EditsGiven, RowsRead, HookIds

LEMMA GivenCreate ==
  ASSUME GivenInv, NEW url \in Urls, NEW active \in BOOLEAN, NEW wants \in Preferences,
         CreateHook(url, active, wants)
  PROVE  GivenInv'
<1> USE DEF GivenInv, CreateHook, HookIds
<1>1. created \in 0..MaxHooks /\ created + 1 \in HookIds
  BY WebhooksAssumption DEF TableTypes
<1>2. NewHook(url, active, wants) \in Row /\ NewHook(url, active, wants).url = url
  BY DEF NewHook, Row
<1>3. /\ \A h \in HookIds : h # created + 1 => hooks'[h] = hooks[h] /\ given'[h] = given[h]
      /\ hooks'[created + 1] = NewHook(url, active, wants) /\ url \in given'[created + 1]
  BY <1>1 DEF TableTypes
<1>4. TableTypes'
  BY <1>1, <1>2 DEF TableTypes
<1>5. RowsGiven'
  BY <1>1, <1>2, <1>3 DEF RowsGiven
<1>6. EditsGiven'
  BY <1>1, <1>3 DEF EditsGiven, EditGiven, TableTypes, Edit
<1>7. \A h \in HookIds : given[h] \subseteq given'[h]
  BY <1>1 DEF TableTypes
<1>8. RowsRead'
  BY <1>7 DEF RowsRead, ReadGiven
<1> QED
  BY <1>4, <1>5, <1>6, <1>8

LEMMA GivenBegin ==
  ASSUME GivenInv, NEW e \in Editors, NEW h \in 1..created, NEW url \in Urls \cup {Masked},
         NEW active \in BOOLEAN, NEW wants \in Preferences,
         BeginUpdate(e, h, url, active, wants)
  PROVE  GivenInv'
<1> USE DEF GivenInv, BeginUpdate, HookIds
<1> DEFINE edit == [hook |-> h, url |-> UrlFor(h, url), active |-> active, wants |-> wants]
<1>1. h \in HookIds /\ UNCHANGED <<hooks, created, delivery>>
  BY WebhooksAssumption DEF TableTypes
<1>2. /\ \A k \in HookIds : given[k] \subseteq given'[k]
      /\ url # Masked => url \in given'[h]
  BY <1>1 DEF TableTypes
<1>3. UrlFor(h, url) \in Urls \cup {Masked}
  BY <1>1 DEF TableTypes, UrlFor, Exists, Row
<1>4. TableTypes'
  BY <1>1, <1>3 DEF TableTypes, Edit
<1>5. RowsGiven'
  BY <1>1, <1>2 DEF RowsGiven
<1>6. hooks[h] # None => UrlFor(h, url) \in given'[h]
  BY <1>1, <1>2 DEF RowsGiven, Exists, UrlFor
<1>7. EditsGiven'
  <2> SUFFICES ASSUME NEW f \in Editors, edits'[f] # None
               PROVE  EditGiven(f, edits[f].hook)'
    BY DEF EditsGiven
  <2>1. CASE f = e
    <3>1. edits'[f] = edit
      BY <2>1 DEF TableTypes
    <3>2. edits'[f].hook = h /\ edits'[f].url = UrlFor(h, url)
      BY <3>1
    <3> QED
      BY <3>2, <1>1, <1>6 DEF EditGiven
  <2>2. CASE f # e
    <3>1. edits'[f] = edits[f]
      BY <2>2 DEF TableTypes
    <3>2. edits[f].hook \in HookIds
      BY <3>1 DEF TableTypes, Edit
    <3> QED
      BY <1>1, <1>2, <3>1, <3>2 DEF EditsGiven, EditGiven
  <2> QED
    BY <2>1, <2>2
<1>8. RowsRead'
  BY <1>1, <1>2 DEF RowsRead, ReadGiven
<1> QED
  BY <1>4, <1>5, <1>7, <1>8

LEMMA GivenFinish ==
  ASSUME GivenInv, NEW e \in Editors, FinishUpdate(e)
  PROVE  GivenInv'
<1> USE DEF GivenInv, FinishUpdate, HookIds
<1> DEFINE h == edits[e].hook
<1>1. h \in HookIds /\ edits[e] \in Edit /\ UNCHANGED <<created, delivery, given>>
  BY DEF TableTypes, Edit
<1>2. \A k \in HookIds : k # h \/ hooks[k] = None => hooks'[k] = hooks[k]
  BY DEF Exists
<1>3. hooks[h] # None => hooks'[h] \in Row /\ hooks'[h].url = edits[e].url
  BY <1>1 DEF Exists, TableTypes, Row, Edit
<1>4. EditGiven(e, h)
  BY DEF EditsGiven
<1>5. TableTypes'
  <2>1. \A k \in HookIds : hooks'[k] \in Row \cup {None}
    BY <1>2, <1>3 DEF TableTypes
  <2> QED
    BY <1>1, <2>1 DEF TableTypes
<1>6. RowsGiven'
  BY <1>1, <1>2, <1>3, <1>4 DEF RowsGiven, EditGiven
<1>7. \A k \in HookIds : hooks'[k] # None => hooks[k] # None
  BY <1>2
<1>8. \A f \in Editors : edits'[f] # None => edits'[f] = edits[f] /\ edits[f].hook \in HookIds
  BY DEF TableTypes, Edit
<1>9. EditsGiven'
  BY <1>1, <1>7, <1>8 DEF EditsGiven, EditGiven
<1>10. RowsRead'
  BY <1>1 DEF RowsRead, ReadGiven
<1> QED
  BY <1>1, <1>5, <1>6, <1>9, <1>10

\* A row that is deleted or toggled keeps its URL, if it stays.
LEMMA GivenChange ==
  ASSUME GivenInv, NEW h \in 1..created, DeleteHook(h) \/ ToggleHook(h)
  PROVE  GivenInv'
<1> USE DEF GivenInv, HookIds
<1>1. h \in HookIds /\ hooks[h] \in Row /\ UNCHANGED <<created, edits, delivery, given>>
  BY WebhooksAssumption DEF TableTypes, DeleteHook, ToggleHook, Exists
<1>2. hooks'[h] = None \/ (hooks'[h] \in Row /\ hooks'[h].url = hooks[h].url)
  <2>1. hooks'[h] = None \/ hooks'[h] = [hooks[h] EXCEPT !.active = ~@]
    BY <1>1 DEF DeleteHook, ToggleHook, TableTypes
  <2> QED
    BY <1>1, <2>1 DEF Row
<1>3. \A k \in HookIds : k # h => hooks'[k] = hooks[k]
  BY <1>1 DEF DeleteHook, ToggleHook, TableTypes
<1>4. hooks[h] # None
  BY DEF DeleteHook, ToggleHook, Exists
<1>5. TableTypes'
  <2>1. hooks' = [k \in HookIds |-> hooks'[k]]
    BY DEF DeleteHook, ToggleHook, TableTypes
  <2> QED
    BY <1>1, <1>2, <1>3, <2>1 DEF TableTypes
<1>6. RowsGiven'
  BY <1>1, <1>2, <1>3, <1>4 DEF RowsGiven
<1>7. EditsGiven'
  BY <1>1, <1>3, <1>4 DEF EditsGiven, EditGiven, TableTypes, Edit
<1>8. RowsRead'
  BY <1>1 DEF RowsRead, ReadGiven
<1> QED
  BY <1>1, <1>5, <1>6, <1>7, <1>8

\* The steps of a notification leave the tables alone.
LEMMA GivenNotification ==
  ASSUME GivenInv, (\E news \in SUBSET Categories : StartDelivery(news)) \/ Post \/ EndDelivery
  PROVE  GivenInv'
<1> USE DEF GivenInv, HookIds
<1>1. UNCHANGED <<hooks, created, edits, given>>
  BY DEF StartDelivery, Post, EndDelivery
<1>2. TableTypes' /\ RowsGiven' /\ EditsGiven'
  BY <1>1 DEF TableTypes, RowsGiven, EditsGiven, EditGiven
<1>3. ASSUME NEW news \in SUBSET Categories, StartDelivery(news)
      PROVE  RowsRead'
  <2> DEFINE read == [h \in {k \in 1..created : Exists(k) /\ hooks[k].active} |-> hooks[h]]
  <2>1. IsDelivery(delivery') /\ delivery'.rows = read
    BY <1>3 DEF StartDelivery, IsDelivery
  <2>2. \A h \in DOMAIN read : h \in HookIds /\ read[h].url \in given[h]
    BY WebhooksAssumption DEF TableTypes, RowsGiven, Exists
  <2> QED
    BY <1>1, <2>1, <2>2 DEF RowsRead, ReadGiven, IsDelivery
<1>4. ASSUME Post
      PROVE  RowsRead'
  <2>1. PICK rows, news, left, tried, sent, failed, skipped :
          delivery = [rows |-> rows, news |-> news, left |-> left, tried |-> tried,
                      sent |-> sent, failed |-> failed, skipped |-> skipped]
    BY <1>4 DEF RowsRead, IsDelivery, Post, Running
  <2>2. IsDelivery(delivery') /\ delivery'.rows = delivery.rows
    BY <1>4, <2>1 DEF Post, IsDelivery
  <2> QED
    BY <1>1, <1>4, <2>2 DEF RowsRead, ReadGiven, Post, Running, IsDelivery
<1>5. ASSUME EndDelivery
      PROVE  RowsRead'
  BY <1>5 DEF EndDelivery, RowsRead
<1> QED
  BY <1>2, <1>3, <1>4, <1>5

LEMMA GivenNext ==
  ASSUME GivenInv, [WebhooksNext]_webhookVars
  PROVE  GivenInv'
<1>1. CASE UNCHANGED webhookVars
  BY <1>1 DEF webhookVars, GivenInv, TableTypes, RowsGiven, EditsGiven, EditGiven, RowsRead, ReadGiven
<1>2. CASE WebhooksNext
  BY <1>2, GivenCreate, GivenBegin, GivenFinish, GivenChange, GivenNotification DEF WebhooksNext
<1> QED
  BY <1>1, <1>2

\* A webhook is stored, and notified, with a URL that was entered for that very
\* row, whatever updates, deletions and creations come between the two
\* transactions of an update (webhook_service.py:171-207).
THEOREM UrlsGiven == WebhooksSpec => []OnlyGivenUrls
<1>1. WebhooksInit => GivenInv
  BY GivenInit
<1>2. GivenInv /\ [WebhooksNext]_webhookVars => GivenInv'
  BY GivenNext
<1>3. GivenInv => OnlyGivenUrls
  BY DEF GivenInv, RowsGiven, RowsRead, ReadGiven, OnlyGivenUrls, Exists, Running, HookIds
<1> QED
  BY <1>1, <1>2, <1>3, PTL DEF WebhooksSpec

\* The rows, the edits under way and the URLs that were entered are of their
\* kinds, whatever of the tables a notification has read.
THEOREM WebhooksTyped == WebhooksSpec => []TableTypes
<1>1. WebhooksInit => GivenInv
  BY GivenInit
<1>2. GivenInv /\ [WebhooksNext]_webhookVars => GivenInv'
  BY GivenNext
<1> QED
  BY <1>1, <1>2, PTL DEF WebhooksSpec, GivenInv

-----------------------------------------------------------------------------
(* What a notification owes and has done                                   *)

\* What is owed is tried or left, counted as it is tried.
Accounted ==
    /\ DOMAIN delivery.rows \subseteq HookIds /\ delivery.news \subseteq Categories
    /\ delivery.left \cup delivery.tried = Owed(delivery.rows, delivery.news)
    /\ delivery.left \cap delivery.tried = {}
    /\ delivery.sent \in Nat /\ delivery.failed \in Nat
    /\ delivery.sent + delivery.failed = Cardinality(delivery.tried)
    /\ delivery.skipped = Cardinality(Skipped(delivery.rows, delivery.news))

TriedInv == GivenInv /\ (delivery # None => Accounted)

LEMMA OwedFinite ==
  ASSUME NEW rows, NEW news \in SUBSET Categories,
         DOMAIN rows \subseteq HookIds
  PROVE  /\ IsFiniteSet(DOMAIN rows) /\ IsFiniteSet(Owed(rows, news))
         /\ Owed(rows, news) \subseteq HookIds \X Categories
<1>1. IsFiniteSet(HookIds)
  BY FS_Interval, WebhooksAssumption DEF HookIds
<1>2. IsFiniteSet(HookIds \X Categories)
  BY <1>1, FS_Product, WebhooksAssumption
<1>3. Owed(rows, news) \subseteq HookIds \X Categories
  BY DEF Owed
<1> QED
  BY <1>1, <1>2, <1>3, FS_Subset

\* Of several posts there is one with the newest row.
LEMMA NewestPost ==
  ASSUME NEW left, left \subseteq HookIds \X Categories, left # {}
  PROVE  \E post \in left : \A other \in left : other[1] <= post[1]
<1> DEFINE ages == {MaxHooks - post[1] : post \in left}
<1>1. \A post \in left : post[1] \in 1..MaxHooks
  BY DEF HookIds
<1>2. ages \subseteq Nat /\ ages # {}
  BY <1>1, WebhooksAssumption
<1>3. PICK age \in ages : \A other \in ages : ~(<<other, age>> \in OpToRel(<, Nat))
  <2> HIDE DEF ages
  <2> QED
    BY <1>2, NatLessThanWellFounded, WFMin
<1>4. \A other \in ages : ~(other < age)
  BY <1>2, <1>3 DEF OpToRel
<1>5. PICK post \in left : age = MaxHooks - post[1]
  BY <1>3
<1>6. ASSUME NEW other \in left
      PROVE  other[1] <= post[1]
  <2>1. MaxHooks - other[1] \in ages
    OBVIOUS
  <2>2. ~(MaxHooks - other[1] < MaxHooks - post[1])
    BY <1>4, <1>5, <2>1
  <2> QED
    BY <1>1, <2>2, WebhooksAssumption
<1> QED
  BY <1>6

LEMMA TriedStarts ==
  ASSUME TriedInv, NEW news \in SUBSET Categories, StartDelivery(news), GivenInv'
  PROVE  TriedInv'
<1> DEFINE rows == [h \in {k \in 1..created : Exists(k) /\ hooks[k].active} |-> hooks[h]]
<1>1. /\ delivery' = [rows |-> rows, news |-> news, left |-> Owed(rows, news), tried |-> {},
                      sent |-> 0, failed |-> 0, skipped |-> Cardinality(Skipped(rows, news))]
  BY DEF StartDelivery
<1>2. DOMAIN rows \subseteq HookIds
  BY WebhooksAssumption DEF TriedInv, GivenInv, TableTypes, HookIds
<1> HIDE DEF rows
<1>3. /\ delivery'.rows = rows /\ delivery'.news = news /\ delivery'.left = Owed(rows, news)
      /\ delivery'.tried = {} /\ delivery'.sent = 0 /\ delivery'.failed = 0
      /\ delivery'.skipped = Cardinality(Skipped(rows, news))
  BY <1>1
<1>4. Accounted'
  BY <1>2, <1>3, FS_EmptySet DEF Accounted
<1> QED
  BY <1>4 DEF TriedInv

LEMMA TriedPosts ==
  ASSUME TriedInv, Post, GivenInv'
  PROVE  TriedInv'
<1> DEFINE post == NextPost
<1>1. delivery # None /\ delivery.left # {} /\ Accounted
  BY DEF TriedInv, GivenInv, Post, Running
<1>2. PICK rows, news, left, tried, sent, failed, skipped :
        delivery = [rows |-> rows, news |-> news, left |-> left, tried |-> tried,
                    sent |-> sent, failed |-> failed, skipped |-> skipped]
  BY <1>1 DEF TriedInv, GivenInv, RowsRead, IsDelivery
<1>3. /\ delivery.rows = rows /\ delivery.news = news /\ delivery.left = left
      /\ delivery.tried = tried /\ delivery.sent = sent /\ delivery.failed = failed
      /\ delivery.skipped = skipped
  BY <1>2
<1>4. /\ IsFiniteSet(Owed(rows, news)) /\ Owed(rows, news) \subseteq HookIds \X Categories
      /\ left \cup tried = Owed(rows, news)
  BY <1>1, <1>3, OwedFinite DEF Accounted
<1>5. post \in left
  <2>1. \E p \in left : \A other \in left : other[1] <= p[1]
    BY <1>1, <1>3, <1>4, NewestPost
  <2> QED
    BY <1>3, <2>1 DEF NextPost
<1>6. PICK more \in {0, 1} :
        delivery' = [rows |-> rows, news |-> news, left |-> left \ {post}, tried |-> tried \cup {post},
                     sent |-> sent + more, failed |-> failed + (1 - more), skipped |-> skipped]
  <2> HIDE DEF post
  <2>1. sent \in Nat /\ failed \in Nat
    BY <1>1, <1>3 DEF Accounted
  <2> USE DEF post
  <2>2. \/ delivery' = [rows |-> rows, news |-> news, left |-> left \ {post}, tried |-> tried \cup {post},
                        sent |-> sent + 1, failed |-> failed, skipped |-> skipped]
        \/ delivery' = [rows |-> rows, news |-> news, left |-> left \ {post}, tried |-> tried \cup {post},
                        sent |-> sent, failed |-> failed + 1, skipped |-> skipped]
    BY <1>2 DEF Post
  <2> HIDE DEF post
  <2>3. CASE delivery'.sent = sent + 1
    BY <2>1, <2>2, <2>3
  <2>4. CASE delivery'.sent # sent + 1
    BY <2>1, <2>2, <2>4
  <2> QED
    BY <2>3, <2>4
<1> HIDE DEF post
<1>7. /\ delivery'.rows = rows /\ delivery'.news = news /\ delivery'.left = left \ {post}
      /\ delivery'.tried = tried \cup {post} /\ delivery'.sent = sent + more
      /\ delivery'.failed = failed + (1 - more) /\ delivery'.skipped = skipped
  BY <1>6
<1>8. IsFiniteSet(tried) /\ post \notin tried
  BY <1>1, <1>3, <1>4, <1>5, FS_Subset DEF Accounted
<1>9. Cardinality(tried \cup {post}) = Cardinality(tried) + 1
  BY <1>8, FS_AddElement
<1>10. Accounted'
  BY <1>1, <1>3, <1>4, <1>5, <1>7, <1>8, <1>9 DEF Accounted
<1> QED
  BY <1>10 DEF TriedInv

LEMMA TriedNext ==
  ASSUME TriedInv, [WebhooksNext]_webhookVars
  PROVE  TriedInv'
<1>1. GivenInv'
  BY GivenNext DEF TriedInv
<1>2. CASE UNCHANGED delivery
  BY <1>1, <1>2 DEF TriedInv, Accounted
<1>3. CASE EndDelivery
  BY <1>1, <1>3 DEF EndDelivery, TriedInv
<1>4. CASE ~UNCHANGED delivery /\ ~EndDelivery
  <2>1. (\E news \in SUBSET Categories : StartDelivery(news)) \/ Post
    BY <1>4 DEF WebhooksNext, webhookVars, CreateHook, BeginUpdate, FinishUpdate, DeleteHook, ToggleHook
  <2> QED
    BY <1>1, <2>1, TriedStarts, TriedPosts
<1> QED
  BY <1>2, <1>3, <1>4

LEMMA TriedAll ==
  ASSUME TriedInv
  PROVE  ChannelsTried
<1> SUFFICES ASSUME delivery # None, delivery.left = {}
             PROVE  ChannelsTried
  BY DEF ChannelsTried, Over, Running
<1> DEFINE rows == delivery.rows
           news == delivery.news
<1>1. Accounted
  BY DEF TriedInv, GivenInv
<1>2. delivery.tried = Owed(rows, news) /\ IsFiniteSet(DOMAIN rows)
  BY <1>1, OwedFinite DEF Accounted
<1>3. \A h \in DOMAIN rows, c \in news : <<h, c>> \in delivery.tried <=> c \in rows[h].wants
  BY <1>2 DEF Owed
<1> DEFINE served == {post[1] : post \in delivery.tried}
           skipped == Skipped(rows, news)
<1>4. served = (DOMAIN rows) \ skipped
  <2>1. \A post \in delivery.tried : post[1] \in DOMAIN rows /\ post[2] \in rows[post[1]].wants \cap news
    BY <1>2 DEF Owed
  <2>2. served \subseteq (DOMAIN rows) \ skipped
    BY <2>1 DEF Skipped
  <2>3. ASSUME NEW h \in (DOMAIN rows) \ skipped
        PROVE  h \in served
    <3>1. PICK c \in news : c \in rows[h].wants
      BY DEF Skipped
    <3>2. <<h, c>> \in delivery.tried
      BY <1>3, <3>1
    <3>3. <<h, c>>[1] = h
      OBVIOUS
    <3> QED
      BY <3>2, <3>3
  <2> QED
    BY <2>2, <2>3
<1>5. skipped \subseteq DOMAIN rows
  BY DEF Skipped
<1>6. Cardinality(skipped) + Cardinality(served) = Cardinality(DOMAIN rows)
  <2> HIDE DEF served, skipped
  <2>1. IsFiniteSet(skipped) /\ IsFiniteSet(served) /\ served \cup skipped = DOMAIN rows
        /\ served \cap skipped = {}
    BY <1>2, <1>4, <1>5, FS_Subset
  <2>2. Cardinality(skipped) \in Nat /\ Cardinality(served) \in Nat /\ Cardinality({}) = 0
    BY <2>1, FS_CardinalityType, FS_EmptySet
  <2>3. Cardinality(served \cup skipped)
            = Cardinality(served) + Cardinality(skipped) - Cardinality(served \cap skipped)
    BY <2>1, FS_Union
  <2>4. Cardinality(served \cap skipped) = 0 /\ Cardinality(served \cup skipped) = Cardinality(DOMAIN rows)
    BY <2>1, <2>2
  <2> QED
    BY <2>2, <2>3, <2>4
<1> QED
  BY <1>1, <1>3, <1>6 DEF ChannelsTried, Accounted

\* One endpoint's failure costs no other its notice, whatever happens to the rows
\* meanwhile, for any number of rows and categories (webhook_service.py:533-589).
THEOREM ChannelsAllTried == WebhooksSpec => []ChannelsTried
<1>1. WebhooksInit => TriedInv
  BY GivenInit DEF WebhooksInit, TriedInv
<1>2. TriedInv /\ [WebhooksNext]_webhookVars => TriedInv'
  BY TriedNext
<1>3. TriedInv => ChannelsTried
  BY TriedAll
<1> QED
  BY <1>1, <1>2, <1>3, PTL DEF WebhooksSpec
=============================================================================
