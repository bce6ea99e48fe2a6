------------------------------ MODULE Inventory ------------------------------
(***************************************************************************)
(* The asset inventory: assets, their software, the CVE assessments linked *)
(* to them with their events, and the two-step CSV import, whose preview   *)
(* is committed later by the administrator who made it.  Every operation   *)
(* is one BEGIN IMMEDIATE transaction, hence one action.  A change carries *)
(* the version its page showed; with another one it is refused and changes *)
(* nothing, so the actions are those of pages that are current.            *)
(*                                                                         *)
(* Identifiers come from AUTOINCREMENT columns: which unused one a record  *)
(* gets is immaterial, so CHOOSE takes one.  Descriptive fields of an asset are *)
(* one value, and so are those of an assessment beside its link.           *)
(***************************************************************************)
EXTENDS Integers, Sequences, FiniteSets, Functions, Absence

CONSTANTS Admins,          \* the actors that preview and commit imports
          AssetIds, SoftwareIds, AssessmentIds,   \* bounds: identifiers
          Names,           \* external identifiers
          Fields,          \* descriptive fields of an asset
          Tuples,          \* vendor, product and version of a software record
          Cves, Statuses,
          Files,           \* the CSV files that are imported: sets of rows
          MaxAssets, MaxSoftware, MaxAssessments, MaxPreviews,
          MaxRevision      \* bound: how often the inventory changes

AssetRow == [name : Names, fields : Fields, archived : BOOLEAN, version : Nat]
SoftwareRow == [asset : AssetIds, tuple : Tuples, version : Nat]
AssessmentRow == [asset : AssetIds, cve : Cves, software : SoftwareIds \cup {None},
                  status : Statuses \cup {"open"}, version : Nat]

ASSUME InventoryAssumption ==
    /\ \A n \in {MaxAssets, MaxSoftware, MaxAssessments, MaxPreviews} : n \in Nat
    /\ \A file \in Files : IsFiniteSet(file) /\ file # {}
    /\ \A file \in Files : \A row \in file :
           /\ row.name \in Names /\ row.fields \in Fields
           /\ row.software \in Tuples \cup {None} /\ row.cves \in SUBSET Cves
    /\ IsFiniteSet(AssetIds) /\ IsFiniteSet(SoftwareIds) /\ IsFiniteSet(AssessmentIds)
    /\ IsFiniteSet(Cves)
    /\ MaxRevision \in Nat /\ Fields # {}
    /\ None \notin AssetIds \cup AssetRow \cup SoftwareRow \cup AssessmentRow

VARIABLES assets, software, assessments,   \* tables: identifier to row or None
          events,      \* the events of each assessment, oldest first
          revision,    \* asset_inventory_state
          imports      \* the latest import preview of each administrator

inventoryVars == <<assets, software, assessments, events, revision, imports>>
tables == <<assets, software, assessments>>

Live(table) == {id \in DOMAIN table : table[id] # None}

Free(table) == DOMAIN table \ Live(table)

Active == {a \in Live(assets) : ~assets[a].archived}

Named(name) == {a \in Live(assets) : assets[a].name = name}

HasSoftware(a, tuple) ==
    \E s \in Live(software) : software[s].asset = a /\ software[s].tuple = tuple

HasCve(a, cve) ==
    \E v \in Live(assessments) : assessments[v].asset = a /\ assessments[v].cve = cve

InventoryInit ==
    /\ assets = [a \in AssetIds |-> None]
    /\ software = [s \in SoftwareIds |-> None]
    /\ assessments = [v \in AssessmentIds |-> None]
    /\ events = [v \in AssessmentIds |-> <<>>]
    /\ revision = 0
    /\ imports = [actor \in Admins |-> None]

BumpBy(n) == revision + n <= MaxRevision /\ revision' = revision + n

BumpInventory == BumpBy(1)

-----------------------------------------------------------------------------
(* Changes of single records                                               *)

NewAsset(name, fields) ==
    [name |-> name, fields |-> fields, archived |-> FALSE, version |-> 1]

CreateAsset(name, fields) ==
    /\ Cardinality(Active) < MaxAssets
    /\ Named(name) = {}
    /\ \E a \in Free(assets) :
          /\ a = CHOOSE id \in Free(assets) : TRUE
          /\ assets' = [assets EXCEPT ![a] = NewAsset(name, fields)]
    /\ BumpInventory
    /\ UNCHANGED <<software, assessments, events, imports>>

Writable(a) == a \in Active

UpdateAsset(a, name, fields) ==
    /\ Writable(a)
    /\ Named(name) \subseteq {a}
    /\ assets' = [assets EXCEPT ![a].name = name, ![a].fields = fields, ![a].version = @ + 1]
    /\ BumpInventory
    /\ UNCHANGED <<software, assessments, events, imports>>

ArchiveAsset(a, archived) ==
    /\ a \in Live(assets)
    /\ ~archived /\ assets[a].archived => Cardinality(Active) < MaxAssets
    /\ assets' = [assets EXCEPT ![a].archived = archived, ![a].version = @ + 1]
    /\ BumpInventory
    /\ UNCHANGED <<software, assessments, events, imports>>

NewSoftware(a, tuple) == [asset |-> a, tuple |-> tuple, version |-> 1]

CreateSoftware(a, tuple) ==
    /\ Writable(a)
    /\ Cardinality(Live(software)) < MaxSoftware
    /\ ~HasSoftware(a, tuple)
    /\ \E s \in Free(software) :
          /\ s = CHOOSE id \in Free(software) : TRUE
          /\ software' = [software EXCEPT ![s] = NewSoftware(a, tuple)]
    /\ BumpInventory
    /\ UNCHANGED <<assets, assessments, events, imports>>

\* Variant: software is deleted while assessments refer to it.
LinkedNowhere(s) == FALSE

Linked(s) == \E v \in Live(assessments) : assessments[v].software = s

ChangeSoftware(s, tuple) ==
    /\ s \in Live(software)
    /\ Writable(software[s].asset)
    /\ tuple # software[s].tuple => ~HasSoftware(software[s].asset, tuple)
    /\ software' = [software EXCEPT ![s].tuple = tuple, ![s].version = @ + 1]
    /\ BumpInventory
    /\ UNCHANGED <<assets, assessments, events, imports>>

\* Variant: a deletion does not count as a change of the inventory.
DeleteSoftwareUncounted(s) ==
    /\ s \in Live(software)
    /\ Writable(software[s].asset)
    /\ ~Linked(s)
    /\ software' = [software EXCEPT ![s] = None]
    /\ UNCHANGED <<assets, assessments, events, imports, revision>>

DeleteSoftware(s) ==
    /\ s \in Live(software)
    /\ Writable(software[s].asset)
    /\ ~Linked(s)
    /\ software' = [software EXCEPT ![s] = None]
    /\ BumpInventory
    /\ UNCHANGED <<assets, assessments, events, imports>>

Linkable(a, s) == s # None => s \in Live(software) /\ software[s].asset = a

NewAssessment(a, cve, s, status) ==
    [asset |-> a, cve |-> cve, software |-> s, status |-> status, version |-> 1]

AssessmentEvent(before, after) == <<[before |-> before, after |-> after]>>

CreateAssessment(a, cve, s, status) ==
    /\ Writable(a)
    /\ Linkable(a, s)
    /\ Cardinality(Live(assessments)) < MaxAssessments
    /\ ~HasCve(a, cve)
    /\ \E v \in Free(assessments) :
          /\ v = CHOOSE id \in Free(assessments) : TRUE
          /\ LET row == NewAssessment(a, cve, s, status) IN
                /\ assessments' = [assessments EXCEPT ![v] = row]
                /\ events' = [events EXCEPT ![v] = AssessmentEvent(None, row)]
    /\ BumpInventory
    /\ UNCHANGED <<assets, software, imports>>

UpdateAssessment(v, s, status) ==
    /\ v \in Live(assessments)
    /\ Writable(assessments[v].asset)
    /\ Linkable(assessments[v].asset, s)
    /\ LET row == [assessments[v] EXCEPT !.software = s, !.status = status, !.version = @ + 1] IN
          /\ assessments' = [assessments EXCEPT ![v] = row]
          /\ events' = [events EXCEPT ![v] = @ \o AssessmentEvent(assessments[v], row)]
    /\ BumpInventory
    /\ UNCHANGED <<assets, software, imports>>

-----------------------------------------------------------------------------
(* The CSV import                                                          *)

\* Rows that repeat an external identifier agree on its asset.
Parsable(file) == \A r1, r2 \in file : r1.name = r2.name => r1.fields = r2.fields

RowsOf(file, name) == {row \in file : row.name = name}

Groups(file) ==
    {[name |-> row.name, fields |-> row.fields,
      software |-> {r.software : r \in RowsOf(file, row.name)} \ {None},
      cves |-> UNION {r.cves : r \in RowsOf(file, row.name)}] : row \in file}

Created(groups) == {g \in groups : Named(g.name) = {}}

SoftwareAdded(g) == {t \in g.software : \A a \in Named(g.name) : ~HasSoftware(a, t)}

CvesAdded(g) == {cve \in g.cves : \A a \in Named(g.name) : ~HasCve(a, cve)}

\* The pairs of a group and one of its parts.
Pairs(groups, Part(_)) == UNION {{g} \X Part(g) : g \in groups}

Summary(groups) ==
    [created |-> Cardinality(Created(groups)),
     merged |-> Cardinality(groups \ Created(groups)),
     software |-> Cardinality(Pairs(groups, SoftwareAdded)),
     cves |-> Cardinality(Pairs(groups, CvesAdded))]

\* No identifier belongs to an archived asset, and the three limits hold.
Importable(groups) ==
    LET summary == Summary(groups) IN
    /\ \A g \in groups : Named(g.name) \subseteq Active
    /\ Cardinality(Active) + summary.created <= MaxAssets
    /\ Cardinality(Live(software)) + summary.software <= MaxSoftware
    /\ Cardinality(Live(assessments)) + summary.cves <= MaxAssessments

\* A preview that was committed or has expired; the next preview of anybody
\* deletes it.
Spent == [state |-> "spent"]

IsOpen(preview) == preview # None /\ preview.state = "open"

\* The previews left once the spent ones and the actor's own are deleted.
Pending(previews, actor) == {other \in Admins \ {actor} : IsOpen(previews[other])}

Replaced(previews, actor, preview) ==
    [other \in Admins |-> CASE other = actor -> preview
                           [] other \in Pending(previews, actor) -> previews[other]
                           [] OTHER -> None]

PreviewImport(actor, file) ==
    /\ Parsable(file)
    /\ Cardinality(Pending(imports, actor)) < MaxPreviews
    /\ Importable(Groups(file))
    /\ imports' = Replaced(imports, actor,
                          [state |-> "open", groups |-> Groups(file), revision |-> revision,
                           summary |-> Summary(Groups(file))])
    /\ UNCHANGED <<tables, events, revision>>

ExpireImport(actor) ==
    /\ IsOpen(imports[actor])
    /\ imports' = [imports EXCEPT ![actor] = Spent]
    /\ UNCHANGED <<tables, events, revision>>

\* An unused identifier for every new row.
Place(new, table) == CHOOSE place \in Injection(new, Free(table)) : TRUE

Insert(table, place, Row(_)) ==
    [id \in DOMAIN table |->
        IF \E new \in DOMAIN place : place[new] = id
        THEN Row(CHOOSE new \in DOMAIN place : place[new] = id)
        ELSE table[id]]

\* Bound: the model has enough identifiers for what is new.
Room(new, table) == Cardinality(new) <= Cardinality(Free(table))

CommitImport(actor) ==
    LET preview == imports[actor]
        groups == preview.groups
        newAssets == Created(groups)
        newSoftware == Pairs(groups, SoftwareAdded)
        newCves == Pairs(groups, CvesAdded)
        place == Place(newAssets, assets)
        IdOf(g) == IF g \in newAssets THEN place[g] ELSE CHOOSE a \in Named(g.name) : TRUE
        Merged(g) ==
            IF g \in newAssets THEN NewAsset(g.name, g.fields)
            ELSE [assets[IdOf(g)] EXCEPT !.fields = g.fields, !.version = @ + 1]
        Installed(pair) == NewSoftware(IdOf(pair[1]), pair[2])
        Suspected(pair) == NewAssessment(IdOf(pair[1]), pair[2], None, "open")
        cvePlace == Place(newCves, assessments)
    IN
    /\ IsOpen(preview)
    /\ preview.revision = revision
    /\ Importable(groups)
    /\ Room(newAssets, assets) /\ Room(newSoftware, software) /\ Room(newCves, assessments)
    /\ assets' = Insert(assets, [g \in groups |-> IdOf(g)], Merged)
    /\ software' = Insert(software, Place(newSoftware, software), Installed)
    /\ assessments' = Insert(assessments, cvePlace, Suspected)
    /\ events' = Insert(events, cvePlace, LAMBDA pair : AssessmentEvent(None, Suspected(pair)))
    /\ BumpBy(Cardinality(groups) + Cardinality(newSoftware) + Cardinality(newCves))
    /\ imports' = [imports EXCEPT ![actor] = Spent]

InventoryNext ==
    \/ \E name \in Names, fields \in Fields : CreateAsset(name, fields)
    \/ \E a \in AssetIds, name \in Names, fields \in Fields : UpdateAsset(a, name, fields)
    \/ \E a \in AssetIds, archived \in BOOLEAN : ArchiveAsset(a, archived)
    \/ \E a \in AssetIds, tuple \in Tuples : CreateSoftware(a, tuple)
    \/ \E s \in SoftwareIds, tuple \in Tuples : ChangeSoftware(s, tuple)
    \/ \E s \in SoftwareIds : DeleteSoftware(s)
    \/ \E a \in AssetIds, cve \in Cves, s \in SoftwareIds \cup {None}, status \in Statuses :
           CreateAssessment(a, cve, s, status)
    \/ \E v \in AssessmentIds, s \in SoftwareIds \cup {None}, status \in Statuses :
           UpdateAssessment(v, s, status)
    \/ \E actor \in Admins, file \in Files : PreviewImport(actor, file)
    \/ \E actor \in Admins : ExpireImport(actor) \/ CommitImport(actor)

-----------------------------------------------------------------------------
\* The type invariant.
InventoryTypes ==
    /\ assets \in [AssetIds -> AssetRow \cup {None}]
    /\ software \in [SoftwareIds -> SoftwareRow \cup {None}]
    /\ assessments \in [AssessmentIds -> AssessmentRow \cup {None}]
    /\ DOMAIN events = AssessmentIds
    /\ revision \in 0..MaxRevision
    /\ \A actor \in Admins : IsOpen(imports[actor]) => imports[actor].revision \in 0..revision

\* An administrator commits what the preview showed: as long as the inventory
\* has the revision of the preview, the commit is accepted as a whole and
\* creates, merges and adds what the summary counted (asset_service.py:344-418).
\* Whatever outdates a preview must therefore raise the revision.
ImportAsPreviewed ==
    \A actor \in Admins :
        LET preview == imports[actor] IN
        IsOpen(preview) /\ preview.revision = revision =>
            Importable(preview.groups) /\ Summary(preview.groups) = preview.summary

\* The assessment workflow is traced without a gap, whether a row was entered,
\* changed or imported: the events of a row start with its creation, each
\* continues the one before, the last one gives the row, whose version counts
\* them (asset_service.py:238-283); and the software a row refers to exists and
\* belongs to the same asset (asset_service.py:233-235, 222).
AssessmentsTraced ==
    \A v \in AssessmentIds :
        LET n == Len(events[v]) IN
        IF assessments[v] = None THEN n = 0
        ELSE /\ n = assessments[v].version
             /\ events[v][1].before = None
             /\ events[v][n].after = assessments[v]
             /\ \A i \in 2..n : events[v][i].before = events[v][i - 1].after
             /\ Linkable(assessments[v].asset, assessments[v].software)
=============================================================================
