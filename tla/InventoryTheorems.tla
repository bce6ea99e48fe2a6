-------------------------- MODULE InventoryTheorems --------------------------
(***************************************************************************)
(* The inventory and the discovered hosts, for every set of assets, files  *)
(* and addresses and every limit.                                          *)
(*                                                                         *)
(* Imports: a preview that is still of the present revision is committed   *)
(* as it was shown. Each step that changes a table raises the revision,    *)
(* the import of files and of discovered hosts included, so a preview of   *)
(* the present revision was computed from the present tables (AssetsInv).  *)
(*                                                                         *)
(* Assessments: every path that writes one appends the event that leads    *)
(* from the row before to the row after, and software that is linked to is *)
(* unlinked before it is gone (TraceInv).                                  *)
(*                                                                         *)
(* Selections: what a commit compares is enough. The candidate of an open  *)
(* preview is there and cannot grow old, one that has its version is the   *)
(* row that was shown, and as long as the revision stays the selection     *)
(* suits the assets (ReviewInv).                                           *)
(*                                                                         *)
(* The tables as a whole: they keep their keys, their owners and their     *)
(* limits. One check stands before the many rows of an import, which get   *)
(* unused identifiers (AssetsGrow, WholeInv); and the room for evidence is *)
(* that of the previews of the present revision (EvidenceInv).             *)
(***************************************************************************)
EXTENDS Discovery, FiniteSetTheorems, FunctionTheorems, SequenceTheorems, TLAPS

\* The parts of a group are finite, so that its rows can be counted.
GroupFinite(g) == IsFiniteSet(g.software) /\ IsFiniteSet(g.cves)

GroupsFinite(groups) ==
    groups # {} /\ IsFiniteSet(groups) /\ \A g \in groups : GroupFinite(g)

\* What holds of an open preview, whichever revision it is of.
PreviewKnown(preview) == preview.revision \in 0..revision /\ GroupsFinite(preview.groups)

AsShown(preview) ==
    preview.revision = revision =>
        Importable(preview.groups) /\ Summary(preview.groups) = preview.summary

ImportInv ==
    /\ revision \in Nat
    /\ imports = [actor \in Admins |-> imports[actor]]
    /\ \A actor \in Admins :
          IsOpen(imports[actor]) => PreviewKnown(imports[actor]) /\ AsShown(imports[actor])

\* What is selected for an import is a sequence that is not empty.
SelectionInv ==
    /\ selections = [actor \in Admins |-> selections[actor]]
    /\ \A actor \in Admins : IsOpen(selections[actor]) =>
          \E S : selections[actor].items \in Seq(S) /\ Len(selections[actor].items) > 0

AssetsInv == ImportInv /\ SelectionInv

-----------------------------------------------------------------------------
\* The image of a finite set under a function.
LEMMA FiniteImage ==
  ASSUME NEW S, IsFiniteSet(S), NEW f, f = [x \in S |-> f[x]]
  PROVE  IsFiniteSet({f[x] : x \in S})
<1>1. f \in Surjection(S, {f[x] : x \in S})
  BY DEF Surjection
<1> QED
  BY <1>1, FS_Surjection

LEMMA GroupsOfFile ==
  ASSUME NEW file \in Files
  PROVE  GroupsFinite(Groups(file))
<1> USE InventoryAssumption
<1>1. IsFiniteSet(file) /\ file # {}
  OBVIOUS
<1> DEFINE GroupOf == [row \in file |->
              [name |-> row.name, fields |-> row.fields,
               software |-> {r.software : r \in RowsOf(file, row.name)} \ {None},
               cves |-> UNION {r.cves : r \in RowsOf(file, row.name)}]]
<1>2. Groups(file) = {GroupOf[row] : row \in file}
  BY DEF Groups
<1>3. IsFiniteSet({GroupOf[row] : row \in file})
  <2>1. GroupOf = [row \in file |-> GroupOf[row]]
    OBVIOUS
  <2> HIDE DEF GroupOf
  <2> QED
    BY <1>1, <2>1, FiniteImage
<1>4. ASSUME NEW row \in file
      PROVE  GroupFinite(GroupOf[row])
  <2> DEFINE rows == RowsOf(file, row.name)
             tupleOf == [r \in rows |-> r.software]
  <2>1. IsFiniteSet(rows)
    BY <1>1, FS_Subset DEF RowsOf
  <2>2. IsFiniteSet({tupleOf[r] : r \in rows})
    <3>1. tupleOf = [r \in rows |-> tupleOf[r]]
      OBVIOUS
    <3> HIDE DEF tupleOf, rows
    <3> QED
      BY <2>1, <3>1, FiniteImage
  <2>3. {r.software : r \in rows} \ {None} \subseteq {tupleOf[r] : r \in rows}
    OBVIOUS
  <2>4. IsFiniteSet({r.software : r \in rows} \ {None})
    BY <2>2, <2>3, FS_Subset
  <2>5. UNION {r.cves : r \in rows} \subseteq Cves
    BY DEF RowsOf
  <2>6. IsFiniteSet(UNION {r.cves : r \in rows})
    BY <2>5, FS_Subset
  <2> QED
    BY <2>4, <2>6 DEF GroupFinite
<1> HIDE DEF GroupOf
<1> QED
  BY <1>1, <1>2, <1>3, <1>4 DEF GroupsFinite

LEMMA FinitePairs ==
  ASSUME NEW groups, IsFiniteSet(groups), NEW part, \A g \in groups : IsFiniteSet(part[g])
  PROVE  IsFiniteSet(UNION {{g} \X part[g] : g \in groups})
<1> DEFINE pairsOf == [g \in groups |-> {g} \X part[g]]
<1>1. IsFiniteSet({pairsOf[g] : g \in groups})
  <2>1. pairsOf = [g \in groups |-> pairsOf[g]]
    OBVIOUS
  <2> HIDE DEF pairsOf
  <2> QED
    BY <2>1, FiniteImage
<1>2. \A g \in groups : IsFiniteSet(pairsOf[g])
  BY FS_Product, FS_Singleton
<1>3. IsFiniteSet(UNION {pairsOf[g] : g \in groups})
  <2> HIDE DEF pairsOf
  <2> QED
    BY <1>1, <1>2, FS_UNION
<1> QED
  BY <1>3

\* A commit adds finitely many rows, and changes at least one asset.
LEMMA PairsFinite ==
  ASSUME NEW groups, GroupsFinite(groups)
  PROVE  IsFiniteSet(Pairs(groups, SoftwareAdded)) /\ IsFiniteSet(Pairs(groups, CvesAdded))
<1>1. IsFiniteSet(Pairs(groups, SoftwareAdded))
  <2> DEFINE part == [g \in groups |-> SoftwareAdded(g)]
  <2>1. \A g \in groups : IsFiniteSet(part[g])
    BY FS_Subset DEF GroupsFinite, GroupFinite, SoftwareAdded
  <2>2. IsFiniteSet(UNION {{g} \X part[g] : g \in groups})
    <3> HIDE DEF part
    <3> QED
      BY <2>1, FinitePairs DEF GroupsFinite
  <2> QED
    BY <2>2 DEF Pairs
<1>2. IsFiniteSet(Pairs(groups, CvesAdded))
  <2> DEFINE part == [g \in groups |-> CvesAdded(g)]
  <2>1. \A g \in groups : IsFiniteSet(part[g])
    BY FS_Subset DEF GroupsFinite, GroupFinite, CvesAdded
  <2>2. IsFiniteSet(UNION {{g} \X part[g] : g \in groups})
    <3> HIDE DEF part
    <3> QED
      BY <2>1, FinitePairs DEF GroupsFinite
  <2> QED
    BY <2>2 DEF Pairs
<1> QED
  BY <1>1, <1>2

LEMMA CommitCounts ==
  ASSUME NEW groups, GroupsFinite(groups)
  PROVE  /\ Cardinality(groups) \in Nat /\ Cardinality(groups) > 0
         /\ Cardinality(Pairs(groups, SoftwareAdded)) \in Nat
         /\ Cardinality(Pairs(groups, CvesAdded)) \in Nat
BY PairsFinite, FS_CardinalityType, FS_EmptySet DEF GroupsFinite

-----------------------------------------------------------------------------
\* A preview keeps what it showed while the tables stay.
LEMMA ShownWhileUnchanged ==
  ASSUME UNCHANGED <<tables, revision>>, NEW preview, AsShown(preview)
  PROVE  AsShown(preview)'
<1>1. assets' = assets /\ software' = software /\ assessments' = assessments /\ revision' = revision
  BY DEF tables
<1> QED
  BY <1>1 DEF AsShown, Importable, Summary, Created, SoftwareAdded, CvesAdded, Pairs, HasSoftware,
              HasCve, Named, Active, Live

\* A step that raises the revision outdates every preview it leaves.
LEMMA Outdating ==
  ASSUME ImportInv, revision' \in Nat, revision' > revision,
         imports' = [actor \in Admins |-> imports'[actor]],
         \A actor \in Admins : IsOpen(imports'[actor]) => imports'[actor] = imports[actor]
  PROVE  ImportInv'
<1> SUFFICES ASSUME NEW actor \in Admins, IsOpen(imports'[actor])
             PROVE  PreviewKnown(imports[actor])' /\ AsShown(imports[actor])'
  BY DEF ImportInv, IsOpen
<1>1. imports'[actor] = imports[actor]
  OBVIOUS
<1>2. PreviewKnown(imports[actor]) /\ imports[actor].revision \in 0..revision
  BY <1>1 DEF ImportInv, PreviewKnown
<1>3. PreviewKnown(imports[actor])'
  BY <1>1, <1>2 DEF PreviewKnown, ImportInv, GroupsFinite, GroupFinite
<1>4. AsShown(imports[actor])'
  BY <1>1, <1>2 DEF AsShown, ImportInv
<1> QED
  BY <1>3, <1>4

\* A step that leaves the tables makes previews only of what they hold.
LEMMA Keeping ==
  ASSUME ImportInv, UNCHANGED <<tables, revision>>,
         imports' = [actor \in Admins |-> imports'[actor]],
         \A actor \in Admins : IsOpen(imports'[actor]) =>
            \/ imports'[actor] = imports[actor]
            \/ PreviewKnown(imports'[actor]) /\ AsShown(imports'[actor])
  PROVE  ImportInv'
<1>1. revision' = revision /\ revision \in Nat
  BY DEF ImportInv
<1> SUFFICES ASSUME NEW actor \in Admins, IsOpen(imports'[actor])
             PROVE  PreviewKnown(imports[actor])' /\ AsShown(imports[actor])'
  BY <1>1 DEF ImportInv, IsOpen
<1>2. PreviewKnown(imports'[actor]) /\ AsShown(imports'[actor])
  BY DEF ImportInv
<1>3. PreviewKnown(imports[actor])'
  BY <1>1, <1>2 DEF PreviewKnown, GroupsFinite, GroupFinite
<1>4. PICK preview : preview = imports'[actor]
  OBVIOUS
<1>5. AsShown(preview)'
  BY <1>2, <1>4, ShownWhileUnchanged
<1>6. AsShown(imports[actor])'
  BY <1>4, <1>5
<1> QED
  BY <1>3, <1>6

-----------------------------------------------------------------------------
(* The steps                                                               *)

\* Changes of single records.
LEMMA ChangeRaises ==
  ASSUME ImportInv,
         \/ \E name \in Names, fields \in Fields : CreateAsset(name, fields)
         \/ \E a \in AssetIds, name \in Names, fields \in Fields : UpdateAsset(a, name, fields)
         \/ \E a \in AssetIds, archived \in BOOLEAN : ArchiveAsset(a, archived)
         \/ \E a \in AssetIds, tuple \in Tuples : CreateSoftware(a, tuple)
         \/ \E s \in SoftwareIds, tuple \in Tuples : ChangeSoftware(s, tuple)
         \/ \E s \in SoftwareIds : DeleteSoftware(s)
         \/ \E a \in AssetIds, cve \in Cves, s \in SoftwareIds \cup {None}, status \in Statuses :
                CreateAssessment(a, cve, s, status)
         \/ \E v \in AssessmentIds, s \in SoftwareIds \cup {None}, status \in Statuses :
                UpdateAssessment(v, s, status)
  PROVE  revision' \in Nat /\ revision' > revision /\ UNCHANGED imports
<1>1. BumpInventory /\ UNCHANGED imports
  BY DEF CreateAsset, UpdateAsset, ArchiveAsset, CreateSoftware, ChangeSoftware, DeleteSoftware,
         CreateAssessment, UpdateAssessment
<1> QED
  BY <1>1 DEF BumpInventory, BumpBy, ImportInv

LEMMA ChangeOutdates ==
  ASSUME ImportInv,
         \/ \E name \in Names, fields \in Fields : CreateAsset(name, fields)
         \/ \E a \in AssetIds, name \in Names, fields \in Fields : UpdateAsset(a, name, fields)
         \/ \E a \in AssetIds, archived \in BOOLEAN : ArchiveAsset(a, archived)
         \/ \E a \in AssetIds, tuple \in Tuples : CreateSoftware(a, tuple)
         \/ \E s \in SoftwareIds, tuple \in Tuples : ChangeSoftware(s, tuple)
         \/ \E s \in SoftwareIds : DeleteSoftware(s)
         \/ \E a \in AssetIds, cve \in Cves, s \in SoftwareIds \cup {None}, status \in Statuses :
                CreateAssessment(a, cve, s, status)
         \/ \E v \in AssessmentIds, s \in SoftwareIds \cup {None}, status \in Statuses :
                UpdateAssessment(v, s, status)
  PROVE  ImportInv'
BY ChangeRaises, Outdating DEF ImportInv

\* A preview takes the place of its actor's own and of the spent ones.
LEMMA ReplacedOwn ==
  ASSUME NEW previews, NEW actor \in Admins, NEW preview
  PROVE  Replaced(previews, actor, preview)[actor] = preview
<1>1. actor \notin Pending(previews, actor)
  BY DEF Pending
<1> QED
  BY <1>1 DEF Replaced

\* A preview that was made or spent leaves the others, or deletes them.
LEMMA PreviewKeeps ==
  ASSUME ImportInv, NEW actor \in Admins, NEW file \in Files, PreviewImport(actor, file)
  PROVE  ImportInv'
<1> DEFINE shown == [state |-> "open", groups |-> Groups(file), revision |-> revision,
                     summary |-> Summary(Groups(file))]
<1>1. PreviewKnown(shown)
  BY GroupsOfFile DEF PreviewKnown, ImportInv
<1>2. AsShown(shown)
  BY DEF AsShown, PreviewImport
<1>3. imports' = [other \in Admins |-> imports'[other]]
  BY DEF PreviewImport, Replaced
<1>4. imports'[actor] = shown
  BY ReplacedOwn DEF PreviewImport
<1>5. \A other \in Admins : other # actor => imports'[other] \in {imports[other], None}
  BY DEF PreviewImport, Replaced
<1>6. ~IsOpen(None)
  BY DEF IsOpen
<1> HIDE DEF shown
<1>7. \A other \in Admins : IsOpen(imports'[other]) =>
          imports'[other] = imports[other] \/ (PreviewKnown(imports'[other]) /\ AsShown(imports'[other]))
  BY <1>1, <1>2, <1>4, <1>5, <1>6
<1>8. UNCHANGED <<tables, revision>>
  BY DEF PreviewImport
<1> QED
  BY <1>3, <1>7, <1>8, Keeping

LEMMA SpentNotOpen == ~IsOpen(Spent)
BY DEF IsOpen, Spent

LEMMA ExpiryKeeps ==
  ASSUME ImportInv, NEW actor \in Admins, ExpireImport(actor)
  PROVE  ImportInv'
<1>1. imports' = [imports EXCEPT ![actor] = Spent] /\ UNCHANGED <<tables, revision>>
  BY DEF ExpireImport
<1>2. imports' = [other \in Admins |-> imports'[other]]
  BY <1>1 DEF ImportInv
<1>3. \A other \in Admins : IsOpen(imports'[other]) => imports'[other] = imports[other]
  BY <1>1, SpentNotOpen DEF ImportInv
<1> QED
  BY <1>1, <1>2, <1>3, Keeping

LEMMA CommitRaises ==
  ASSUME ImportInv, NEW actor \in Admins, CommitImport(actor)
  PROVE  revision' \in Nat /\ revision' > revision
<1> DEFINE groups == imports[actor].groups
           n == Cardinality(groups) + Cardinality(Pairs(groups, SoftwareAdded))
                    + Cardinality(Pairs(groups, CvesAdded))
<1>1. IsOpen(imports[actor]) /\ BumpBy(n)
  BY DEF CommitImport
<1>2. GroupsFinite(groups)
  BY <1>1 DEF ImportInv, PreviewKnown
<1>3. n \in Nat /\ n > 0
  BY <1>2, CommitCounts
<1> QED
  BY <1>1, <1>3 DEF BumpBy, ImportInv

LEMMA CommitOutdates ==
  ASSUME ImportInv, NEW actor \in Admins, CommitImport(actor)
  PROVE  ImportInv'
<1>1. imports' = [imports EXCEPT ![actor] = Spent]
  BY DEF CommitImport
<1>2. imports' = [other \in Admins |-> imports'[other]]
  BY <1>1 DEF ImportInv
<1>3. \A other \in Admins : IsOpen(imports'[other]) => imports'[other] = imports[other]
  BY <1>1, SpentNotOpen DEF ImportInv
<1> QED
  BY <1>2, <1>3, CommitRaises, Outdating

LEMMA SelectionRaises ==
  ASSUME AssetsInv, NEW actor \in Admins, CommitSelection(actor)
  PROVE  revision' \in Nat /\ revision' > revision
<1> DEFINE items == selections[actor].items
<1>1. IsOpen(selections[actor]) /\ BumpBy(Len(items) + Cardinality(CreatedIn(items)))
  BY DEF CommitSelection
<1>2. PICK S : items \in Seq(S) /\ Len(items) > 0
  BY <1>1 DEF AssetsInv, SelectionInv
<1>3. Len(items) \in Nat /\ DOMAIN items = 1..Len(items)
  BY <1>2
<1>4. IsFiniteSet(1..Len(items))
  BY <1>3, FS_Interval
<1>5. IsFiniteSet(CreatedIn(items))
  BY <1>3, <1>4, FS_Subset DEF CreatedIn
<1>6. Cardinality(CreatedIn(items)) \in Nat
  BY <1>5, FS_CardinalityType
<1> QED
  BY <1>1, <1>2, <1>3, <1>6 DEF BumpBy, AssetsInv, ImportInv

LEMMA SelectionOutdates ==
  ASSUME AssetsInv, NEW actor \in Admins, CommitSelection(actor)
  PROVE  ImportInv'
<1>1. UNCHANGED imports
  BY DEF CommitSelection
<1> QED
  BY <1>1, SelectionRaises, Outdating DEF AssetsInv, ImportInv

\* The selections themselves.
LEMMA SelectionKeeps ==
  ASSUME SelectionInv, AssetsNext
  PROVE  SelectionInv'
<1>1. CASE UNCHANGED selections
  BY <1>1 DEF SelectionInv, IsOpen
<1>2. ASSUME NEW actor \in Admins, selections' = [selections EXCEPT ![actor] = Spent]
      PROVE  SelectionInv'
  BY <1>2, SpentNotOpen DEF SelectionInv, IsOpen
<1>3. ASSUME NEW actor \in Admins, NEW n \in 1..MaxItems, NEW items \in [1..n -> Choices],
             PreviewSelection(actor, items)
      PROVE  SelectionInv'
  <2> DEFINE preview == [state |-> "open", items |-> items, revision |-> revision, policy |-> policy]
  <2>1. items \in Seq(Choices) /\ Len(items) > 0
    BY <1>3
  <2>2. selections' = [other \in Admins |-> selections'[other]]
    BY <1>3 DEF PreviewSelection, Replaced
  <2>3. selections'[actor] = preview
    BY <1>3, ReplacedOwn DEF PreviewSelection
  <2>4. \A other \in Admins : other # actor => selections'[other] \in {selections[other], None}
    BY <1>3 DEF PreviewSelection, Replaced
  <2> QED
    BY <2>1, <2>2, <2>3, <2>4 DEF SelectionInv, IsOpen
<1> QED
  BY <1>1, <1>2, <1>3
     DEF AssetsNext, discoveryVars, DiscoveryNext, RecordObservation, GrowOld, MonthPasses, CleanUp,
         SaveProfile, ChangeNetworkPolicy, ReviewCandidate, ExpireSelection, CommitSelection

LEMMA AssetsGoOn ==
  ASSUME AssetsInv, [AssetsNext]_<<inventoryVars, discoveryVars>>
  PROVE  AssetsInv'
<1> USE DEF AssetsInv
<1>1. ASSUME UNCHANGED inventoryVars
      PROVE  ImportInv'
  BY <1>1, Keeping DEF inventoryVars, tables, ImportInv
<1>2. CASE UNCHANGED <<inventoryVars, discoveryVars>>
  BY <1>1, <1>2 DEF discoveryVars, SelectionInv, IsOpen
<1>3. CASE InventoryNext /\ UNCHANGED discoveryVars
  BY <1>3, ChangeOutdates, PreviewKeeps, ExpiryKeeps, CommitOutdates, SelectionKeeps
     DEF InventoryNext, AssetsNext
<1>4. CASE DiscoveryNext
  <2>1. ImportInv'
    BY <1>1, <1>4, SelectionOutdates
       DEF DiscoveryNext, RecordObservation, GrowOld, MonthPasses, CleanUp, SaveProfile,
           ChangeNetworkPolicy, ReviewCandidate, PreviewSelection, ExpireSelection
  <2> QED
    BY <1>4, <2>1, SelectionKeeps DEF AssetsNext
<1> QED
  BY <1>2, <1>3, <1>4 DEF AssetsNext

LEMMA AssetsStart ==
  ASSUME AssetsInit
  PROVE  AssetsInv
BY DEF AssetsInit, InventoryInit, DiscoveryInit, AssetsInv, ImportInv, SelectionInv, IsOpen

\* What the preview of an import showed is what its commit does, as long as the
\* commit accepts its revision: imports of files and of discovered hosts and
\* changes of single records, by any number of administrators, may come between
\* (asset_service.py:344-418, asset_discovery_service.py:127-173).
THEOREM ImportsAsPreviewed == AssetsSpec => []ImportAsPreviewed
<1>1. AssetsInit => AssetsInv
  BY AssetsStart
<1>2. AssetsInv /\ [AssetsNext]_<<inventoryVars, discoveryVars>> => AssetsInv'
  BY AssetsGoOn
<1>3. AssetsInv => ImportAsPreviewed
  BY DEF AssetsInv, ImportInv, ImportAsPreviewed, AsShown
<1> QED
  BY <1>1, <1>2, <1>3, PTL DEF AssetsSpec

-----------------------------------------------------------------------------
(* Identifiers for new rows                                                *)

\* With room for them there is an unused identifier for every new row.
LEMMA Placed ==
  ASSUME NEW new, NEW table, IsFiniteSet(new), IsFiniteSet(DOMAIN table), Room(new, table)
  PROVE  Place(new, table) \in Injection(new, Free(table))
<1> DEFINE m == Cardinality(new)
           n == Cardinality(Free(table))
<1>1. IsFiniteSet(Free(table))
  BY FS_Subset DEF Free
<1>2. m \in Nat /\ n \in Nat /\ m <= n
  BY <1>1, FS_CardinalityType DEF Room
<1>3. ExistsInjection(new, 1..m)
  BY FS_CardinalityType, Fun_ExistsBijEquiv
<1>4. ExistsInjection(1..n, Free(table))
  BY <1>1, FS_CardinalityType, Fun_ExistsBijEquiv
<1>5. [i \in 1..m |-> i] \in Injection(1..m, 1..n)
  BY <1>2 DEF Injection, IsInjective
<1>6. ExistsInjection(1..m, 1..n)
  BY <1>5, Fun_ExistsInj
<1>7. ExistsInjection(new, Free(table))
  BY <1>3, <1>4, <1>6, Fun_ExistsInjTransitive
<1> QED
  BY <1>7, Fun_ExistsInj DEF Place

-----------------------------------------------------------------------------
(* The trace of the assessments                                            *)

EventRow == [before : AssessmentRow \cup {None}, after : AssessmentRow]

\* A row and its events agree: each event continues the one before.
Traced(row, log) ==
    IF row = None THEN log = <<>>
    ELSE /\ Len(log) = row.version /\ Len(log) > 0
         /\ log[1].before = None /\ log[Len(log)].after = row
         /\ \A i \in 2..Len(log) : log[i].before = log[i - 1].after

TraceTypes ==
    /\ DOMAIN assets = AssetIds
    /\ software \in [SoftwareIds -> SoftwareRow \cup {None}]
    /\ assessments \in [AssessmentIds -> AssessmentRow \cup {None}]
    /\ events \in [AssessmentIds -> Seq(EventRow)]

LinksHold == \A v \in AssessmentIds : assessments[v] # None =>
                 Linkable(assessments[v].asset, assessments[v].software)

\* What a preview adds are known tuples and CVEs.
PartsKnown(preview) ==
    \A g \in preview.groups : g.software \subseteq Tuples /\ g.cves \subseteq Cves

TraceInv ==
    /\ TraceTypes /\ LinksHold
    /\ \A v \in AssessmentIds : Traced(assessments[v], events[v])
    /\ \A actor \in Admins : IsOpen(imports[actor]) => PartsKnown(imports[actor])

LEMMA NewTrace ==
  ASSUME NEW row \in AssessmentRow, row.version = 1
  PROVE  AssessmentEvent(None, row) \in Seq(EventRow) /\ Traced(row, AssessmentEvent(None, row))
BY InventoryAssumption DEF AssessmentEvent, EventRow, Traced

LEMMA LongerTrace ==
  ASSUME NEW row \in AssessmentRow, NEW log \in Seq(EventRow), Traced(row, log),
         NEW next \in AssessmentRow, next.version = row.version + 1
  PROVE  /\ log \o AssessmentEvent(row, next) \in Seq(EventRow)
         /\ Traced(next, log \o AssessmentEvent(row, next))
<1> DEFINE event == [before |-> row, after |-> next]
           longer == log \o <<event>>
<1>1. event \in EventRow
  BY DEF EventRow
<1>2. row # None /\ next # None /\ Len(log) \in Nat /\ Len(log) > 0 /\ row.version = Len(log)
      /\ log[1].before = None /\ log[Len(log)].after = row
      /\ \A i \in 2..Len(log) : log[i].before = log[i - 1].after
  BY InventoryAssumption DEF Traced
<1> HIDE DEF event
<1>3. /\ longer \in Seq(EventRow) /\ Len(longer) = Len(log) + 1
      /\ \A i \in 1..Len(log) : longer[i] = log[i]
      /\ longer[Len(log) + 1] = event
  BY <1>1
<1> HIDE DEF longer
<1>4. event.before = row /\ event.after = next
  BY DEF event
<1>5. \A i \in 2..Len(longer) : longer[i].before = longer[i - 1].after
  <2> SUFFICES ASSUME NEW i \in 2..Len(longer)
               PROVE  longer[i].before = longer[i - 1].after
    OBVIOUS
  <2>1. CASE i = Len(log) + 1
    <3>1. longer[i] = event /\ longer[i - 1] = log[Len(log)]
      BY <1>2, <1>3, <2>1
    <3> QED
      BY <1>2, <1>4, <3>1
  <2>2. CASE i # Len(log) + 1
    <3>1. i \in 2..Len(log) /\ i - 1 \in 1..Len(log)
      BY <1>2, <1>3, <2>2
    <3>2. longer[i] = log[i] /\ longer[i - 1] = log[i - 1]
      BY <1>3, <3>1
    <3> QED
      BY <1>2, <3>1, <3>2
  <2> QED
    BY <2>1, <2>2
<1>6. longer[1].before = None /\ longer[Len(longer)].after = next
  BY <1>2, <1>3, <1>4
<1>7. Traced(next, longer)
  BY <1>2, <1>3, <1>5, <1>6 DEF Traced
<1>8. longer = log \o AssessmentEvent(row, next)
  BY DEF longer, event, AssessmentEvent
<1> QED
  BY <1>3, <1>7, <1>8

\* A changed row is a row of its table, of the same asset.
LEMMA ChangedSoftware ==
  ASSUME NEW old \in SoftwareRow, NEW tuple \in Tuples,
         NEW row, row = [old EXCEPT !.tuple = tuple, !.version = @ + 1]
  PROVE  row \in SoftwareRow /\ row.asset = old.asset
<1>1. /\ old.asset \in AssetIds /\ old.version \in Nat
      /\ old = [asset |-> old.asset, tuple |-> old.tuple, version |-> old.version]
  BY DEF SoftwareRow
<1>2. row = [asset |-> old.asset, tuple |-> tuple, version |-> old.version + 1]
  BY <1>1
<1> QED
  BY <1>1, <1>2 DEF SoftwareRow

Revised(old, s, status) == [old EXCEPT !.software = s, !.status = status, !.version = @ + 1]

LEMMA ChangedAssessment ==
  ASSUME NEW old \in AssessmentRow, NEW s \in SoftwareIds \cup {None}, NEW status \in Statuses,
         NEW row, row = Revised(old, s, status)
  PROVE  row \in AssessmentRow /\ row.version = old.version + 1 /\ row.asset = old.asset /\ row.software = s
<1>1. /\ old.asset \in AssetIds /\ old.cve \in Cves /\ old.version \in Nat
      /\ old = [asset |-> old.asset, cve |-> old.cve, software |-> old.software,
                status |-> old.status, version |-> old.version]
  BY DEF AssessmentRow
<1>2. row = [asset |-> old.asset, cve |-> old.cve, software |-> s, status |-> status,
             version |-> old.version + 1]
  BY <1>1 DEF Revised
<1>3. status \in Statuses \cup {"open"} /\ old.version + 1 \in Nat
  BY <1>1
<1>4. row \in AssessmentRow
  BY <1>1, <1>2, <1>3 DEF AssessmentRow
<1> QED
  BY <1>2, <1>4

\* The assessments stay, and so does what they refer to.
LEMMA TraceStays ==
  ASSUME TraceInv, UNCHANGED <<assessments, events, imports>>, DOMAIN assets' = AssetIds,
         software' \in [SoftwareIds -> SoftwareRow \cup {None}],
         \A v \in AssessmentIds : assessments[v] # None /\ assessments[v].software # None =>
            LET s == assessments[v].software IN
            software[s] # None => software'[s] # None /\ software'[s].asset = software[s].asset
  PROVE  TraceInv'
<1>1. LinksHold'
  BY DEF TraceInv, TraceTypes, LinksHold, Linkable, Live
<1> QED
  BY <1>1 DEF TraceInv, TraceTypes, PartsKnown

\* One assessment is written with its event.
LEMMA TraceWritten ==
  ASSUME TraceInv, UNCHANGED <<assets, software, imports>>, NEW v \in AssessmentIds,
         NEW row \in AssessmentRow, NEW log \in Seq(EventRow), Traced(row, log),
         assessments' = [assessments EXCEPT ![v] = row], events' = [events EXCEPT ![v] = log],
         Linkable(row.asset, row.software)
  PROVE  TraceInv'
<1>1. /\ assessments'[v] = row /\ events'[v] = log
      /\ \A w \in AssessmentIds \ {v} : assessments'[w] = assessments[w] /\ events'[w] = events[w]
  BY DEF TraceInv, TraceTypes
<1>2. TraceTypes'
  BY DEF TraceInv, TraceTypes
<1>3. LinksHold'
  BY <1>1 DEF TraceInv, LinksHold, Linkable, Live
<1>4. \A w \in AssessmentIds : Traced(assessments'[w], events'[w])
  BY <1>1 DEF TraceInv
<1>5. \A w \in AssessmentIds : Traced(assessments[w], events[w])'
  BY <1>4 DEF Traced
<1> QED
  BY <1>2, <1>3, <1>5 DEF TraceInv, PartsKnown

\* Assets come and go.
LEMMA TraceAssets ==
  ASSUME TraceInv,
         \/ \E name \in Names, fields \in Fields : CreateAsset(name, fields)
         \/ \E a \in AssetIds, name \in Names, fields \in Fields : UpdateAsset(a, name, fields)
         \/ \E a \in AssetIds, archived \in BOOLEAN : ArchiveAsset(a, archived)
  PROVE  TraceInv'
<1>1. UNCHANGED <<software, assessments, events, imports>>
  BY DEF CreateAsset, UpdateAsset, ArchiveAsset
<1>2. DOMAIN assets' = AssetIds
  BY DEF TraceInv, TraceTypes, CreateAsset, UpdateAsset, ArchiveAsset
<1> QED
  BY <1>1, <1>2, TraceStays DEF TraceInv, TraceTypes

\* Software that an assessment refers to is not deleted and keeps its asset.
LEMMA TraceSoftware ==
  ASSUME TraceInv,
         \/ \E a \in AssetIds, tuple \in Tuples : CreateSoftware(a, tuple)
         \/ \E s \in SoftwareIds, tuple \in Tuples : ChangeSoftware(s, tuple)
         \/ \E s \in SoftwareIds : DeleteSoftware(s)
  PROVE  TraceInv'
<1>1. UNCHANGED <<assets, assessments, events, imports>>
  BY DEF CreateSoftware, ChangeSoftware, DeleteSoftware
<1>2. PICK s \in SoftwareIds, row \in SoftwareRow \cup {None} :
        /\ software' = [software EXCEPT ![s] = row]
        /\ software[s] # None /\ Linked(s) => row # None /\ row.asset = software[s].asset
  <2>1. ASSUME NEW a \in AssetIds, NEW tuple \in Tuples, CreateSoftware(a, tuple)
        PROVE  \E s \in SoftwareIds, row \in SoftwareRow \cup {None} :
                  /\ software' = [software EXCEPT ![s] = row]
                  /\ software[s] # None /\ Linked(s) => row # None /\ row.asset = software[s].asset
    <3>1. NewSoftware(a, tuple) \in SoftwareRow
      BY DEF NewSoftware, SoftwareRow
    <3> QED
      BY <2>1, <3>1 DEF CreateSoftware, Free, Live, TraceInv, TraceTypes
  <2>2. ASSUME NEW s \in SoftwareIds, NEW tuple \in Tuples, ChangeSoftware(s, tuple)
        PROVE  \E row \in SoftwareRow \cup {None} :
                  /\ software' = [software EXCEPT ![s] = row]
                  /\ software[s] # None /\ Linked(s) => row # None /\ row.asset = software[s].asset
    <3> DEFINE row == [software[s] EXCEPT !.tuple = tuple, !.version = @ + 1]
    <3>1. software[s] \in SoftwareRow
      BY <2>2 DEF ChangeSoftware, Live, TraceInv, TraceTypes
    <3>2. row \in SoftwareRow /\ row.asset = software[s].asset
      BY <3>1, ChangedSoftware
    <3>4. row # None
      BY <3>2, InventoryAssumption
    <3>3. software' = [software EXCEPT ![s] = row]
      BY <2>2, <3>1 DEF ChangeSoftware, TraceInv, TraceTypes, SoftwareRow
    <3> HIDE DEF row
    <3> QED
      BY <3>2, <3>3, <3>4
  <2>3. ASSUME NEW s \in SoftwareIds, DeleteSoftware(s)
        PROVE  \E row \in SoftwareRow \cup {None} :
                  /\ software' = [software EXCEPT ![s] = row]
                  /\ software[s] # None /\ Linked(s) => row # None /\ row.asset = software[s].asset
    BY <2>3 DEF DeleteSoftware
  <2> QED
    BY <2>1, <2>2, <2>3
<1>3. \A v \in AssessmentIds : assessments[v] # None => Linked(s) \/ assessments[v].software # s
  BY DEF Linked, Live, TraceInv, TraceTypes
<1>4. \A v \in AssessmentIds : assessments[v] # None /\ assessments[v].software # None =>
          LET t == assessments[v].software IN
          software[t] # None => software'[t] # None /\ software'[t].asset = software[t].asset
  <2> SUFFICES ASSUME NEW v \in AssessmentIds, assessments[v] # None, assessments[v].software # None,
                      NEW t, t = assessments[v].software, software[t] # None
               PROVE  software'[t] # None /\ software'[t].asset = software[t].asset
    OBVIOUS
  <2>1. t \in SoftwareIds
    BY DEF TraceInv, TraceTypes, AssessmentRow
  <2>2. CASE t = s
    BY <1>2, <1>3, <2>2 DEF TraceInv, TraceTypes
  <2>3. CASE t # s
    BY <1>2, <2>1, <2>3 DEF TraceInv, TraceTypes
  <2> QED
    BY <2>2, <2>3
<1>5. software' \in [SoftwareIds -> SoftwareRow \cup {None}]
  BY <1>2 DEF TraceInv, TraceTypes
<1> QED
  BY <1>1, <1>4, <1>5, TraceStays DEF TraceInv, TraceTypes

LEMMA TraceCreated ==
  ASSUME TraceInv, NEW a \in AssetIds, NEW cve \in Cves, NEW s \in SoftwareIds \cup {None},
         NEW status \in Statuses, CreateAssessment(a, cve, s, status)
  PROVE  TraceInv'
<1> DEFINE row == NewAssessment(a, cve, s, status)
<1>1. row \in AssessmentRow /\ row.version = 1 /\ row.asset = a /\ row.software = s
  BY DEF NewAssessment, AssessmentRow
<1>2. PICK v \in AssessmentIds : /\ assessments' = [assessments EXCEPT ![v] = row]
                                 /\ events' = [events EXCEPT ![v] = AssessmentEvent(None, row)]
  BY DEF CreateAssessment, Free, TraceInv, TraceTypes
<1>3. Linkable(a, s) /\ UNCHANGED <<assets, software, imports>>
  BY DEF CreateAssessment
<1> HIDE DEF row
<1>4. AssessmentEvent(None, row) \in Seq(EventRow) /\ Traced(row, AssessmentEvent(None, row))
  BY <1>1, NewTrace
<1> QED
  BY <1>1, <1>2, <1>3, <1>4, TraceWritten

LEMMA TraceUpdated ==
  ASSUME TraceInv, NEW v \in AssessmentIds, NEW s \in SoftwareIds \cup {None},
         NEW status \in Statuses, UpdateAssessment(v, s, status)
  PROVE  TraceInv'
<1>1. PICK old : old = assessments[v]
  OBVIOUS
<1>2. PICK row : row = Revised(old, s, status)
  OBVIOUS
<1>3. old \in AssessmentRow
  BY <1>1 DEF UpdateAssessment, Live, TraceInv, TraceTypes
<1>4. row \in AssessmentRow /\ row.version = old.version + 1 /\ row.asset = old.asset /\ row.software = s
  BY <1>2, <1>3, ChangedAssessment
<1>5. /\ assessments' = [assessments EXCEPT ![v] = row]
      /\ events' = [events EXCEPT ![v] = events[v] \o AssessmentEvent(old, row)]
      /\ Linkable(old.asset, s) /\ UNCHANGED <<assets, software, imports>>
  BY <1>1, <1>2 DEF UpdateAssessment, TraceInv, TraceTypes, Revised
<1>6. events[v] \in Seq(EventRow) /\ Traced(old, events[v])
  BY <1>1 DEF TraceInv, TraceTypes
<1>7. /\ events[v] \o AssessmentEvent(old, row) \in Seq(EventRow)
      /\ Traced(row, events[v] \o AssessmentEvent(old, row))
  BY <1>3, <1>4, <1>6, LongerTrace
<1> QED
  BY <1>4, <1>5, <1>7, TraceWritten

\* What is previewed is in the file.
LEMMA TracePreviews ==
  ASSUME TraceInv,
         \/ \E actor \in Admins, file \in Files : PreviewImport(actor, file)
         \/ \E actor \in Admins : ExpireImport(actor)
  PROVE  TraceInv'
<1>1. UNCHANGED <<tables, events>>
  BY DEF PreviewImport, ExpireImport
<1>2. ASSUME NEW file \in Files, NEW g \in Groups(file)
      PROVE  g.software \subseteq Tuples /\ g.cves \subseteq Cves
  BY InventoryAssumption DEF Groups, RowsOf
<1>3. ASSUME NEW actor \in Admins, IsOpen(imports'[actor])
      PROVE  \/ \E file \in Files : imports'[actor].groups = Groups(file)
             \/ IsOpen(imports[actor]) /\ imports'[actor] = imports[actor]
  <2>1. ASSUME NEW other \in Admins, NEW file \in Files, PreviewImport(other, file)
        PROVE  \/ imports'[actor].groups = Groups(file)
               \/ IsOpen(imports[actor]) /\ imports'[actor] = imports[actor]
    <3> DEFINE shown == [state |-> "open", groups |-> Groups(file), revision |-> revision,
                         summary |-> Summary(Groups(file))]
    <3>1. imports' = Replaced(imports, other, shown)
      BY <2>1 DEF PreviewImport
    <3>2. shown.groups = Groups(file)
      OBVIOUS
    <3> HIDE DEF shown
    <3>3. imports'[actor] = shown \/ imports'[actor] = imports[actor] \/ imports'[actor] = None
      BY <3>1 DEF Replaced
    <3> QED
      BY <1>3, <3>2, <3>3 DEF IsOpen
  <2>2. ASSUME NEW other \in Admins, ExpireImport(other)
        PROVE  IsOpen(imports[actor]) /\ imports'[actor] = imports[actor]
    <3>1. imports' = [imports EXCEPT ![other] = Spent]
      BY <2>2 DEF ExpireImport
    <3>2. imports'[actor] = Spent \/ imports'[actor] = imports[actor]
      BY <3>1
    <3> QED
      BY <1>3, <3>2, SpentNotOpen
  <2> QED
    BY <2>1, <2>2
<1>4. \A actor \in Admins : IsOpen(imports'[actor]) => PartsKnown(imports'[actor])
  BY <1>2, <1>3 DEF TraceInv, PartsKnown
<1>5. TraceTypes' /\ LinksHold' /\ \A v \in AssessmentIds : Traced(assessments[v], events[v])'
  BY <1>1 DEF tables, TraceInv, TraceTypes, LinksHold, Linkable, Live, Traced
<1> QED
  BY <1>4, <1>5 DEF TraceInv, PartsKnown, IsOpen

\* New rows take unused identifiers; those in use keep their rows.
LEMMA TraceInserted ==
  ASSUME TraceInv, DOMAIN assets' = AssetIds,
         software' \in [SoftwareIds -> SoftwareRow \cup {None}],
         \A s \in SoftwareIds : software[s] # None => software'[s] = software[s],
         assessments' = [v \in AssessmentIds |-> assessments'[v]],
         events' = [v \in AssessmentIds |-> events'[v]],
         \A v \in AssessmentIds :
            \/ assessments'[v] = assessments[v] /\ events'[v] = events[v]
            \/ \E row \in AssessmentRow : /\ row.version = 1 /\ row.software = None
                                          /\ assessments'[v] = row
                                          /\ events'[v] = AssessmentEvent(None, row),
         \A actor \in Admins : IsOpen(imports'[actor]) => imports'[actor] = imports[actor]
  PROVE  TraceInv'
<1>1. ASSUME NEW v \in AssessmentIds
      PROVE  /\ assessments'[v] \in AssessmentRow \cup {None} /\ events'[v] \in Seq(EventRow)
             /\ Traced(assessments'[v], events'[v])
             /\ assessments'[v] = assessments[v] \/ assessments'[v].software = None
  <2>1. CASE assessments'[v] = assessments[v] /\ events'[v] = events[v]
    BY <2>1 DEF TraceInv, TraceTypes
  <2>2. ASSUME NEW row \in AssessmentRow, row.version = 1, row.software = None,
               assessments'[v] = row, events'[v] = AssessmentEvent(None, row)
        PROVE  /\ assessments'[v] \in AssessmentRow \cup {None} /\ events'[v] \in Seq(EventRow)
               /\ Traced(assessments'[v], events'[v])
               /\ assessments'[v] = assessments[v] \/ assessments'[v].software = None
    BY <2>2, NewTrace
  <2> QED
    BY <2>1, <2>2
<1>2. TraceTypes'
  <2>1. assessments' \in [AssessmentIds -> AssessmentRow \cup {None}]
    BY <1>1
  <2>2. events' \in [AssessmentIds -> Seq(EventRow)]
    BY <1>1
  <2> QED
    BY <2>1, <2>2 DEF TraceTypes
<1>3. LinksHold'
  <2> SUFFICES ASSUME NEW v \in AssessmentIds, assessments'[v] # None, assessments'[v].software # None
               PROVE  /\ assessments'[v].software \in DOMAIN software'
                      /\ software'[assessments'[v].software] # None
                      /\ software'[assessments'[v].software].asset = assessments'[v].asset
    BY DEF LinksHold, Linkable, Live
  <2>1. assessments'[v] = assessments[v]
    BY <1>1
  <2>2. PICK s : s = assessments[v].software
    OBVIOUS
  <2>3. s \in SoftwareIds /\ software[s] # None /\ software[s].asset = assessments[v].asset
    BY <2>1, <2>2 DEF TraceInv, TraceTypes, LinksHold, Linkable, Live
  <2> QED
    BY <2>1, <2>2, <2>3
<1>4. \A v \in AssessmentIds : Traced(assessments[v], events[v])'
  BY <1>1 DEF Traced
<1>5. \A actor \in Admins : IsOpen(imports'[actor]) => PartsKnown(imports'[actor])
  BY DEF TraceInv
<1> QED
  BY <1>2, <1>3, <1>4, <1>5 DEF TraceInv, PartsKnown, IsOpen

\* The asset of a group: a new one, or the one that has its name.
LEMMA AssetOfGroup ==
  ASSUME ImportInv, TraceInv, NEW actor \in Admins, CommitImport(actor),
         NEW g \in imports[actor].groups
  PROVE  (IF g \in Created(imports[actor].groups)
          THEN Place(Created(imports[actor].groups), assets)[g]
          ELSE CHOOSE a \in Named(g.name) : TRUE) \in AssetIds
<1> DEFINE groups == imports[actor].groups
           new == Created(groups)
<1>1. Room(new, assets) /\ IsOpen(imports[actor])
  BY DEF CommitImport
<1>2. IsFiniteSet(groups)
  BY <1>1 DEF ImportInv, PreviewKnown, GroupsFinite
<1>3. IsFiniteSet(new) /\ DOMAIN assets = AssetIds /\ IsFiniteSet(DOMAIN assets)
  BY <1>2, FS_Subset, InventoryAssumption DEF Created, TraceInv, TraceTypes
<1>4. Place(new, assets) \in Injection(new, Free(assets))
  BY <1>1, <1>3, Placed
<1>5. CASE g \in new
  BY <1>3, <1>4, <1>5 DEF Injection, Free
<1>6. CASE g \notin new
  <2>1. Named(g.name) # {}
    BY <1>6 DEF Created
  <2> QED
    BY <1>3, <1>6, <2>1 DEF Named, Live
<1> QED
  BY <1>5, <1>6

LEMMA TraceCommits ==
  ASSUME ImportInv, TraceInv, NEW actor \in Admins, CommitImport(actor)
  PROVE  TraceInv'
<1> DEFINE groups == imports[actor].groups
           IdOf(g) == IF g \in Created(groups) THEN Place(Created(groups), assets)[g]
                      ELSE CHOOSE a \in Named(g.name) : TRUE
           swPlace == Place(Pairs(groups, SoftwareAdded), software)
           cvePlace == Place(Pairs(groups, CvesAdded), assessments)
           SwAt(s) == CHOOSE new \in DOMAIN swPlace : swPlace[new] = s
           CveAt(v) == CHOOSE new \in DOMAIN cvePlace : cvePlace[new] = v
           Suspected(pair) == NewAssessment(IdOf(pair[1]), pair[2], None, "open")
<1>1. /\ IsOpen(imports[actor]) /\ imports' = [imports EXCEPT ![actor] = Spent]
      /\ Room(Pairs(groups, SoftwareAdded), software) /\ Room(Pairs(groups, CvesAdded), assessments)
  BY DEF CommitImport
<1>2. GroupsFinite(groups) /\ \A g \in groups : g.software \subseteq Tuples /\ g.cves \subseteq Cves
  BY <1>1 DEF ImportInv, PreviewKnown, TraceInv, PartsKnown
<1>3. \A g \in groups : IdOf(g) \in AssetIds
  BY AssetOfGroup
<1>4. swPlace \in Injection(Pairs(groups, SoftwareAdded), Free(software))
  BY <1>1, <1>2, PairsFinite, Placed, InventoryAssumption DEF TraceInv, TraceTypes
<1>5. cvePlace \in Injection(Pairs(groups, CvesAdded), Free(assessments))
  BY <1>1, <1>2, PairsFinite, Placed, InventoryAssumption DEF TraceInv, TraceTypes
<1>6. \A pair \in Pairs(groups, SoftwareAdded) :
          pair[1] \in groups /\ NewSoftware(IdOf(pair[1]), pair[2]) \in SoftwareRow
  BY <1>2, <1>3 DEF Pairs, SoftwareAdded, NewSoftware, SoftwareRow
<1>7. \A pair \in Pairs(groups, CvesAdded) :
          /\ pair[1] \in groups
          /\ Suspected(pair) \in AssessmentRow
          /\ Suspected(pair).version = 1
          /\ Suspected(pair).software = None
  BY <1>2, <1>3 DEF Pairs, CvesAdded, NewAssessment, AssessmentRow
<1>8. DOMAIN assets' = AssetIds
  BY DEF CommitImport, Insert, TraceInv, TraceTypes
<1>a. software' = [s \in DOMAIN software |->
                      IF \E new \in DOMAIN swPlace : swPlace[new] = s
                      THEN NewSoftware(IdOf(SwAt(s)[1]), SwAt(s)[2]) ELSE software[s]]
  BY DEF CommitImport, Insert
<1>b. assessments' = [v \in DOMAIN assessments |->
                         IF \E new \in DOMAIN cvePlace : cvePlace[new] = v
                         THEN Suspected(CveAt(v)) ELSE assessments[v]]
  BY DEF CommitImport, Insert
<1>c. events' = [v \in DOMAIN events |->
                    IF \E new \in DOMAIN cvePlace : cvePlace[new] = v
                    THEN AssessmentEvent(None, Suspected(CveAt(v))) ELSE events[v]]
  BY DEF CommitImport, Insert
<1> HIDE DEF groups, IdOf, swPlace, cvePlace, Suspected
<1>9. ASSUME NEW s \in SoftwareIds
      PROVE  /\ software'[s] \in SoftwareRow \cup {None}
             /\ software[s] # None => software'[s] = software[s]
  <2>1. CASE \A pair \in DOMAIN swPlace : swPlace[pair] # s
    <3>1. software'[s] = software[s]
      BY <2>1, <1>a DEF TraceInv, TraceTypes
    <3> QED
      BY <3>1 DEF TraceInv, TraceTypes
  <2>2. CASE \E pair \in DOMAIN swPlace : swPlace[pair] = s
    <3>1. PICK pair \in DOMAIN swPlace : pair = SwAt(s)
      BY <2>2
    <3>2. pair \in Pairs(groups, SoftwareAdded) /\ swPlace[pair] = s
      BY <2>2, <3>1, <1>4 DEF Injection
    <3>3. software[s] = None
      BY <1>4, <3>2 DEF Injection, Free, Live
    <3>4. pair[1] \in groups /\ NewSoftware(IdOf(pair[1]), pair[2]) \in SoftwareRow
      BY <1>6, <3>2
    <3>5. software'[s] = NewSoftware(IdOf(pair[1]), pair[2])
      BY <2>2, <3>1, <1>a DEF TraceInv, TraceTypes
    <3> QED
      BY <3>3, <3>4, <3>5
  <2> QED
    BY <2>1, <2>2
<1>10. software' \in [SoftwareIds -> SoftwareRow \cup {None}]
  <2>1. software' = [s \in SoftwareIds |-> software'[s]]
    BY <1>a DEF TraceInv, TraceTypes
  <2> QED
    BY <2>1, <1>9
<1>11. /\ assessments' = [v \in AssessmentIds |-> assessments'[v]]
       /\ events' = [v \in AssessmentIds |-> events'[v]]
  BY <1>b, <1>c DEF TraceInv, TraceTypes
<1>12. ASSUME NEW v \in AssessmentIds
       PROVE  \/ assessments'[v] = assessments[v] /\ events'[v] = events[v]
              \/ \E row \in AssessmentRow : /\ row.version = 1 /\ row.software = None
                                            /\ assessments'[v] = row
                                            /\ events'[v] = AssessmentEvent(None, row)
  <2>1. CASE \A pair \in DOMAIN cvePlace : cvePlace[pair] # v
    BY <2>1, <1>b, <1>c DEF TraceInv, TraceTypes
  <2>2. CASE \E pair \in DOMAIN cvePlace : cvePlace[pair] = v
    <3>1. PICK pair \in DOMAIN cvePlace : pair = CveAt(v)
      BY <2>2
    <3>2. pair \in Pairs(groups, CvesAdded)
      BY <3>1, <1>5 DEF Injection
    <3>3. PICK row : row = Suspected(pair)
      OBVIOUS
    <3>4. row \in AssessmentRow /\ row.version = 1 /\ row.software = None /\ pair[1] \in groups
      BY <1>7, <3>2, <3>3
    <3>5. assessments'[v] = row
      BY <2>2, <3>1, <3>3, <1>b, <1>c DEF TraceInv, TraceTypes
    <3>6. events'[v] = AssessmentEvent(None, row)
      BY <2>2, <3>1, <3>3, <1>b, <1>c DEF TraceInv, TraceTypes
    <3> QED
      BY <3>4, <3>5, <3>6
  <2> QED
    BY <2>1, <2>2
<1>13. \A other \in Admins : IsOpen(imports'[other]) => imports'[other] = imports[other]
  BY <1>1, SpentNotOpen DEF ImportInv
<1> QED
  BY <1>8, <1>9, <1>10, <1>11, <1>12, <1>13, TraceInserted

LEMMA TraceStart == AssetsInit => TraceInv
BY DEF AssetsInit, InventoryInit, TraceInv, TraceTypes, LinksHold, Traced, IsOpen

LEMMA TraceGoesOn ==
  ASSUME AssetsInv, TraceInv, [AssetsNext]_<<inventoryVars, discoveryVars>>
  PROVE  TraceInv'
<1>1. ASSUME UNCHANGED <<software, assessments, events, imports>>, DOMAIN assets' = AssetIds
      PROVE  TraceInv'
  BY <1>1, TraceStays DEF TraceInv, TraceTypes
<1>2. ASSUME UNCHANGED inventoryVars
      PROVE  TraceInv'
  BY <1>1, <1>2 DEF inventoryVars, TraceInv, TraceTypes
<1>3. CASE InventoryNext /\ UNCHANGED discoveryVars
  BY <1>3, TraceAssets, TraceSoftware, TraceCreated, TraceUpdated, TracePreviews, TraceCommits
     DEF InventoryNext, AssetsInv
<1>4. CASE DiscoveryNext
  <2>1. ASSUME NEW actor \in Admins, CommitSelection(actor)
        PROVE  TraceInv'
    BY <2>1, <1>1 DEF CommitSelection
  <2> QED
    BY <1>2, <1>4, <2>1
       DEF DiscoveryNext, RecordObservation, GrowOld, MonthPasses, CleanUp, SaveProfile,
           ChangeNetworkPolicy, ReviewCandidate, PreviewSelection, ExpireSelection
<1> QED
  BY <1>2, <1>3, <1>4 DEF AssetsNext

\* The history of every assessment is without a gap and gives its present row,
\* and the software it refers to exists and is of the same asset, whether rows
\* were entered, changed or imported: an event is written in the transaction
\* that writes the row, an import puts its rows under unused identifiers, and
\* software stays while an assessment refers to it (asset_service.py:211-283,
\* 376-418).
THEOREM AssessmentsStayTraced == AssetsSpec => []AssessmentsTraced
<1>1. AssetsInit => AssetsInv /\ TraceInv
  BY AssetsStart, TraceStart
<1>2. AssetsInv /\ TraceInv /\ [AssetsNext]_<<inventoryVars, discoveryVars>> => (AssetsInv /\ TraceInv)'
  BY AssetsGoOn, TraceGoesOn
<1>3. TraceInv => AssessmentsTraced
  BY DEF TraceInv, LinksHold, Traced, AssessmentsTraced
<1> QED
  BY <1>1, <1>2, <1>3, PTL DEF AssetsSpec

-----------------------------------------------------------------------------
(* What was selected                                                       *)

ReviewTypes ==
    /\ candidates \in [Addresses -> CandidateRow \cup {None}]
    /\ observations \in Seq(ObservationRow \cup {None})
    /\ generation \in Nat

\* The candidate of an observation less than a day old is kept and not old.
FreshKnown ==
    \A o \in Kept : observations[o].age = 0 =>
        /\ candidates[observations[o].candidate] # None
        /\ ~candidates[observations[o].candidate].old

\* The candidate of a selected item is there, since it cannot grow old under a
\* preview, and with the version it was shown with it is what was shown; the
\* item's observation, if it is kept, is still of that candidate.
ItemKnown(item) ==
    LET c == item.candidate
        o == item.observation
    IN
    /\ c \in Addresses
    /\ candidates[c] # None /\ ~candidates[c].old
    /\ item.version \in Nat /\ item.version <= candidates[c].version
    /\ item.version = candidates[c].version =>
           /\ candidates[c].hostname = item.hostname /\ candidates[c].identity = item.identity
           /\ ~candidates[c].ignored /\ candidates[c].imported = None
    /\ o \in Recorded
    /\ observations[o] # None => observations[o].candidate = c

\* While the inventory stays, the selection suits it.
SelectionSuits(preview) ==
    preview.revision = revision =>
        /\ Acceptable(preview.items)
        /\ \A i \in DOMAIN preview.items :
              ~Creates(preview.items[i]) =>
                  assets[preview.items[i].target].version = preview.items[i].expected

SelectionKnown(preview) ==
    /\ preview.revision \in 0..revision
    /\ \A i \in DOMAIN preview.items :
          ItemKnown(preview.items[i]) /\ preview.items[i].candidate \in preview.policy
    /\ SelectionSuits(preview)

ReviewInv ==
    /\ ReviewTypes /\ FreshKnown
    /\ \A actor \in Admins : IsOpen(selections[actor]) => SelectionKnown(selections[actor])

\* The revision is never lower, and while it stays so do the assets.
RevisionHolds ==
    /\ revision \in Nat /\ revision' \in Nat
    /\ revision' > revision \/ (revision' = revision /\ assets' = assets)

LEMMA RevisionOrAssets ==
  ASSUME AssetsInv, [AssetsNext]_<<inventoryVars, discoveryVars>>
  PROVE  RevisionHolds
<1> USE DEF AssetsInv, RevisionHolds
<1>0. revision \in Nat
  BY DEF ImportInv
<1>1. ASSUME UNCHANGED <<tables, revision>>
      PROVE  revision' \in Nat /\ revision' = revision /\ assets' = assets
  BY <1>1 DEF tables, ImportInv
<1>2. CASE UNCHANGED inventoryVars
  BY <1>0, <1>1, <1>2 DEF inventoryVars, tables
<1>3. CASE InventoryNext
  BY <1>0, <1>1, <1>3, ChangeRaises, CommitRaises DEF InventoryNext, PreviewImport, ExpireImport
<1>4. CASE \E actor \in Admins : CommitSelection(actor)
  BY <1>0, <1>4, SelectionRaises
<1>5. CASE DiscoveryNext
  BY <1>2, <1>4, <1>5
     DEF DiscoveryNext, RecordObservation, GrowOld, MonthPasses, CleanUp, SaveProfile,
         ChangeNetworkPolicy, ReviewCandidate, PreviewSelection, ExpireSelection
<1> QED
  BY <1>2, <1>3, <1>5 DEF AssetsNext, inventoryVars

-----------------------------------------------------------------------------
\* A candidate that is not old stays, and what changes it raises its version.
CandidateGoesOn(c) ==
    candidates[c] # None /\ ~candidates[c].old =>
        /\ candidates'[c] # None /\ ~candidates'[c].old
        /\ \/ candidates'[c].version = candidates[c].version + 1
           \/ /\ candidates'[c].version = candidates[c].version
              /\ candidates'[c].hostname = candidates[c].hostname
              /\ candidates'[c].identity = candidates[c].identity
              /\ candidates'[c].ignored = candidates[c].ignored
              /\ candidates'[c].imported = candidates[c].imported

\* An observation stays that of its candidate until it is deleted.
ObservationGoesOn(o) ==
    /\ o \in DOMAIN observations'
    /\ observations'[o] # None =>
           observations[o] # None /\ observations'[o].candidate = observations[o].candidate

LEMMA ItemStays ==
  ASSUME ReviewTypes, NEW item, ItemKnown(item), CandidateGoesOn(item.candidate),
         ObservationGoesOn(item.observation)
  PROVE  ItemKnown(item)'
<1> DEFINE c == item.candidate
<1>1. candidates[c] \in CandidateRow
  BY DEF ReviewTypes, ItemKnown
<1>2. candidates[c].version \in Nat
  BY <1>1 DEF CandidateRow
<1>3. /\ candidates'[c] # None /\ ~candidates'[c].old
      /\ item.version <= candidates'[c].version
      /\ item.version = candidates'[c].version =>
            /\ candidates'[c].hostname = item.hostname /\ candidates'[c].identity = item.identity
            /\ ~candidates'[c].ignored /\ candidates'[c].imported = None
  BY <1>2 DEF ItemKnown, CandidateGoesOn
<1> QED
  BY <1>3 DEF ItemKnown, ObservationGoesOn, Recorded

LEMMA SelectionStays ==
  ASSUME ReviewTypes, RevisionHolds,
         \A c \in Addresses : CandidateGoesOn(c), \A o \in Recorded : ObservationGoesOn(o),
         NEW preview, SelectionKnown(preview)
  PROVE  SelectionKnown(preview)'
<1>1. \A i \in DOMAIN preview.items : ItemKnown(preview.items[i])'
  <2> SUFFICES ASSUME NEW i \in DOMAIN preview.items
               PROVE  ItemKnown(preview.items[i])'
    OBVIOUS
  <2>1. PICK item : item = preview.items[i]
    OBVIOUS
  <2>2. ItemKnown(item)
    BY <2>1 DEF SelectionKnown
  <2>3. item.candidate \in Addresses /\ item.observation \in Recorded
    BY <2>2 DEF ItemKnown
  <2>4. ItemKnown(item)'
    BY <2>2, <2>3, ItemStays
  <2> QED
    BY <2>1, <2>4
<1>2. SelectionSuits(preview)'
  <2> SUFFICES ASSUME preview.revision = revision'
               PROVE  SelectionSuits(preview)'
    BY DEF SelectionSuits
  <2>1. revision' = revision /\ assets' = assets
    BY DEF SelectionKnown, RevisionHolds
  <2>2. SelectionSuits(preview)
    BY DEF SelectionKnown
  <2> QED
    BY <2>1, <2>2 DEF SelectionSuits, Acceptable, Named, Writable, Active, Live, CreatedIn, Creates
<1> QED
  BY <1>1, <1>2 DEF SelectionKnown, RevisionHolds

\* The selections of a step are the ones before, or known before.
LEMMA ReviewGoesOn ==
  ASSUME ReviewInv, ReviewTypes', FreshKnown', RevisionHolds,
         \A c \in Addresses : CandidateGoesOn(c), \A o \in Recorded : ObservationGoesOn(o),
         \A actor \in Admins : IsOpen(selections'[actor]) =>
            \/ IsOpen(selections[actor]) /\ selections'[actor] = selections[actor]
            \/ SelectionKnown(selections'[actor])
  PROVE  ReviewInv'
<1>1. ASSUME NEW actor \in Admins, IsOpen(selections'[actor])
      PROVE  SelectionKnown(selections[actor])'
  <2>1. PICK preview : preview = selections'[actor]
    OBVIOUS
  <2>2. SelectionKnown(preview)
    BY <1>1, <2>1 DEF ReviewInv
  <2>3. SelectionKnown(preview)'
    BY <2>2, SelectionStays DEF ReviewInv
  <2> QED
    BY <2>1, <2>3
<1> QED
  BY <1>1 DEF ReviewInv, IsOpen

-----------------------------------------------------------------------------
(* The workers' steps                                                      *)

LEMMA ReviewUntouched ==
  ASSUME ReviewInv, RevisionHolds, UNCHANGED <<candidates, observations>>,
         generation' \in Nat,
         \A actor \in Admins : IsOpen(selections'[actor]) =>
            \/ IsOpen(selections[actor]) /\ selections'[actor] = selections[actor]
            \/ SelectionKnown(selections'[actor])
  PROVE  ReviewInv'
<1>1. ReviewTypes'
  BY DEF ReviewInv, ReviewTypes
<1>2. FreshKnown'
  BY DEF ReviewInv, FreshKnown, Kept, Live
<1>3. \A c \in Addresses : CandidateGoesOn(c)
  BY DEF CandidateGoesOn
<1>4. \A o \in Recorded : ObservationGoesOn(o)
  BY DEF ObservationGoesOn, Recorded
<1> QED
  BY <1>1, <1>2, <1>3, <1>4, ReviewGoesOn

\* The row of a candidate that is observed again.
LEMMA ReobservedRow ==
  ASSUME ReviewTypes, NEW c \in Addresses, candidates[c] \in CandidateRow,
         NEW hostname \in Hostnames \cup {None}
  PROVE  /\ Reobserved(c, hostname) \in CandidateRow /\ ~Reobserved(c, hostname).old
         /\ \/ Reobserved(c, hostname).version = candidates[c].version + 1
            \/ /\ Reobserved(c, hostname).version = candidates[c].version
               /\ Reobserved(c, hostname).hostname = candidates[c].hostname
               /\ Reobserved(c, hostname).identity = candidates[c].identity
               /\ Reobserved(c, hostname).ignored = candidates[c].ignored
               /\ Reobserved(c, hostname).imported = candidates[c].imported
<1>1. PICK row \in CandidateRow : row = candidates[c]
  OBVIOUS
<1>2. /\ row.hostname \in Hostnames \cup {None} /\ row.identity \in Nat /\ row.version \in Nat
      /\ row.ignored \in BOOLEAN /\ row.imported \in AssetIds \cup {None}
      /\ row = [hostname |-> row.hostname, identity |-> row.identity, version |-> row.version,
                ignored |-> row.ignored, imported |-> row.imported, old |-> row.old]
  BY DEF CandidateRow
<1>3. CASE IdentityChanged(c, hostname)
  <2>1. Reobserved(c, hostname) =
            [hostname |-> hostname, identity |-> row.identity + 1, version |-> row.version + 1,
             ignored |-> row.ignored, imported |-> None, old |-> FALSE]
    BY <1>1, <1>2, <1>3 DEF Reobserved
  <2> QED
    BY <1>1, <1>2, <2>1 DEF CandidateRow
<1>4. CASE ~IdentityChanged(c, hostname)
  <2>1. Reobserved(c, hostname) =
            [hostname |-> row.hostname, identity |-> row.identity, version |-> row.version,
             ignored |-> row.ignored, imported |-> row.imported, old |-> FALSE]
    BY <1>1, <1>2, <1>4 DEF Reobserved
  <2> QED
    BY <1>1, <1>2, <2>1 DEF CandidateRow
<1> QED
  BY <1>3, <1>4

\* A full table gives up one observation.
LEMMA RetainedRows ==
  ASSUME ReviewTypes
  PROVE  /\ Retained \in Seq(ObservationRow \cup {None}) /\ Len(Retained) = Len(observations)
         /\ \A o \in 1..Len(observations) : Retained[o] = observations[o] \/ Retained[o] = None
<1>1. observations \in [1..Len(observations) -> ObservationRow \cup {None}] /\ Len(observations) \in Nat
  BY DEF ReviewTypes
<1>2. ASSUME NEW gone
      PROVE  /\ [observations EXCEPT ![gone] = None] \in Seq(ObservationRow \cup {None})
             /\ Len([observations EXCEPT ![gone] = None]) = Len(observations)
             /\ \A o \in 1..Len(observations) :
                   \/ [observations EXCEPT ![gone] = None][o] = observations[o]
                   \/ [observations EXCEPT ![gone] = None][o] = None
  <2> DEFINE kept == [observations EXCEPT ![gone] = None]
  <2>1. kept \in [1..Len(observations) -> ObservationRow \cup {None}]
    BY <1>1
  <2>2. \A o \in 1..Len(observations) : kept[o] = observations[o] \/ kept[o] = None
    BY <1>1
  <2>3. DOMAIN kept = 1..Len(observations)
    BY <1>1
  <2> HIDE DEF kept
  <2>4. kept \in Seq(ObservationRow \cup {None}) /\ Len(kept) = Len(observations)
    BY <1>1, <2>1, <2>3
  <2> QED
    BY <2>2, <2>4 DEF kept
<1>3. CASE Cardinality(Kept) < MaxObservations
  BY <1>3 DEF Retained, ReviewTypes
<1>4. CASE ~(Cardinality(Kept) < MaxObservations)
  BY <1>2, <1>4 DEF Retained
<1> QED
  BY <1>3, <1>4

LEMMA ObservationRecorded ==
  ASSUME ReviewInv, RevisionHolds, NEW c \in Addresses,
         NEW hostname \in Hostnames \cup {None}, RecordObservation(c, hostname)
  PROVE  ReviewInv'
<1> USE DEF ReviewInv
<1> DEFINE n == Len(observations)
           seen == [candidate |-> c, hostname |-> hostname, generation |-> generation, age |-> 0]
<1>1. seen \in ObservationRow /\ n \in Nat
  BY DEF ReviewTypes, ObservationRow
<1>2. PICK kept : kept = Retained
  OBVIOUS
<1>3. /\ kept \in Seq(ObservationRow \cup {None}) /\ Len(kept) = n
      /\ \A o \in 1..n : kept[o] = observations[o] \/ kept[o] = None
  BY <1>2, RetainedRows
<1>4. observations' = Append(kept, seen)
  BY <1>2 DEF RecordObservation
<1> HIDE DEF seen
<1>5. /\ observations' \in Seq(ObservationRow \cup {None}) /\ DOMAIN observations' = 1..(n + 1)
      /\ \A o \in 1..n : observations'[o] = observations[o] \/ observations'[o] = None
      /\ observations'[n + 1] = seen
  BY <1>1, <1>3, <1>4
<1>6. PICK row \in CandidateRow :
        /\ candidates' = [candidates EXCEPT ![c] = row] /\ ~row.old
        /\ candidates[c] # None =>
              \/ row.version = candidates[c].version + 1
              \/ /\ row.version = candidates[c].version
                 /\ row.hostname = candidates[c].hostname /\ row.identity = candidates[c].identity
                 /\ row.ignored = candidates[c].ignored /\ row.imported = candidates[c].imported
  <2>1. CASE candidates[c] = None
    <3>1. NewCandidate(hostname) \in CandidateRow /\ ~NewCandidate(hostname).old
      BY DEF NewCandidate, CandidateRow
    <3> QED
      BY <2>1, <3>1 DEF RecordObservation
  <2>2. CASE candidates[c] # None
    <3>1. candidates[c] \in CandidateRow
      BY <2>2 DEF ReviewTypes
    <3> QED
      BY <2>2, <3>1, ReobservedRow DEF RecordObservation
  <2> QED
    BY <2>1, <2>2
<1>7. candidates'[c] = row /\ \A d \in Addresses \ {c} : candidates'[d] = candidates[d]
  BY <1>6 DEF ReviewTypes
<1>8. row # None
  BY DiscoveryAssumption
<1>9. ReviewTypes'
  BY <1>5, <1>6 DEF ReviewTypes, RecordObservation
<1>10. \A d \in Addresses : CandidateGoesOn(d)
  BY <1>6, <1>7, <1>8 DEF CandidateGoesOn
<1>11. \A o \in Recorded : ObservationGoesOn(o)
  BY <1>1, <1>5 DEF ObservationGoesOn, Recorded, ReviewTypes
<1>12. FreshKnown'
  <2> SUFFICES ASSUME NEW o \in 1..(n + 1), observations'[o] # None, observations'[o].age = 0
               PROVE  /\ candidates'[observations'[o].candidate] # None
                      /\ ~candidates'[observations'[o].candidate].old
    BY <1>5 DEF FreshKnown, Kept, Live
  <2>1. CASE o = n + 1
    <3>1. observations'[o].candidate = c
      BY <1>5, <2>1 DEF seen
    <3> QED
      BY <1>6, <1>7, <1>8, <3>1
  <2>2. CASE o # n + 1
    <3>1. o \in 1..n /\ observations'[o] = observations[o]
      BY <1>1, <1>5, <2>2
    <3>2. o \in Kept /\ observations[o] \in ObservationRow
      BY <3>1 DEF Kept, Live, ReviewTypes
    <3>3. observations[o].candidate \in Addresses
      BY <3>2 DEF ObservationRow
    <3>4. /\ candidates[observations[o].candidate] # None
          /\ ~candidates[observations[o].candidate].old
      BY <3>1, <3>2 DEF FreshKnown
    <3> QED
      BY <1>6, <1>7, <1>8, <3>1, <3>3, <3>4
  <2> QED
    BY <2>1, <2>2
<1>13. UNCHANGED selections
  BY DEF RecordObservation
<1> QED
  BY <1>9, <1>10, <1>11, <1>12, <1>13, ReviewGoesOn

\* A row whose age alone changes, or a candidate's mark that it is old.
Aged(row, age) == [row EXCEPT !.age = age]

LEMMA AgedRow ==
  ASSUME NEW row \in ObservationRow, NEW age \in 0..2
  PROVE  /\ Aged(row, age) \in ObservationRow
         /\ Aged(row, age).candidate = row.candidate
         /\ Aged(row, age).age = age
<1>1. /\ row.candidate \in Addresses /\ row.hostname \in Hostnames \cup {None} /\ row.generation \in Nat
      /\ row = [candidate |-> row.candidate, hostname |-> row.hostname,
                generation |-> row.generation, age |-> row.age]
  BY DEF ObservationRow
<1>2. Aged(row, age) = [candidate |-> row.candidate, hostname |-> row.hostname,
                        generation |-> row.generation, age |-> age]
  BY <1>1 DEF Aged
<1> QED
  BY <1>1, <1>2 DEF ObservationRow

LEMMA AgedSequence ==
  ASSUME ReviewTypes, observations' = [o \in Recorded |-> observations'[o]],
         \A o \in Recorded : observations'[o] \in ObservationRow \cup {None}
  PROVE  observations' \in Seq(ObservationRow \cup {None}) /\ DOMAIN observations' = Recorded
<1>1. Recorded = 1..Len(observations) /\ Len(observations) \in Nat
  BY DEF Recorded, ReviewTypes
<1>2. observations' \in [1..Len(observations) -> ObservationRow \cup {None}]
  BY <1>1
<1> QED
  BY <1>1, <1>2

LEMMA ObservationsAged ==
  ASSUME ReviewInv, RevisionHolds, NEW old \in Recorded, GrowOld(old)
  PROVE  ReviewInv'
<1> USE DEF ReviewInv
<1>1. ASSUME NEW o \in Recorded
      PROVE  /\ observations'[o] \in ObservationRow \cup {None}
             /\ observations'[o] # None =>
                   /\ observations[o] # None /\ observations'[o].candidate = observations[o].candidate
                   /\ observations'[o].age = 0 => observations[o].age = 0
  <2>1. CASE o <= old /\ o \in Kept /\ observations[o].age = 0
    <3>1. PICK row : row = observations[o]
      OBVIOUS
    <3>2. row \in ObservationRow
      BY <2>1, <3>1 DEF Kept, Live, Recorded, ReviewTypes
    <3>3. observations'[o] = Aged(row, 1)
      BY <2>1, <3>1 DEF GrowOld, Aged
    <3>4. 1 \in 0..2
      OBVIOUS
    <3>5. observations'[o] \in ObservationRow /\ observations'[o].candidate = row.candidate
      BY <3>2, <3>3, <3>4, AgedRow
    <3> QED
      BY <2>1, <3>1, <3>5 DEF Kept, Live
  <2>2. CASE ~(o <= old /\ o \in Kept /\ observations[o].age = 0)
    BY <2>2 DEF GrowOld, Recorded, ReviewTypes
  <2> QED
    BY <2>1, <2>2
<1>2. observations' = [o \in Recorded |-> observations'[o]] /\ UNCHANGED <<candidates, generation, selections>>
  BY DEF GrowOld
<1>3. observations' \in Seq(ObservationRow \cup {None}) /\ DOMAIN observations' = Recorded
  BY <1>1, <1>2, AgedSequence
<1>4. ReviewTypes'
  BY <1>2, <1>3 DEF ReviewTypes
<1>5. FreshKnown'
  BY <1>1, <1>2, <1>3 DEF FreshKnown, Kept, Live, Recorded
<1>6. \A c \in Addresses : CandidateGoesOn(c)
  BY <1>2 DEF CandidateGoesOn
<1>7. \A o \in Recorded : ObservationGoesOn(o)
  BY <1>1, <1>3 DEF ObservationGoesOn
<1> QED
  BY <1>2, <1>4, <1>5, <1>6, <1>7, ReviewGoesOn

\* After a month nothing is fresh; no selection is open by then.
LEMMA MonthKeeps ==
  ASSUME ReviewInv, MonthPasses
  PROVE  ReviewInv'
<1> USE DEF ReviewInv
<1>1. ASSUME NEW o \in Recorded
      PROVE  /\ observations'[o] \in ObservationRow \cup {None}
             /\ observations'[o] # None => observations'[o].age # 0
  <2>1. CASE o \in Kept
    <3>1. PICK row : row = observations[o]
      OBVIOUS
    <3>2. row \in ObservationRow
      BY <2>1, <3>1 DEF Kept, Live, Recorded, ReviewTypes
    <3>3. observations'[o] = Aged(row, 2)
      BY <2>1, <3>1 DEF MonthPasses, Aged
    <3>4. 2 \in 0..2
      OBVIOUS
    <3>5. observations'[o] \in ObservationRow /\ observations'[o].age = 2
      BY <3>2, <3>3, <3>4, AgedRow
    <3> QED
      BY <3>5
  <2>2. CASE o \notin Kept
    BY <2>2 DEF MonthPasses
  <2> QED
    BY <2>1, <2>2
<1>2. observations' = [o \in Recorded |-> observations'[o]] /\ UNCHANGED <<generation, selections>>
      /\ \A actor \in Admins : ~IsOpen(selections[actor])
  BY DEF MonthPasses
<1>3. observations' \in Seq(ObservationRow \cup {None}) /\ DOMAIN observations' = Recorded
  BY <1>1, <1>2, AgedSequence
<1>4. candidates' \in [Addresses -> CandidateRow \cup {None}]
  <2>1. candidates' = [c \in Addresses |-> candidates'[c]]
    BY DEF MonthPasses
  <2>2. ASSUME NEW c \in Addresses
        PROVE  candidates'[c] \in CandidateRow \cup {None}
    <3>1. CASE candidates[c] = None
      BY <3>1 DEF MonthPasses
    <3>2. CASE candidates[c] # None
      <4>1. PICK row \in CandidateRow : row = candidates[c]
        BY <3>2 DEF ReviewTypes
      <4>2. candidates'[c] = [row EXCEPT !.old = TRUE]
        BY <3>2, <4>1 DEF MonthPasses
      <4>3. [row EXCEPT !.old = TRUE] \in CandidateRow
        BY DEF CandidateRow
      <4> QED
        BY <4>2, <4>3
    <3> QED
      BY <3>1, <3>2
  <2> QED
    BY <2>1, <2>2
<1>5. ReviewTypes'
  BY <1>2, <1>3, <1>4 DEF ReviewTypes
<1>6. FreshKnown'
  BY <1>1, <1>3 DEF FreshKnown, Kept, Live
<1>7. \A actor \in Admins : ~IsOpen(selections'[actor])
  BY <1>2
<1> QED
  BY <1>5, <1>6, <1>7 DEF IsOpen

\* The clean-up deletes old candidates alone.
LEMMA CleanUpKeeps ==
  ASSUME ReviewInv, RevisionHolds, CleanUp
  PROVE  ReviewInv'
<1> USE DEF ReviewInv
<1>1. /\ observations' = [o \in Recorded |-> IF o \in Outdated THEN None ELSE observations[o]]
      /\ candidates' = [c \in Addresses |-> candidates'[c]]
      /\ \A c \in Addresses : \/ candidates'[c] = candidates[c]
                              \/ candidates'[c] = None /\ candidates[c] # None /\ candidates[c].old
      /\ UNCHANGED <<generation, selections>>
  BY DEF CleanUp
<1>2. \A o \in Recorded : observations'[o] \in {observations[o], None}
  BY <1>1
<1>3. observations' \in Seq(ObservationRow \cup {None}) /\ DOMAIN observations' = Recorded
  <2>1. \A o \in Recorded : observations'[o] \in ObservationRow \cup {None}
    BY <1>2 DEF Recorded, ReviewTypes
  <2>2. observations' = [o \in Recorded |-> observations'[o]]
    BY <1>1
  <2> QED
    BY <2>1, <2>2, AgedSequence
<1>4. \A c \in Addresses : candidates'[c] \in CandidateRow \cup {None}
  BY <1>1 DEF ReviewTypes
<1>5. ReviewTypes'
  BY <1>1, <1>3, <1>4 DEF ReviewTypes
<1>6. FreshKnown'
  <2> SUFFICES ASSUME NEW o \in Recorded, observations'[o] # None, observations'[o].age = 0
               PROVE  /\ candidates'[observations'[o].candidate] # None
                      /\ ~candidates'[observations'[o].candidate].old
    BY <1>3 DEF FreshKnown, Kept, Live
  <2>1. observations'[o] = observations[o] /\ o \in Kept
    BY <1>2 DEF Kept, Live, Recorded
  <2>2. observations[o] \in ObservationRow
    BY <2>1 DEF Kept, Live, Recorded, ReviewTypes
  <2>3. observations[o].candidate \in Addresses
    BY <2>2 DEF ObservationRow
  <2>4. /\ candidates[observations[o].candidate] # None
        /\ ~candidates[observations[o].candidate].old
    BY <2>1 DEF FreshKnown
  <2> QED
    BY <1>1, <2>1, <2>3, <2>4
<1>7. \A c \in Addresses : CandidateGoesOn(c)
  BY <1>1 DEF CandidateGoesOn
<1>8. \A o \in Recorded : ObservationGoesOn(o)
  BY <1>2, <1>3 DEF ObservationGoesOn
<1> QED
  BY <1>1, <1>5, <1>6, <1>7, <1>8, ReviewGoesOn

\* A review raises the candidate's version.
LEMMA CandidateReviewed ==
  ASSUME ReviewInv, RevisionHolds, NEW c \in Addresses, NEW ignored \in BOOLEAN,
         NEW reopen \in BOOLEAN, ReviewCandidate(c, ignored, reopen)
  PROVE  ReviewInv'
<1> USE DEF ReviewInv
<1>1. PICK old \in CandidateRow : old = candidates[c] /\ candidates[c] # None
  BY DEF ReviewCandidate, Live, ReviewTypes
<1>2. PICK row : row = [old EXCEPT !.ignored = ignored, !.version = @ + 1,
                                   !.imported = IF reopen THEN None ELSE @]
  OBVIOUS
<1>3. candidates' = [candidates EXCEPT ![c] = row] /\ UNCHANGED <<observations, generation, selections>>
  BY <1>1, <1>2 DEF ReviewCandidate, ReviewTypes
<1>4. row \in CandidateRow /\ row.version = old.version + 1 /\ row.old = old.old
  <2>1. /\ old.hostname \in Hostnames \cup {None} /\ old.identity \in Nat /\ old.version \in Nat
        /\ old.old \in BOOLEAN /\ old.imported \in AssetIds \cup {None}
        /\ old = [hostname |-> old.hostname, identity |-> old.identity, version |-> old.version,
                  ignored |-> old.ignored, imported |-> old.imported, old |-> old.old]
    BY DEF CandidateRow
  <2>2. row = [hostname |-> old.hostname, identity |-> old.identity, version |-> old.version + 1,
               ignored |-> ignored, imported |-> IF reopen THEN None ELSE old.imported, old |-> old.old]
    BY <1>2, <2>1
  <2> QED
    BY <2>1, <2>2 DEF CandidateRow
<1>5. row # None
  BY <1>4, DiscoveryAssumption
<1>6. candidates'[c] = row /\ \A d \in Addresses \ {c} : candidates'[d] = candidates[d]
  BY <1>3 DEF ReviewTypes
<1>7. ReviewTypes'
  BY <1>3, <1>4 DEF ReviewTypes
<1>8. FreshKnown'
  <2> SUFFICES ASSUME NEW o \in Kept, observations[o].age = 0
               PROVE  /\ candidates'[observations[o].candidate] # None
                      /\ ~candidates'[observations[o].candidate].old
    BY <1>3 DEF FreshKnown, Kept, Live
  <2>1. observations[o] \in ObservationRow
    BY DEF Kept, Live, ReviewTypes
  <2>2. observations[o].candidate \in Addresses
    BY <2>1 DEF ObservationRow
  <2>3. /\ candidates[observations[o].candidate] # None
        /\ ~candidates[observations[o].candidate].old
    BY DEF FreshKnown
  <2> QED
    BY <1>1, <1>4, <1>5, <1>6, <2>2, <2>3
<1>9. \A d \in Addresses : CandidateGoesOn(d)
  BY <1>1, <1>4, <1>5, <1>6 DEF CandidateGoesOn
<1>10. \A o \in Recorded : ObservationGoesOn(o)
  BY <1>3 DEF ObservationGoesOn, Recorded
<1> QED
  BY <1>3, <1>7, <1>8, <1>9, <1>10, ReviewGoesOn

-----------------------------------------------------------------------------
(* The administrators' steps                                               *)

\* What is on offer is known as it is.
LEMMA ChoiceKnown ==
  ASSUME ReviewInv, NEW item \in Choices
  PROVE  /\ ItemKnown(item) /\ item.candidate \in policy
         /\ ~Creates(item) => assets[item.target].version = item.expected
<1> USE DEF ReviewInv
<1>1. PICK o, name, target :
        /\ o \in Kept /\ item = Item(observations[o].candidate, o, name, target)
        /\ Selected(observations[o].candidate, o) /\ observations[o].candidate \in policy
  BY DEF Choices
<1>2. PICK c : c = observations[o].candidate
  OBVIOUS
<1>3. /\ item.candidate = c /\ item.observation = o /\ item.target = target
      /\ item.expected = (IF target = None THEN 0 ELSE assets[target].version)
      /\ item.identity = candidates[c].identity /\ item.version = candidates[c].version
      /\ item.hostname = candidates[c].hostname
  BY <1>1, <1>2 DEF Item
<1>4. o \in Recorded /\ observations[o] \in ObservationRow
  BY <1>1 DEF Kept, Live, Recorded, ReviewTypes
<1>5. c \in Addresses
  BY <1>2, <1>4 DEF ObservationRow
<1>6. /\ candidates[c] # None /\ ~candidates[c].ignored /\ candidates[c].imported = None
      /\ observations[o].age = 0
  BY <1>1, <1>2 DEF Selected, Live
<1>7. ~candidates[c].old
  BY <1>1, <1>2, <1>6 DEF FreshKnown
<1>8. candidates[c] \in CandidateRow
  BY <1>5, <1>6 DEF ReviewTypes
<1>9. candidates[c].version \in Nat
  BY <1>8 DEF CandidateRow
<1>10. ItemKnown(item)
  BY <1>2, <1>3, <1>4, <1>5, <1>6, <1>7, <1>9 DEF ItemKnown
<1> QED
  BY <1>1, <1>2, <1>3, <1>10 DEF Creates

LEMMA SelectionPreviewed ==
  ASSUME ReviewInv, RevisionHolds, NEW actor \in Admins, NEW n \in 1..MaxItems,
         NEW items \in [1..n -> Choices], PreviewSelection(actor, items)
  PROVE  ReviewInv'
<1> DEFINE preview == [state |-> "open", items |-> items, revision |-> revision, policy |-> policy]
<1>1. preview.items = items /\ preview.revision = revision /\ preview.policy = policy
  OBVIOUS
<1>2. selections'[actor] = preview
  BY ReplacedOwn DEF PreviewSelection
<1>3. \A other \in Admins : other # actor => selections'[other] \in {selections[other], None}
  BY DEF PreviewSelection, Replaced
<1> HIDE DEF preview
<1>4. \A i \in DOMAIN items : /\ ItemKnown(items[i]) /\ items[i].candidate \in policy
                              /\ ~Creates(items[i]) =>
                                    assets[items[i].target].version = items[i].expected
  BY ChoiceKnown
<1>5. SelectionKnown(preview)
  BY <1>1, <1>4 DEF SelectionKnown, SelectionSuits, PreviewSelection, RevisionHolds
<1>6. \A other \in Admins : IsOpen(selections'[other]) =>
         \/ IsOpen(selections[other]) /\ selections'[other] = selections[other]
         \/ SelectionKnown(selections'[other])
  BY <1>2, <1>3, <1>5 DEF IsOpen
<1>7. UNCHANGED <<candidates, observations, generation>>
  BY DEF PreviewSelection
<1> QED
  BY <1>6, <1>7, ReviewUntouched DEF ReviewInv, ReviewTypes

\* A preview that was spent leaves the others.
LEMMA SpentLeaves ==
  ASSUME SelectionInv, NEW actor \in Admins, selections' = [selections EXCEPT ![actor] = Spent]
  PROVE  \A other \in Admins : IsOpen(selections'[other]) =>
            IsOpen(selections[other]) /\ selections'[other] = selections[other]
<1> SUFFICES ASSUME NEW other \in Admins, IsOpen(selections'[other])
             PROVE  IsOpen(selections[other]) /\ selections'[other] = selections[other]
  OBVIOUS
<1>1. selections'[other] = Spent \/ selections'[other] = selections[other]
  BY DEF SelectionInv
<1> QED
  BY <1>1, SpentNotOpen

\* A commit marks the candidates it imports.
LEMMA SelectionCommitted ==
  ASSUME AssetsInv, TraceInv, ReviewInv, RevisionHolds,
         NEW actor \in Admins, CommitSelection(actor)
  PROVE  ReviewInv'
<1> USE DEF ReviewInv
<1> DEFINE items == selections[actor].items
           place == Place(CreatedIn(items), assets)
           AssetOf(i) == IF Creates(items[i]) THEN place[i] ELSE items[i].target
           Index(c) == CHOOSE i \in DOMAIN items : items[i].candidate = c
           chosen == {items[i].candidate : i \in DOMAIN items}
<1>1. /\ IsOpen(selections[actor]) /\ Committable(items) /\ Acceptable(items)
      /\ Room(CreatedIn(items), assets)
      /\ selections' = [selections EXCEPT ![actor] = Spent]
      /\ UNCHANGED <<observations, generation>>
  BY DEF CommitSelection
<1>2. candidates' = [c \in Addresses |->
                       IF c \in chosen
                       THEN [candidates[c] EXCEPT !.imported = AssetOf(Index(c)), !.version = @ + 1]
                       ELSE candidates[c]]
  BY DEF CommitSelection
<1>3. PICK S : items \in Seq(S)
  BY <1>1 DEF AssetsInv, SelectionInv
<1>4. IsFiniteSet(CreatedIn(items)) /\ CreatedIn(items) \subseteq DOMAIN items
  <2>1. Len(items) \in Nat /\ DOMAIN items = 1..Len(items)
    BY <1>3
  <2>2. IsFiniteSet(1..Len(items))
    BY <2>1, FS_Interval
  <2> QED
    BY <2>1, <2>2, FS_Subset DEF CreatedIn
<1>5. place \in Injection(CreatedIn(items), Free(assets))
  BY <1>1, <1>4, Placed, InventoryAssumption DEF TraceInv, TraceTypes
<1>6. \A i \in DOMAIN items : AssetOf(i) \in AssetIds
  <2> SUFFICES ASSUME NEW i \in DOMAIN items
               PROVE  AssetOf(i) \in AssetIds
    OBVIOUS
  <2>1. DOMAIN assets = AssetIds
    BY DEF TraceInv, TraceTypes
  <2>2. CASE Creates(items[i])
    <3>1. i \in CreatedIn(items)
      BY <2>2 DEF CreatedIn
    <3> QED
      BY <1>5, <2>1, <2>2, <3>1 DEF Injection, Free
  <2>3. CASE ~Creates(items[i])
    <3>1. items[i].target \in Active
      BY <1>1, <2>3 DEF Acceptable, Writable
    <3> QED
      BY <2>1, <2>3, <3>1 DEF Active, Live
  <2> QED
    BY <2>2, <2>3
<1> HIDE DEF items, AssetOf, place
<1>7. ASSUME NEW c \in chosen
      PROVE  /\ c \in Addresses /\ candidates[c] \in CandidateRow /\ candidates[c] # None
             /\ Index(c) \in DOMAIN items
  <2>1. PICK i \in DOMAIN items : items[i].candidate = c
    OBVIOUS
  <2>2. c \in Live(candidates)
    BY <1>1, <2>1 DEF Committable, AsPreviewed, Selected
  <2> QED
    BY <2>1, <2>2 DEF Live, ReviewTypes
<1>8. ASSUME NEW c \in Addresses
      PROVE  \/ candidates'[c] = candidates[c]
             \/ /\ candidates[c] \in CandidateRow /\ candidates[c] # None
                /\ candidates'[c] \in CandidateRow
                /\ candidates'[c].version = candidates[c].version + 1
                /\ candidates'[c].old = candidates[c].old
  <2>1. CASE c \notin chosen
    BY <1>2, <2>1
  <2>2. CASE c \in chosen
    <3>1. PICK old \in CandidateRow : old = candidates[c] /\ candidates[c] # None
      BY <1>7, <2>2
    <3>2. PICK a \in AssetIds : a = AssetOf(Index(c))
      BY <1>6, <1>7, <2>2
    <3>3. candidates'[c] = [old EXCEPT !.imported = a, !.version = @ + 1]
      BY <1>2, <2>2, <3>1, <3>2
    <3>4. /\ old.hostname \in Hostnames \cup {None} /\ old.identity \in Nat /\ old.version \in Nat
          /\ old.ignored \in BOOLEAN /\ old.old \in BOOLEAN
          /\ old = [hostname |-> old.hostname, identity |-> old.identity, version |-> old.version,
                    ignored |-> old.ignored, imported |-> old.imported, old |-> old.old]
      BY DEF CandidateRow
    <3>5. candidates'[c] = [hostname |-> old.hostname, identity |-> old.identity,
                            version |-> old.version + 1, ignored |-> old.ignored, imported |-> a,
                            old |-> old.old]
      BY <3>3, <3>4
    <3>6. candidates'[c] \in CandidateRow
      BY <3>4, <3>5 DEF CandidateRow
    <3> QED
      BY <3>1, <3>5, <3>6
  <2> QED
    BY <2>1, <2>2
<1>9. ReviewTypes'
  <2>1. candidates' \in [Addresses -> CandidateRow \cup {None}]
    BY <1>2, <1>8 DEF ReviewTypes
  <2> QED
    BY <1>1, <2>1 DEF ReviewTypes
<1>10. \A c \in Addresses : CandidateGoesOn(c)
  BY <1>8, DiscoveryAssumption DEF CandidateGoesOn
<1>11. \A o \in Recorded : ObservationGoesOn(o)
  BY <1>1 DEF ObservationGoesOn, Recorded
<1>12. FreshKnown'
  <2> SUFFICES ASSUME NEW o \in Kept, observations[o].age = 0
               PROVE  /\ candidates'[observations[o].candidate] # None
                      /\ ~candidates'[observations[o].candidate].old
    BY <1>1 DEF FreshKnown, Kept, Live
  <2>1. observations[o] \in ObservationRow
    BY DEF Kept, Live, ReviewTypes
  <2>2. observations[o].candidate \in Addresses
    BY <2>1 DEF ObservationRow
  <2>3. /\ candidates[observations[o].candidate] # None
        /\ ~candidates[observations[o].candidate].old
    BY DEF FreshKnown
  <2> QED
    BY <1>8, <2>2, <2>3, DiscoveryAssumption
<1>13. \A other \in Admins : IsOpen(selections'[other]) =>
          IsOpen(selections[other]) /\ selections'[other] = selections[other]
  BY <1>1, SpentLeaves DEF AssetsInv
<1> QED
  BY <1>9, <1>10, <1>11, <1>12, <1>13, ReviewGoesOn

LEMMA ReviewStart == AssetsInit => ReviewInv
BY DEF AssetsInit, DiscoveryInit, ReviewInv, ReviewTypes, FreshKnown, Kept, Live, IsOpen

LEMMA ReviewInvHolds ==
  ASSUME AssetsInv, TraceInv, ReviewInv,
         [AssetsNext]_<<inventoryVars, discoveryVars>>
  PROVE  ReviewInv'
<1>1. RevisionHolds
  BY RevisionOrAssets
<1>2. ASSUME UNCHANGED <<candidates, observations, selections>>, generation' \in Nat
      PROVE  ReviewInv'
  BY <1>1, <1>2, ReviewUntouched
<1>3. CASE UNCHANGED discoveryVars
  BY <1>2, <1>3 DEF discoveryVars, ReviewInv, ReviewTypes
<1>4. CASE SaveProfile \/ \E approved \in Policies : ChangeNetworkPolicy(approved)
  BY <1>2, <1>4 DEF SaveProfile, ChangeNetworkPolicy, ReviewInv, ReviewTypes
<1>5. ASSUME NEW actor \in Admins, ExpireSelection(actor)
      PROVE  ReviewInv'
  <2>1. \A other \in Admins : IsOpen(selections'[other]) =>
            IsOpen(selections[other]) /\ selections'[other] = selections[other]
    BY <1>5, SpentLeaves DEF ExpireSelection, AssetsInv
  <2> QED
    BY <1>1, <1>5, <2>1, ReviewUntouched DEF ExpireSelection, ReviewInv, ReviewTypes
<1>6. CASE \E c \in Addresses, hostname \in Hostnames \cup {None} : RecordObservation(c, hostname)
  BY <1>1, <1>6, ObservationRecorded
<1>7. CASE \E o \in Recorded : GrowOld(o)
  BY <1>1, <1>7, ObservationsAged
<1>8. CASE \E c \in Addresses, ignored, reopen \in BOOLEAN : ReviewCandidate(c, ignored, reopen)
  BY <1>1, <1>8, CandidateReviewed
<1>9. CASE \E actor \in Admins, n \in 1..MaxItems :
              \E items \in [1..n -> Choices] : PreviewSelection(actor, items)
  BY <1>1, <1>9, SelectionPreviewed
<1>10. CASE \E actor \in Admins : CommitSelection(actor)
  BY <1>1, <1>10, SelectionCommitted
<1>11. CASE MonthPasses
  BY <1>11, MonthKeeps
<1>12. CASE CleanUp
  BY <1>1, <1>12, CleanUpKeeps
<1> QED
  BY <1>3, <1>4, <1>5, <1>6, <1>7, <1>8, <1>9, <1>10, <1>11, <1>12 DEF AssetsNext, DiscoveryNext

LEMMA ReviewTells == ReviewInv => SelectedAsPreviewed
<1> SUFFICES ASSUME ReviewInv, NEW actor \in Admins,
                    NEW preview, preview = selections[actor],
                    IsOpen(preview), preview.revision = revision, preview.policy = policy,
                    \A i \in DOMAIN preview.items :
                       LET item == preview.items[i] IN
                       /\ item.candidate \in Live(candidates)
                       /\ candidates[item.candidate].identity = item.identity
                       /\ candidates[item.candidate].version = item.version
                       /\ item.observation \in Kept /\ observations[item.observation].age = 0
                       /\ observations[item.observation].generation = generation
             PROVE  /\ Committable(preview.items) /\ Acceptable(preview.items)
                    /\ \A i \in DOMAIN preview.items :
                          candidates[preview.items[i].candidate].hostname = preview.items[i].hostname
  BY DEF SelectedAsPreviewed
<1>1. SelectionKnown(preview)
  BY DEF ReviewInv
<1>2. SelectionSuits(preview)
  BY <1>1 DEF SelectionKnown
<1>3. ASSUME NEW i \in DOMAIN preview.items
      PROVE  /\ AsPreviewed(preview.items[i]) /\ preview.items[i].candidate \in policy
             /\ candidates[preview.items[i].candidate].hostname = preview.items[i].hostname
  <2>1. PICK item : item = preview.items[i]
    OBVIOUS
  <2>2. ItemKnown(item) /\ item.candidate \in policy
    BY <1>1, <2>1 DEF SelectionKnown
  <2>3. /\ item.candidate \in Live(candidates) /\ candidates[item.candidate].identity = item.identity
        /\ candidates[item.candidate].version = item.version
        /\ item.observation \in Kept /\ observations[item.observation].age = 0
        /\ observations[item.observation].generation = generation
    BY <2>1
  <2>4. observations[item.observation].candidate = item.candidate
    BY <2>2, <2>3 DEF ItemKnown, Kept, Live
  <2>5. /\ ~candidates[item.candidate].ignored /\ candidates[item.candidate].imported = None
        /\ candidates[item.candidate].hostname = item.hostname
    BY <2>2, <2>3 DEF ItemKnown
  <2> QED
    BY <2>1, <2>2, <2>3, <2>4, <2>5 DEF AsPreviewed, Selected
<1>4. ASSUME NEW i \in DOMAIN preview.items, ~Creates(preview.items[i])
      PROVE  VersionAt(preview.items, i, preview.items[i].target)
                 = preview.items[i].expected + LinkedChanges(preview.items, i)
  BY <1>2, <1>4 DEF SelectionSuits, VersionAt, LinkedChanges
<1> QED
  BY <1>2, <1>3, <1>4 DEF Committable, SelectionSuits

\* What an administrator previewed of the discovered hosts is what a commit
\* imports: a commit that finds the revision, the policy and the candidates'
\* identities and versions of the preview, and the observations still fresh, is
\* accepted for every item and under the names that were shown.  A candidate
\* cannot grow old and be recorded anew while a preview of it is open, so that
\* equal versions are those of the same row (asset_discovery_service.py:127-173).
THEOREM SelectionsAsPreviewed == AssetsSpec => []SelectedAsPreviewed
<1>1. AssetsInit => AssetsInv /\ TraceInv /\ ReviewInv
  BY AssetsStart, TraceStart, ReviewStart
<1>2. AssetsInv /\ TraceInv /\ ReviewInv /\ [AssetsNext]_<<inventoryVars, discoveryVars>>
          => (AssetsInv /\ TraceInv /\ ReviewInv)'
  BY AssetsGoOn, TraceGoesOn, ReviewInvHolds
<1>3. ReviewInv => SelectedAsPreviewed
  BY ReviewTells
<1> QED
  BY <1>1, <1>2, <1>3, PTL DEF AssetsSpec

-----------------------------------------------------------------------------
(* The tables as a whole.  Single changes, imports of files and imports of  *)
(* discovered hosts write the same three tables.                            *)

\* One row for a name, for a software of an asset, for a CVE of an asset: the
\* constraints of the database are never what stops a change.
RowKeys ==
    /\ \A a, b \in Live(assets) : assets[a].name = assets[b].name => a = b
    /\ \A s, t \in Live(software) :
          software[s].asset = software[t].asset /\ software[s].tuple = software[t].tuple => s = t
    /\ \A v, w \in Live(assessments) :
          assessments[v].asset = assessments[w].asset /\ assessments[v].cve = assessments[w].cve => v = w

RowsOwned ==
    /\ \A s \in Live(software) : software[s].asset \in Live(assets)
    /\ \A v \in Live(assessments) : assessments[v].asset \in Live(assets)

LimitsHold ==
    /\ Cardinality(Active) <= MaxAssets
    /\ Cardinality(Live(software)) <= MaxSoftware
    /\ Cardinality(Live(assessments)) <= MaxAssessments

EvidenceHolds == Cardinality(links) <= MaxEvidence /\ Cardinality(addresses) <= MaxEvidence

\* The same, one table after the other.
AssetsWhole ==
    /\ assets \in [AssetIds -> AssetRow \cup {None}]
    /\ \A a, b \in Live(assets) : assets[a].name = assets[b].name => a = b
    /\ Cardinality(Active) <= MaxAssets

SoftwareWhole ==
    /\ \A s, t \in Live(software) :
          software[s].asset = software[t].asset /\ software[s].tuple = software[t].tuple => s = t
    /\ \A s \in Live(software) : software[s].asset \in Live(assets)
    /\ Cardinality(Live(software)) <= MaxSoftware

AssessmentsWhole ==
    /\ \A v, w \in Live(assessments) :
          assessments[v].asset = assessments[w].asset /\ assessments[v].cve = assessments[w].cve => v = w
    /\ \A v \in Live(assessments) : assessments[v].asset \in Live(assets)
    /\ Cardinality(Live(assessments)) <= MaxAssessments

\* A file has one group for a name.
GroupsNamed(groups) ==
    /\ \A g \in groups : g.name \in Names /\ g.fields \in Fields
    /\ \A g, h \in groups : g.name = h.name => g = h

\* A preview of discovered hosts has room for its evidence while it is of the
\* present revision; its commit does not count again.
RoomForEvidence(preview) ==
    preview.revision = revision =>
        /\ Cardinality(links) + Len(preview.items) <= MaxEvidence
        /\ Cardinality(addresses) + Len(preview.items) <= MaxEvidence

PreviewsNamed ==
    /\ \A actor \in Admins : IsOpen(imports[actor]) => GroupsNamed(imports[actor].groups)
    /\ \A actor \in Admins : IsOpen(selections[actor]) =>
          \A i \in DOMAIN selections[actor].items :
             Creates(selections[actor].items[i]) => selections[actor].items[i].name \in Names

EvidenceInv ==
    /\ IsFiniteSet(links) /\ IsFiniteSet(addresses) /\ EvidenceHolds
    /\ \A actor \in Admins : IsOpen(selections[actor]) => RoomForEvidence(selections[actor])

WholeInv ==
    /\ AssetsWhole /\ SoftwareWhole /\ AssessmentsWhole /\ PreviewsNamed
    /\ revision \in 0..MaxRevision

LEMMA DistinctKeys ==
  ASSUME NEW old, NEW new, NEW place, NEW key,
         \A x, y \in old : key[x] = key[y] => x = y,
         \A p, q \in new : key[place[p]] = key[place[q]] => p = q,
         \A x \in old, p \in new : key[x] # key[place[p]]
  PROVE  \A x, y \in old \cup {place[p] : p \in new} : key[x] = key[y] => x = y
OBVIOUS

LEMMA CountInserted ==
  ASSUME NEW old, IsFiniteSet(old), NEW new, IsFiniteSet(new), NEW place,
         place = [p \in new |-> place[p]],
         NEW later, later \subseteq old \cup {place[p] : p \in new}
  PROVE  IsFiniteSet(later) /\ Cardinality(later) <= Cardinality(old) + Cardinality(new)
<1> DEFINE range == {place[p] : p \in new}
<1>1. place \in Surjection(new, range)
  BY DEF Surjection
<1>2. IsFiniteSet(range) /\ Cardinality(range) <= Cardinality(new)
  BY <1>1, FS_Surjection
<1> HIDE DEF range
<1>3. /\ Cardinality(old) \in Nat /\ Cardinality(new) \in Nat /\ Cardinality(range) \in Nat
      /\ IsFiniteSet(old \cap range) /\ Cardinality(old \cap range) \in Nat
  BY <1>2, FS_CardinalityType, FS_Subset
<1>4. /\ IsFiniteSet(old \cup range)
      /\ Cardinality(old \cup range) = Cardinality(old) + Cardinality(range) - Cardinality(old \cap range)
  BY <1>2, FS_Union
<1>5. later \subseteq old \cup range
  BY DEF range
<1>6. IsFiniteSet(later) /\ Cardinality(later) <= Cardinality(old \cup range)
  BY <1>4, <1>5, FS_Subset
<1>7. Cardinality(later) \in Nat
  BY <1>6, FS_CardinalityType
<1> QED
  BY <1>2, <1>3, <1>4, <1>6, <1>7

LEMMA LiveFinite ==
  ASSUME TraceTypes
  PROVE  /\ IsFiniteSet(Live(assets)) /\ IsFiniteSet(Active)
         /\ IsFiniteSet(Live(software)) /\ IsFiniteSet(Live(assessments))
         /\ Cardinality(Active) \in Nat /\ Cardinality(Live(software)) \in Nat
         /\ Cardinality(Live(assessments)) \in Nat
BY InventoryAssumption, FS_Subset, FS_CardinalityType DEF TraceTypes, Live, Active

\* A step adds assets of new names and keeps the name and the state of others.
AssetsGrow(new, place, name) ==
    /\ assets' \in [AssetIds -> AssetRow \cup {None}]
    /\ IsFiniteSet(new) /\ place \in Injection(new, Free(assets))
    /\ \A a \in Live(assets) : /\ assets'[a] # None /\ assets'[a].name = assets[a].name
                               /\ assets'[a].archived = assets[a].archived
    /\ \A a \in AssetIds : assets'[a] # None => a \in Live(assets) \/ \E p \in new : a = place[p]
    /\ \A p \in new : assets'[place[p]].name = name[p] /\ Named(name[p]) = {}
    /\ \A p, q \in new : name[p] = name[q] => p = q
    /\ Cardinality(Active) + Cardinality(new) <= MaxAssets

LEMMA AssetsInserted ==
  ASSUME TraceTypes, AssetsWhole, NEW new, NEW place, NEW name, AssetsGrow(new, place, name)
  PROVE  AssetsWhole' /\ Live(assets) \subseteq Live(assets)'
<1> USE DEF AssetsGrow
<1> DEFINE key == [a \in AssetIds |-> assets'[a].name]
<1>1. /\ DOMAIN assets = AssetIds /\ DOMAIN assets' = AssetIds
      /\ \A p \in new : place[p] \in AssetIds
  BY DEF TraceTypes, Injection, Free
<1>2. Live(assets)' \subseteq Live(assets) \cup {place[p] : p \in new} /\ Live(assets) \subseteq Live(assets)'
  BY <1>1 DEF Live
<1>3. \A x, y \in Live(assets) : key[x] = key[y] => x = y
  BY <1>1 DEF AssetsWhole, Live
<1>4. \A p, q \in new : key[place[p]] = key[place[q]] => p = q
  BY <1>1
<1>5. \A x \in Live(assets), p \in new : key[x] # key[place[p]]
  BY <1>1 DEF Named, Live
<1>6. \A x, y \in Live(assets)' : assets'[x].name = assets'[y].name => x = y
  <2> SUFFICES ASSUME NEW x \in Live(assets)', NEW y \in Live(assets)',
                      assets'[x].name = assets'[y].name
               PROVE  x = y
    OBVIOUS
  <2>1. x \in AssetIds /\ y \in AssetIds
    BY <1>1 DEF Live
  <2>2. key[x] = key[y]
    BY <2>1
  <2> HIDE DEF key
  <2>3. \A z, u \in Live(assets) \cup {place[p] : p \in new} : key[z] = key[u] => z = u
    BY <1>3, <1>4, <1>5, DistinctKeys
  <2> QED
    BY <1>2, <2>2, <2>3
<1>7. Active' \subseteq Active \cup {place[p] : p \in new}
  BY <1>2 DEF Active, Live
<1>8. place = [p \in new |-> place[p]]
  BY DEF Injection
<1>9. IsFiniteSet(Active') /\ Cardinality(Active') <= Cardinality(Active) + Cardinality(new)
  BY <1>7, <1>8, LiveFinite, CountInserted
<1>10. Cardinality(Active') \in Nat /\ Cardinality(Active) \in Nat /\ Cardinality(new) \in Nat
       /\ MaxAssets \in Nat
  BY <1>9, LiveFinite, FS_CardinalityType, InventoryAssumption
<1>11. Cardinality(Active') <= MaxAssets
  BY <1>9, <1>10
<1> QED
  BY <1>2, <1>6, <1>11 DEF AssetsWhole

\* Software that is new, of assets that are there.
LEMMA SoftwareInserted ==
  ASSUME TraceTypes, SoftwareWhole, DOMAIN software' = SoftwareIds,
         Live(assets) \subseteq Live(assets)',
         NEW new, IsFiniteSet(new), NEW place \in Injection(new, Free(software)), NEW row,
         \A p \in new : software'[place[p]] = row[p] /\ row[p].asset \in Live(assets)',
         \A s \in SoftwareIds : (\A p \in new : place[p] # s) => software'[s] = software[s],
         \A p, q \in new : row[p].asset = row[q].asset /\ row[p].tuple = row[q].tuple => p = q,
         \A p \in new : ~HasSoftware(row[p].asset, row[p].tuple),
         Cardinality(Live(software)) + Cardinality(new) <= MaxSoftware
  PROVE  SoftwareWhole'
<1> DEFINE key == [s \in SoftwareIds |-> <<software'[s].asset, software'[s].tuple>>]
<1>1. /\ DOMAIN software = SoftwareIds
      /\ \A p \in new : place[p] \in SoftwareIds /\ place[p] \notin Live(software)
  BY DEF TraceTypes, Injection, Free
<1>2. Live(software)' \subseteq Live(software) \cup {place[p] : p \in new}
  BY <1>1 DEF Live
<1>3. \A s \in Live(software) : software'[s] = software[s] /\ s \in SoftwareIds
  BY <1>1 DEF Live
<1>4. \A x, y \in Live(software) : key[x] = key[y] => x = y
  BY <1>3 DEF SoftwareWhole
<1>5. \A p, q \in new : key[place[p]] = key[place[q]] => p = q
  BY <1>1
<1>6. \A x \in Live(software), p \in new : key[x] # key[place[p]]
  BY <1>1, <1>3 DEF HasSoftware
<1>7. \A x, y \in Live(software)' :
         software'[x].asset = software'[y].asset /\ software'[x].tuple = software'[y].tuple => x = y
  <2> SUFFICES ASSUME NEW x \in Live(software)', NEW y \in Live(software)',
                      software'[x].asset = software'[y].asset, software'[x].tuple = software'[y].tuple
               PROVE  x = y
    OBVIOUS
  <2>1. x \in SoftwareIds /\ y \in SoftwareIds
    BY DEF Live
  <2>2. key[x] = key[y]
    BY <2>1
  <2> HIDE DEF key
  <2>3. \A z, u \in Live(software) \cup {place[p] : p \in new} : key[z] = key[u] => z = u
    BY <1>4, <1>5, <1>6, DistinctKeys
  <2> QED
    BY <1>2, <2>2, <2>3
<1>8. \A s \in Live(software)' : software'[s].asset \in Live(assets)'
  BY <1>2, <1>3 DEF SoftwareWhole
<1>9. place = [p \in new |-> place[p]]
  BY DEF Injection
<1>10. /\ IsFiniteSet(Live(software)')
       /\ Cardinality(Live(software)') <= Cardinality(Live(software)) + Cardinality(new)
  BY <1>2, <1>9, LiveFinite, CountInserted
<1>11. /\ Cardinality(Live(software)') \in Nat /\ Cardinality(Live(software)) \in Nat
       /\ Cardinality(new) \in Nat /\ MaxSoftware \in Nat
  BY <1>10, LiveFinite, FS_CardinalityType, InventoryAssumption
<1>12. Cardinality(Live(software)') <= MaxSoftware
  BY <1>10, <1>11
<1> QED
  BY <1>7, <1>8, <1>12 DEF SoftwareWhole

\* Assessments that are new, of assets that are there.
LEMMA AssessmentsInserted ==
  ASSUME TraceTypes, AssessmentsWhole, DOMAIN assessments' = AssessmentIds,
         Live(assets) \subseteq Live(assets)',
         NEW new, IsFiniteSet(new), NEW place \in Injection(new, Free(assessments)), NEW row,
         \A p \in new : assessments'[place[p]] = row[p] /\ row[p].asset \in Live(assets)',
         \A v \in AssessmentIds : (\A p \in new : place[p] # v) => assessments'[v] = assessments[v],
         \A p, q \in new : row[p].asset = row[q].asset /\ row[p].cve = row[q].cve => p = q,
         \A p \in new : ~HasCve(row[p].asset, row[p].cve),
         Cardinality(Live(assessments)) + Cardinality(new) <= MaxAssessments
  PROVE  AssessmentsWhole'
<1> DEFINE key == [v \in AssessmentIds |-> <<assessments'[v].asset, assessments'[v].cve>>]
<1>1. /\ DOMAIN assessments = AssessmentIds
      /\ \A p \in new : place[p] \in AssessmentIds /\ place[p] \notin Live(assessments)
  BY DEF TraceTypes, Injection, Free
<1>2. Live(assessments)' \subseteq Live(assessments) \cup {place[p] : p \in new}
  BY <1>1 DEF Live
<1>3. \A v \in Live(assessments) : assessments'[v] = assessments[v] /\ v \in AssessmentIds
  BY <1>1 DEF Live
<1>4. \A x, y \in Live(assessments) : key[x] = key[y] => x = y
  BY <1>3 DEF AssessmentsWhole
<1>5. \A p, q \in new : key[place[p]] = key[place[q]] => p = q
  BY <1>1
<1>6. \A x \in Live(assessments), p \in new : key[x] # key[place[p]]
  BY <1>1, <1>3 DEF HasCve
<1>7. \A x, y \in Live(assessments)' :
         assessments'[x].asset = assessments'[y].asset /\ assessments'[x].cve = assessments'[y].cve
            => x = y
  <2> SUFFICES ASSUME NEW x \in Live(assessments)', NEW y \in Live(assessments)',
                      assessments'[x].asset = assessments'[y].asset,
                      assessments'[x].cve = assessments'[y].cve
               PROVE  x = y
    OBVIOUS
  <2>1. x \in AssessmentIds /\ y \in AssessmentIds
    BY DEF Live
  <2>2. key[x] = key[y]
    BY <2>1
  <2> HIDE DEF key
  <2>3. \A z, u \in Live(assessments) \cup {place[p] : p \in new} : key[z] = key[u] => z = u
    BY <1>4, <1>5, <1>6, DistinctKeys
  <2> QED
    BY <1>2, <2>2, <2>3
<1>8. \A v \in Live(assessments)' : assessments'[v].asset \in Live(assets)'
  BY <1>2, <1>3 DEF AssessmentsWhole
<1>9. place = [p \in new |-> place[p]]
  BY DEF Injection
<1>10. /\ IsFiniteSet(Live(assessments)')
       /\ Cardinality(Live(assessments)') <= Cardinality(Live(assessments)) + Cardinality(new)
  BY <1>2, <1>9, LiveFinite, CountInserted
<1>11. /\ Cardinality(Live(assessments)') \in Nat /\ Cardinality(Live(assessments)) \in Nat
       /\ Cardinality(new) \in Nat /\ MaxAssessments \in Nat
  BY <1>10, LiveFinite, FS_CardinalityType, InventoryAssumption
<1>12. Cardinality(Live(assessments)') <= MaxAssessments
  BY <1>10, <1>11
<1> QED
  BY <1>7, <1>8, <1>12 DEF AssessmentsWhole

\* Nothing but assets changes, and none goes.
LEMMA OthersWhole ==
  ASSUME TraceTypes, SoftwareWhole, AssessmentsWhole, UNCHANGED <<software, assessments>>,
         Live(assets) \subseteq Live(assets)'
  PROVE  SoftwareWhole' /\ AssessmentsWhole'
<1>1. Live(software)' = Live(software) /\ Live(assessments)' = Live(assessments)
  BY DEF Live
<1> QED
  BY <1>1 DEF SoftwareWhole, AssessmentsWhole

LEMMA AssetCreated ==
  ASSUME TraceTypes, AssetsWhole, NEW name \in Names, NEW fields \in Fields,
         CreateAsset(name, fields)
  PROVE  AssetsWhole' /\ Live(assets) \subseteq Live(assets)'
<1>1. PICK a \in Free(assets) : assets' = [assets EXCEPT ![a] = NewAsset(name, fields)]
  BY DEF CreateAsset
<1>2. a \in AssetIds /\ a \notin Live(assets) /\ DOMAIN assets = AssetIds
  BY DEF TraceTypes, Free
<1>3. /\ NewAsset(name, fields) \in AssetRow /\ NewAsset(name, fields).name = name
      /\ NewAsset(name, fields) # None
  <2>1. NewAsset(name, fields) \in AssetRow /\ NewAsset(name, fields).name = name
    BY DEF NewAsset, AssetRow
  <2> QED
    BY <2>1, InventoryAssumption
<1> DEFINE place == [p \in {name} |-> a]
           called == [p \in {name} |-> p]
<1>4. assets' \in [AssetIds -> AssetRow \cup {None}]
  BY <1>1, <1>2, <1>3 DEF AssetsWhole
<1>5. place \in Injection({name}, Free(assets))
  BY DEF Injection, IsInjective
<1>6. \A b \in Live(assets) : assets'[b] = assets[b] /\ assets[b] # None
  BY <1>1, <1>2 DEF Live
<1>7. \A b \in AssetIds : assets'[b] # None => b \in Live(assets) \/ \E p \in {name} : b = place[p]
  BY <1>1, <1>2 DEF Live
<1>8. \A p \in {name} : assets'[place[p]].name = called[p] /\ Named(called[p]) = {}
  BY <1>1, <1>2, <1>3 DEF CreateAsset
<1>9. \A p, q \in {name} : called[p] = called[q] => p = q
  OBVIOUS
<1>10. IsFiniteSet({name}) /\ Cardinality({name}) = 1
  BY FS_Singleton
<1>11. Cardinality(Active) + Cardinality({name}) <= MaxAssets
  BY <1>10, LiveFinite, InventoryAssumption DEF CreateAsset
<1> HIDE DEF place, called
<1>12. AssetsGrow({name}, place, called)
  BY <1>4, <1>5, <1>6, <1>7, <1>8, <1>9, <1>10, <1>11 DEF AssetsGrow
<1> QED
  BY <1>12, AssetsInserted

\* A changed asset is a row of its table.
LEMMA AssetRevised ==
  ASSUME NEW name \in Names, NEW fields \in Fields, NEW archived \in BOOLEAN, NEW version \in Nat,
         NEW row, row = [name |-> name, fields |-> fields, archived |-> archived, version |-> version]
  PROVE  /\ row \in AssetRow /\ row # None
         /\ row.name = name /\ row.archived = archived
<1>1. row \in AssetRow
  BY DEF AssetRow
<1>2. row # None
  BY <1>1, InventoryAssumption
<1> QED
  BY <1>1, <1>2

LEMMA AssetUpdated ==
  ASSUME TraceTypes, AssetsWhole, NEW a \in AssetIds, NEW name \in Names, NEW fields \in Fields,
         UpdateAsset(a, name, fields)
  PROVE  AssetsWhole' /\ Live(assets) \subseteq Live(assets)'
<1>1. a \in Active /\ assets[a] \in AssetRow /\ DOMAIN assets = AssetIds
  BY DEF UpdateAsset, Writable, Active, Live, AssetsWhole, TraceTypes
<1>2. PICK old \in AssetRow : old = assets[a]
  BY <1>1
<1>3. old.version + 1 \in Nat /\ old.archived \in BOOLEAN /\ ~old.archived
  BY <1>1, <1>2 DEF AssetRow, Active
<1>4. PICK version \in Nat, archived \in BOOLEAN : version = old.version + 1 /\ archived = old.archived
  BY <1>3
<1>0. PICK row : row = [name |-> name, fields |-> fields, archived |-> archived, version |-> version]
  OBVIOUS
<1>5. row \in AssetRow /\ row # None /\ row.name = name /\ ~row.archived
  BY <1>3, <1>4, <1>0, AssetRevised
<1>6. assets' = [assets EXCEPT ![a] = row]
  BY <1>1, <1>2, <1>4, <1>0 DEF UpdateAsset, AssetRow, AssetsWhole
<1>7. assets' \in [AssetIds -> AssetRow \cup {None}]
  BY <1>5, <1>6 DEF AssetsWhole
<1>8. Live(assets)' = Live(assets) /\ Active' = Active
  BY <1>1, <1>5, <1>6 DEF Live, Active
<1>9. \A b, c \in Live(assets) : assets'[b].name = assets'[c].name => b = c
  BY <1>1, <1>5, <1>6 DEF UpdateAsset, Named, Live, AssetsWhole
<1> QED
  BY <1>7, <1>8, <1>9 DEF AssetsWhole

LEMMA AssetArchived ==
  ASSUME TraceTypes, AssetsWhole, NEW a \in AssetIds, NEW archived \in BOOLEAN,
         ArchiveAsset(a, archived)
  PROVE  AssetsWhole' /\ Live(assets) \subseteq Live(assets)'
<1>1. a \in Live(assets) /\ assets[a] \in AssetRow /\ DOMAIN assets = AssetIds
  BY DEF ArchiveAsset, Live, AssetsWhole, TraceTypes
<1>2. PICK old \in AssetRow : old = assets[a]
  BY <1>1
<1>3. old.version + 1 \in Nat /\ old.name \in Names /\ old.fields \in Fields
  BY DEF AssetRow
<1>4. PICK version \in Nat, name \in Names, fields \in Fields :
         version = old.version + 1 /\ name = old.name /\ fields = old.fields
  BY <1>3
<1>0. PICK row : row = [name |-> name, fields |-> fields, archived |-> archived, version |-> version]
  OBVIOUS
<1>5. row \in AssetRow /\ row # None /\ row.name = old.name /\ row.archived = archived
  BY <1>4, <1>0, AssetRevised
<1>6. assets' = [assets EXCEPT ![a] = row]
  BY <1>1, <1>2, <1>4, <1>0 DEF ArchiveAsset, AssetRow, AssetsWhole
<1>7. assets' \in [AssetIds -> AssetRow \cup {None}]
  BY <1>5, <1>6 DEF AssetsWhole
<1>8. Live(assets)' = Live(assets)
  BY <1>1, <1>5, <1>6 DEF Live
<1>9. \A b \in Live(assets) : assets'[b].name = assets[b].name
  BY <1>1, <1>2, <1>5, <1>6
<1>10. Cardinality(Active') <= MaxAssets
  <2>1. CASE ~archived /\ assets[a].archived
    <3>1. Active' \subseteq Active \cup {a}
      BY <1>6, <1>8 DEF Active
    <3>2. IsFiniteSet(Active \cup {a}) /\ Cardinality(Active \cup {a}) <= Cardinality(Active) + 1
      <4>1. IsFiniteSet(Active) /\ Cardinality(Active) \in Nat
        BY LiveFinite
      <4>2. /\ IsFiniteSet(Active \cup {a})
            /\ Cardinality(Active \cup {a}) = IF a \in Active THEN Cardinality(Active)
                                              ELSE Cardinality(Active) + 1
        BY <4>1, FS_AddElement
      <4> QED
        BY <4>1, <4>2
    <3>3. Cardinality(Active') <= Cardinality(Active \cup {a}) /\ Cardinality(Active') \in Nat
          /\ Cardinality(Active \cup {a}) \in Nat
      BY <3>1, <3>2, FS_Subset, FS_CardinalityType
    <3>4. Cardinality(Active) < MaxAssets
      BY <2>1 DEF ArchiveAsset
    <3> QED
      BY <3>2, <3>3, <3>4, LiveFinite, InventoryAssumption
  <2>2. CASE archived \/ ~assets[a].archived
    <3>1. Active' \subseteq Active
      BY <1>1, <1>2, <1>5, <1>6, <1>8, <2>2 DEF Active
    <3>2. Cardinality(Active') <= Cardinality(Active) /\ Cardinality(Active') \in Nat
      BY <3>1, LiveFinite, FS_Subset, FS_CardinalityType
    <3> QED
      BY <3>2, LiveFinite, InventoryAssumption DEF AssetsWhole
  <2> QED
    BY <2>1, <2>2
<1> QED
  BY <1>7, <1>8, <1>9, <1>10 DEF AssetsWhole

LEMMA SoftwareCreated ==
  ASSUME TraceTypes, SoftwareWhole, NEW a \in AssetIds, NEW tuple \in Tuples, CreateSoftware(a, tuple)
  PROVE  SoftwareWhole'
<1>1. PICK s \in Free(software) : software' = [software EXCEPT ![s] = NewSoftware(a, tuple)]
  BY DEF CreateSoftware
<1>2. s \in SoftwareIds /\ DOMAIN software = SoftwareIds /\ UNCHANGED assets
  BY DEF TraceTypes, Free, CreateSoftware
<1> DEFINE place == [p \in {a} |-> s]
           row == [p \in {a} |-> NewSoftware(a, tuple)]
<1>3. place \in Injection({a}, Free(software)) /\ DOMAIN software' = SoftwareIds
  BY <1>1, <1>2 DEF Injection, IsInjective
<1>4. Live(assets)' = Live(assets) /\ a \in Live(assets)
  BY <1>2 DEF CreateSoftware, Writable, Active, Live
<1>5. \A p \in {a} : /\ software'[place[p]] = row[p] /\ row[p].asset \in Live(assets)'
                     /\ ~HasSoftware(row[p].asset, row[p].tuple)
  BY <1>1, <1>2, <1>4 DEF CreateSoftware, NewSoftware
<1>6. \A t \in SoftwareIds : (\A p \in {a} : place[p] # t) => software'[t] = software[t]
  BY <1>1, <1>2
<1>7. IsFiniteSet({a}) /\ Cardinality({a}) = 1
  BY FS_Singleton
<1>8. Cardinality(Live(software)) + Cardinality({a}) <= MaxSoftware
  BY <1>7, LiveFinite, InventoryAssumption DEF CreateSoftware
<1>9. \A p, q \in {a} : row[p].asset = row[q].asset /\ row[p].tuple = row[q].tuple => p = q
  OBVIOUS
<1> HIDE DEF place, row
<1> QED
  BY <1>3, <1>4, <1>5, <1>6, <1>7, <1>8, <1>9, SoftwareInserted

LEMMA SoftwareChanged ==
  ASSUME TraceTypes, SoftwareWhole, NEW s \in SoftwareIds, NEW tuple \in Tuples,
         ChangeSoftware(s, tuple)
  PROVE  SoftwareWhole'
<1>1. /\ s \in Live(software) /\ software[s] \in SoftwareRow
      /\ UNCHANGED assets /\ DOMAIN software = SoftwareIds
  BY DEF ChangeSoftware, Live, TraceTypes
<1>2. PICK row : row = [software[s] EXCEPT !.tuple = tuple, !.version = @ + 1]
  OBVIOUS
<1>3. row \in SoftwareRow /\ row.asset = software[s].asset
  BY <1>1, <1>2, ChangedSoftware
<1>4. row.tuple = tuple /\ row # None
  BY <1>1, <1>2, <1>3, InventoryAssumption DEF SoftwareRow
<1>5. software' = [software EXCEPT ![s] = row]
  BY <1>1, <1>2 DEF ChangeSoftware, SoftwareRow, TraceTypes
<1>6. Live(software)' = Live(software) /\ Live(assets)' = Live(assets)
  BY <1>1, <1>4, <1>5 DEF Live
<1>7. \A t \in Live(software) \ {s} : software'[t] = software[t]
  BY <1>1, <1>5 DEF Live
<1>8. software'[s].asset = software[s].asset /\ software'[s].tuple = tuple
  BY <1>1, <1>3, <1>4, <1>5
<1>9. \A t \in Live(software) \ {s} :
         software[t].asset # software[s].asset \/ software[t].tuple # tuple
  BY <1>1 DEF ChangeSoftware, HasSoftware, SoftwareWhole
<1> QED
  BY <1>6, <1>7, <1>8, <1>9 DEF SoftwareWhole

LEMMA SoftwareDeleted ==
  ASSUME TraceTypes, SoftwareWhole, NEW s \in SoftwareIds, DeleteSoftware(s)
  PROVE  SoftwareWhole'
<1>1. software' = [software EXCEPT ![s] = None] /\ UNCHANGED assets
  BY DEF DeleteSoftware
<1>2. Live(software)' \subseteq Live(software) /\ Live(assets)' = Live(assets)
  BY <1>1 DEF Live
<1>3. \A t \in Live(software)' : software'[t] = software[t]
  BY <1>1 DEF Live
<1>4. /\ Cardinality(Live(software)') <= Cardinality(Live(software))
      /\ Cardinality(Live(software)') \in Nat
  BY <1>2, LiveFinite, FS_Subset, FS_CardinalityType
<1>5. Cardinality(Live(software)') <= MaxSoftware
  BY <1>4, LiveFinite, InventoryAssumption DEF SoftwareWhole
<1> QED
  BY <1>2, <1>3, <1>5 DEF SoftwareWhole

LEMMA AssessmentCreated ==
  ASSUME TraceTypes, AssessmentsWhole, NEW a \in AssetIds, NEW cve \in Cves,
         NEW s \in SoftwareIds \cup {None}, NEW status \in Statuses, CreateAssessment(a, cve, s, status)
  PROVE  AssessmentsWhole'
<1>1. PICK v \in Free(assessments) :
         assessments' = [assessments EXCEPT ![v] = NewAssessment(a, cve, s, status)]
  BY DEF CreateAssessment
<1>2. v \in AssessmentIds /\ DOMAIN assessments = AssessmentIds /\ UNCHANGED assets
  BY DEF TraceTypes, Free, CreateAssessment
<1> DEFINE place == [p \in {a} |-> v]
           row == [p \in {a} |-> NewAssessment(a, cve, s, status)]
<1>3. place \in Injection({a}, Free(assessments)) /\ DOMAIN assessments' = AssessmentIds
  BY <1>1, <1>2 DEF Injection, IsInjective
<1>4. Live(assets)' = Live(assets) /\ a \in Live(assets)
  BY <1>2 DEF CreateAssessment, Writable, Active, Live
<1>5. \A p \in {a} : /\ assessments'[place[p]] = row[p] /\ row[p].asset \in Live(assets)'
                     /\ ~HasCve(row[p].asset, row[p].cve)
  BY <1>1, <1>2, <1>4 DEF CreateAssessment, NewAssessment
<1>6. \A w \in AssessmentIds : (\A p \in {a} : place[p] # w) => assessments'[w] = assessments[w]
  BY <1>1, <1>2
<1>7. IsFiniteSet({a}) /\ Cardinality({a}) = 1
  BY FS_Singleton
<1>8. Cardinality(Live(assessments)) + Cardinality({a}) <= MaxAssessments
  BY <1>7, LiveFinite, InventoryAssumption DEF CreateAssessment
<1>9. \A p, q \in {a} : row[p].asset = row[q].asset /\ row[p].cve = row[q].cve => p = q
  OBVIOUS
<1> HIDE DEF place, row
<1> QED
  BY <1>3, <1>4, <1>5, <1>6, <1>7, <1>8, <1>9, AssessmentsInserted

LEMMA AssessmentUpdated ==
  ASSUME TraceTypes, AssessmentsWhole, NEW v \in AssessmentIds, NEW s \in SoftwareIds \cup {None},
         NEW status \in Statuses, UpdateAssessment(v, s, status)
  PROVE  AssessmentsWhole'
<1>1. /\ v \in Live(assessments) /\ assessments[v] \in AssessmentRow
      /\ UNCHANGED assets /\ DOMAIN assessments = AssessmentIds
  BY DEF UpdateAssessment, Live, TraceTypes
<1>2. PICK row : row = Revised(assessments[v], s, status)
  OBVIOUS
<1>3. row \in AssessmentRow /\ row # None /\ row.asset = assessments[v].asset
  BY <1>1, <1>2, ChangedAssessment, InventoryAssumption
<1>4. row.cve = assessments[v].cve
  BY <1>1, <1>2 DEF Revised, AssessmentRow
<1>5. assessments' = [assessments EXCEPT ![v] = row]
  BY <1>2 DEF UpdateAssessment, Revised
<1>6. Live(assessments)' = Live(assessments) /\ Live(assets)' = Live(assets)
  BY <1>1, <1>3, <1>5 DEF Live
<1>7. \A w \in Live(assessments) :
         assessments'[w].asset = assessments[w].asset /\ assessments'[w].cve = assessments[w].cve
  BY <1>1, <1>3, <1>4, <1>5 DEF Live
<1> QED
  BY <1>6, <1>7 DEF AssessmentsWhole

-----------------------------------------------------------------------------
(* The tables after an import                                              *)

\* The asset of every group that is committed.
AssetFor(groups) ==
    [g \in groups |-> IF g \in Created(groups) THEN Place(Created(groups), assets)[g]
                      ELSE CHOOSE a \in Named(g.name) : TRUE]

LEMMA GroupAssets ==
  ASSUME ImportInv, TraceTypes, PreviewsNamed, NEW actor \in Admins,
         CommitImport(actor), NEW groups, groups = imports[actor].groups
  PROVE  /\ GroupsNamed(groups) /\ IsFiniteSet(Created(groups)) /\ Created(groups) \subseteq groups
         /\ Place(Created(groups), assets) \in Injection(Created(groups), Free(assets))
         /\ \A g \in Created(groups) :
               /\ AssetFor(groups)[g] = Place(Created(groups), assets)[g]
               /\ AssetFor(groups)[g] \in AssetIds \ Live(assets)
         /\ \A g \in groups \ Created(groups) :
               AssetFor(groups)[g] \in Named(g.name) /\ AssetFor(groups)[g] \in Active
         /\ \A g, h \in groups : AssetFor(groups)[g] = AssetFor(groups)[h] => g = h
<1> DEFINE new == Created(groups)
           place == Place(new, assets)
<1>1. Room(new, assets) /\ IsOpen(imports[actor]) /\ Importable(groups)
  BY DEF CommitImport
<1>2. IsFiniteSet(groups) /\ GroupsNamed(groups)
  BY <1>1 DEF ImportInv, PreviewKnown, GroupsFinite, PreviewsNamed
<1>3. IsFiniteSet(new) /\ new \subseteq groups /\ DOMAIN assets = AssetIds /\ IsFiniteSet(DOMAIN assets)
  BY <1>2, FS_Subset, InventoryAssumption DEF Created, TraceTypes
<1>4. place \in Injection(new, Free(assets))
  BY <1>1, <1>3, Placed
<1>5. \A g \in new : AssetFor(groups)[g] = place[g]
  BY <1>3 DEF AssetFor
<1>6. \A g \in new : place[g] \in AssetIds \ Live(assets)
  BY <1>3, <1>4 DEF Injection, Free
<1>7. ASSUME NEW g \in groups \ new
      PROVE  AssetFor(groups)[g] \in Named(g.name) /\ AssetFor(groups)[g] \in Active
  <2>1. Named(g.name) # {}
    BY DEF Created
  <2>2. AssetFor(groups)[g] \in Named(g.name)
    BY <2>1 DEF AssetFor
  <2> QED
    BY <1>1, <2>2 DEF Importable
<1> HIDE DEF new, place
<1>8. \A g, h \in new : place[g] = place[h] => g = h
  BY <1>4 DEF Injection, IsInjective
<1>9. \A g \in groups \ new : AssetFor(groups)[g] \in Live(assets)
                              /\ assets[AssetFor(groups)[g]].name = g.name
  BY <1>7 DEF Named
<1>10. \A g, h \in groups : AssetFor(groups)[g] = AssetFor(groups)[h] => g = h
  BY <1>2, <1>5, <1>6, <1>8, <1>9 DEF GroupsNamed
<1> QED
  BY <1>2, <1>3, <1>4, <1>5, <1>6, <1>7, <1>10 DEF new, place

LEMMA ImportedAssets ==
  ASSUME ImportInv, TraceTypes, AssetsWhole, PreviewsNamed, NEW actor \in Admins,
         CommitImport(actor)
  PROVE  /\ AssetsWhole' /\ Live(assets) \subseteq Live(assets)'
         /\ \A g \in imports[actor].groups :
               AssetFor(imports[actor].groups)[g] \in Live(assets)'
<1> DEFINE groups == imports[actor].groups
           new == Created(groups)
           place == Place(new, assets)
           IdOf(g) == IF g \in new THEN place[g] ELSE CHOOSE a \in Named(g.name) : TRUE
           id == [g \in groups |-> IdOf(g)]
           At(a) == CHOOSE g \in DOMAIN id : id[g] = a
           Merged(g) == IF g \in new THEN NewAsset(g.name, g.fields)
                        ELSE [assets[IdOf(g)] EXCEPT !.fields = g.fields, !.version = @ + 1]
           called == [g \in new |-> g.name]
<1>1. DOMAIN assets = AssetIds /\ assets \in [AssetIds -> AssetRow \cup {None}]
  BY DEF AssetsWhole
<1>a. id = AssetFor(groups)
  BY DEF AssetFor
<1>b. \A g \in groups : id[g] = IdOf(g)
  OBVIOUS
<1>c. assets' = [a \in DOMAIN assets |->
                    IF \E g \in DOMAIN id : id[g] = a THEN Merged(At(a)) ELSE assets[a]]
  BY DEF CommitImport, Insert
<1>d. DOMAIN id = groups
  OBVIOUS
<1>2. /\ GroupsNamed(groups) /\ IsFiniteSet(new) /\ new \subseteq groups
      /\ place \in Injection(new, Free(assets))
      /\ \A g \in new : id[g] = place[g] /\ id[g] \in AssetIds \ Live(assets)
      /\ \A g \in groups \ new : id[g] \in Named(g.name) /\ id[g] \in Active
      /\ \A g, h \in groups : id[g] = id[h] => g = h
  <2> HIDE DEF id
  <2> QED
    BY <1>a, GroupAssets
<1> HIDE DEF groups, IdOf, id
<1>3. assets' = [a \in AssetIds |-> IF \E g \in groups : id[g] = a THEN Merged(At(a)) ELSE assets[a]]
  BY <1>1, <1>c, <1>d
<1>4. \A g \in groups : At(id[g]) = g
  BY <1>2, <1>d
<1>5. \A g \in groups : id[g] \in AssetIds
  BY <1>1, <1>2 DEF Active, Live
<1>6. \A g \in groups : assets'[id[g]] = Merged(g)
  <2> HIDE DEF At, Merged
  <2> QED
    BY <1>3, <1>4, <1>5
<1>7. ASSUME NEW g \in new
      PROVE  Merged(g) \in AssetRow /\ Merged(g) # None /\ Merged(g).name = g.name
  <2>1. Merged(g) = NewAsset(g.name, g.fields) /\ g.name \in Names /\ g.fields \in Fields
    BY <1>2 DEF GroupsNamed
  <2>2. NewAsset(g.name, g.fields) \in AssetRow /\ NewAsset(g.name, g.fields).name = g.name
    BY <2>1 DEF NewAsset, AssetRow
  <2> HIDE DEF Merged
  <2> QED
    BY <2>1, <2>2, InventoryAssumption
<1>8. ASSUME NEW g \in groups \ new
      PROVE  /\ Merged(g) \in AssetRow /\ Merged(g) # None
             /\ Merged(g).name = assets[id[g]].name /\ Merged(g).archived = assets[id[g]].archived
  <2>0. Merged(g) = [assets[id[g]] EXCEPT !.fields = g.fields, !.version = @ + 1]
    BY <1>b
  <2>1. PICK old \in AssetRow : old = assets[id[g]]
    BY <1>1, <1>2 DEF Active, Live
  <2>2. g.fields \in Fields
    BY <1>2 DEF GroupsNamed
  <2>3. PICK version \in Nat, name \in Names, archived \in BOOLEAN, fields \in Fields :
           version = old.version + 1 /\ name = old.name /\ archived = old.archived /\ fields = g.fields
    BY <2>2 DEF AssetRow
  <2> HIDE DEF Merged
  <2>4. Merged(g) = [name |-> name, fields |-> fields, archived |-> archived, version |-> version]
    BY <2>1, <2>3, <2>0 DEF AssetRow
  <2> QED
    BY <2>1, <2>3, <2>4, AssetRevised
<1> HIDE DEF Merged, At
<1>9. \A a \in AssetIds : (\A g \in groups : id[g] # a) => assets'[a] = assets[a]
  BY <1>3
<1>10. ASSUME NEW a \in AssetIds
       PROVE  /\ assets'[a] \in AssetRow \cup {None}
              /\ assets'[a] # None => a \in Live(assets) \/ \E g \in new : a = place[g]
              /\ a \in Live(assets) => /\ assets'[a] # None /\ assets'[a].name = assets[a].name
                                       /\ assets'[a].archived = assets[a].archived
  <2>1. CASE \A g \in groups : id[g] # a
    BY <1>1, <1>9, <2>1 DEF Live
  <2>2. ASSUME NEW g \in new, id[g] = a
        PROVE  a = place[g] /\ assets'[a] \in AssetRow /\ a \notin Live(assets)
    BY <1>2, <1>6, <1>7, <2>2
  <2>3. ASSUME NEW g \in groups \ new, id[g] = a
        PROVE  /\ a \in Live(assets) /\ assets'[a] \in AssetRow /\ assets'[a] # None
               /\ assets'[a].name = assets[a].name /\ assets'[a].archived = assets[a].archived
    BY <1>2, <1>6, <1>8, <2>3 DEF Named
  <2> QED
    BY <2>1, <2>2, <2>3
<1>11. assets' \in [AssetIds -> AssetRow \cup {None}]
  <2>1. assets' = [a \in AssetIds |-> assets'[a]]
    BY <1>3
  <2> QED
    BY <1>10, <2>1
<1>12. \A g \in new : assets'[place[g]].name = called[g] /\ Named(called[g]) = {}
  <2>1. \A g \in new : Named(g.name) = {}
    BY DEF Created
  <2>2. \A g \in new : called[g] = g.name
    OBVIOUS
  <2> HIDE DEF new, place, called
  <2> QED
    BY <1>2, <1>6, <1>7, <2>1, <2>2
<1>13. \A g, h \in new : called[g] = called[h] => g = h
  BY <1>2 DEF GroupsNamed
<1>14. Cardinality(Active) + Cardinality(new) <= MaxAssets
  BY DEF CommitImport, Importable, Summary, groups
<1>15. /\ \A a \in Live(assets) : /\ assets'[a] # None /\ assets'[a].name = assets[a].name
                                  /\ assets'[a].archived = assets[a].archived
       /\ \A a \in AssetIds : assets'[a] # None => a \in Live(assets) \/ \E g \in new : a = place[g]
  <2>1. \A a \in Live(assets) : a \in AssetIds
    BY <1>1 DEF Live
  <2> QED
    BY <1>10, <2>1
<1>16. AssetsWhole' /\ Live(assets) \subseteq Live(assets)'
  <2> HIDE DEF new, place, called, id
  <2>1. IsFiniteSet(new) /\ place \in Injection(new, Free(assets))
    BY <1>2
  <2>2. AssetsGrow(new, place, called)
    BY <1>11, <1>12, <1>13, <1>14, <1>15, <2>1 DEF AssetsGrow
  <2> QED
    BY <2>2, AssetsInserted
<1>17. \A g \in groups : id[g] \in Live(assets)'
  <2>1. \A g \in groups : Merged(g) # None
    BY <1>7, <1>8
  <2> QED
    BY <1>5, <1>6, <1>11, <2>1 DEF Live
<1> QED
  BY <1>16, <1>17, <1>a DEF groups

\* A pair of an import is new to the asset of its group.
LEMMA PairsNew ==
  ASSUME ImportInv, TraceTypes, PreviewsNamed, NEW actor \in Admins,
         CommitImport(actor), NEW groups, groups = imports[actor].groups
  PROVE  /\ SoftwareWhole => \A pair \in Pairs(groups, SoftwareAdded) :
               pair[1] \in groups /\ ~HasSoftware(AssetFor(groups)[pair[1]], pair[2])
         /\ AssessmentsWhole => \A pair \in Pairs(groups, CvesAdded) :
               pair[1] \in groups /\ ~HasCve(AssetFor(groups)[pair[1]], pair[2])
         /\ \A p, q \in Pairs(groups, SoftwareAdded) \cup Pairs(groups, CvesAdded) :
               AssetFor(groups)[p[1]] = AssetFor(groups)[q[1]] /\ p[2] = q[2] => p = q
<1> DEFINE id == AssetFor(groups)
<1>1. /\ \A g \in Created(groups) : id[g] \notin Live(assets)
      /\ \A g \in groups \ Created(groups) : id[g] \in Named(g.name)
      /\ \A g, h \in groups : id[g] = id[h] => g = h
  BY GroupAssets
<1>2. \A pair \in Pairs(groups, SoftwareAdded) :
         /\ pair = <<pair[1], pair[2]>> /\ pair[1] \in groups
         /\ \A a \in Named(pair[1].name) : ~HasSoftware(a, pair[2])
  BY DEF Pairs, SoftwareAdded
<1>3. \A pair \in Pairs(groups, CvesAdded) :
         /\ pair = <<pair[1], pair[2]>> /\ pair[1] \in groups
         /\ \A a \in Named(pair[1].name) : ~HasCve(a, pair[2])
  BY DEF Pairs, CvesAdded
<1> HIDE DEF id
<1>4. ASSUME SoftwareWhole, NEW pair \in Pairs(groups, SoftwareAdded)
      PROVE  ~HasSoftware(id[pair[1]], pair[2])
  BY <1>1, <1>2, <1>4 DEF SoftwareWhole, HasSoftware
<1>5. ASSUME AssessmentsWhole, NEW pair \in Pairs(groups, CvesAdded)
      PROVE  ~HasCve(id[pair[1]], pair[2])
  BY <1>1, <1>3, <1>5 DEF AssessmentsWhole, HasCve
<1>6. \A p, q \in Pairs(groups, SoftwareAdded) \cup Pairs(groups, CvesAdded) :
         id[p[1]] = id[q[1]] /\ p[2] = q[2] => p = q
  BY <1>1, <1>2, <1>3
<1> QED
  BY <1>2, <1>3, <1>4, <1>5, <1>6 DEF id

LEMMA ImportedSoftware ==
  ASSUME ImportInv, TraceInv, AssetsWhole, SoftwareWhole, PreviewsNamed, NEW actor \in Admins,
         CommitImport(actor)
  PROVE  SoftwareWhole'
<1> DEFINE groups == imports[actor].groups
           new == Pairs(groups, SoftwareAdded)
           place == Place(new, software)
           id == AssetFor(groups)
           SwAt(s) == CHOOSE pair \in DOMAIN place : place[pair] = s
           row == [pair \in new |-> NewSoftware(id[pair[1]], pair[2])]
<1>1. TraceTypes /\ DOMAIN software = SoftwareIds /\ IsOpen(imports[actor]) /\ Room(new, software)
      /\ Importable(groups)
  BY DEF TraceInv, TraceTypes, CommitImport
<1>2. IsFiniteSet(new)
  BY <1>1, PairsFinite DEF ImportInv, PreviewKnown
<1>3. place \in Injection(new, Free(software)) /\ DOMAIN place = new
  <2>1. place \in Injection(new, Free(software))
    BY <1>1, <1>2, Placed, InventoryAssumption
  <2> QED
    BY <2>1 DEF Injection
<1>4. \A pair \in new : pair[1] \in groups /\ ~HasSoftware(id[pair[1]], pair[2])
  BY <1>1, PairsNew
<1>5. \A p, q \in new : id[p[1]] = id[q[1]] /\ p[2] = q[2] => p = q
  BY <1>1, PairsNew
<1>6. Live(assets) \subseteq Live(assets)' /\ \A g \in groups : id[g] \in Live(assets)'
  BY <1>1, ImportedAssets
<1>7. software' = [s \in SoftwareIds |->
                     IF \E pair \in DOMAIN place : place[pair] = s
                     THEN LET pair == SwAt(s) IN
                          NewSoftware(IF pair[1] \in Created(groups)
                                      THEN Place(Created(groups), assets)[pair[1]]
                                      ELSE CHOOSE a \in Named(pair[1].name) : TRUE, pair[2])
                     ELSE software[s]]
  BY <1>1 DEF CommitImport, Insert
<1>8. \A g \in groups : id[g] = IF g \in Created(groups) THEN Place(Created(groups), assets)[g]
                                ELSE CHOOSE a \in Named(g.name) : TRUE
  BY DEF AssetFor
<1>9. \A p \in new : row[p].asset = id[p[1]] /\ row[p].tuple = p[2]
  BY DEF NewSoftware
<1>10. \A p \in new : SwAt(place[p]) = p /\ place[p] \in SoftwareIds
  <2> HIDE DEF new, place
  <2>1. \A p, q \in new : place[p] = place[q] => p = q
    BY <1>3 DEF Injection, IsInjective
  <2> QED
    BY <1>1, <1>3, <2>1 DEF Injection, Free
<1>11. Cardinality(Live(software)) + Cardinality(new) <= MaxSoftware
  BY <1>1 DEF Importable, Summary
<1> HIDE DEF groups, new, place, id, SwAt
<1>12. \A p \in new : software'[place[p]] = row[p]
  BY <1>3, <1>4, <1>7, <1>8, <1>10
<1>13. \A s \in SoftwareIds : (\A p \in new : place[p] # s) => software'[s] = software[s]
  BY <1>3, <1>7
<1>14. DOMAIN software' = SoftwareIds
  BY <1>7
<1> HIDE DEF row
<1>15. /\ \A p \in new : software'[place[p]] = row[p] /\ row[p].asset \in Live(assets)'
       /\ \A p, q \in new : row[p].asset = row[q].asset /\ row[p].tuple = row[q].tuple => p = q
       /\ \A p \in new : ~HasSoftware(row[p].asset, row[p].tuple)
  BY <1>4, <1>5, <1>6, <1>9, <1>12
<1> QED
  BY <1>1, <1>2, <1>3, <1>6, <1>11, <1>13, <1>14, <1>15, SoftwareInserted

LEMMA ImportedAssessments ==
  ASSUME ImportInv, TraceInv, AssetsWhole, AssessmentsWhole, PreviewsNamed, NEW actor \in Admins,
         CommitImport(actor)
  PROVE  AssessmentsWhole'
<1> DEFINE groups == imports[actor].groups
           new == Pairs(groups, CvesAdded)
           place == Place(new, assessments)
           id == AssetFor(groups)
           CveAt(v) == CHOOSE pair \in DOMAIN place : place[pair] = v
           row == [pair \in new |-> NewAssessment(id[pair[1]], pair[2], None, "open")]
<1>1. TraceTypes /\ DOMAIN assessments = AssessmentIds /\ IsOpen(imports[actor])
      /\ Room(new, assessments) /\ Importable(groups)
  BY DEF TraceInv, TraceTypes, CommitImport
<1>2. IsFiniteSet(new)
  BY <1>1, PairsFinite DEF ImportInv, PreviewKnown
<1>3. place \in Injection(new, Free(assessments)) /\ DOMAIN place = new
  <2>1. place \in Injection(new, Free(assessments))
    BY <1>1, <1>2, Placed, InventoryAssumption
  <2> QED
    BY <2>1 DEF Injection
<1>4. \A pair \in new : pair[1] \in groups /\ ~HasCve(id[pair[1]], pair[2])
  BY <1>1, PairsNew
<1>5. \A p, q \in new : id[p[1]] = id[q[1]] /\ p[2] = q[2] => p = q
  BY <1>1, PairsNew
<1>6. Live(assets) \subseteq Live(assets)' /\ \A g \in groups : id[g] \in Live(assets)'
  BY <1>1, ImportedAssets
<1>7. assessments' = [v \in AssessmentIds |->
                        IF \E pair \in DOMAIN place : place[pair] = v
                        THEN LET pair == CveAt(v) IN
                             NewAssessment(IF pair[1] \in Created(groups)
                                           THEN Place(Created(groups), assets)[pair[1]]
                                           ELSE CHOOSE a \in Named(pair[1].name) : TRUE,
                                           pair[2], None, "open")
                        ELSE assessments[v]]
  BY <1>1 DEF CommitImport, Insert
<1>8. \A g \in groups : id[g] = IF g \in Created(groups) THEN Place(Created(groups), assets)[g]
                                ELSE CHOOSE a \in Named(g.name) : TRUE
  BY DEF AssetFor
<1>9. \A p \in new : row[p].asset = id[p[1]] /\ row[p].cve = p[2]
  BY DEF NewAssessment
<1>10. \A p \in new : CveAt(place[p]) = p /\ place[p] \in AssessmentIds
  <2> HIDE DEF new, place
  <2>1. \A p, q \in new : place[p] = place[q] => p = q
    BY <1>3 DEF Injection, IsInjective
  <2> QED
    BY <1>1, <1>3, <2>1 DEF Injection, Free
<1>11. Cardinality(Live(assessments)) + Cardinality(new) <= MaxAssessments
  BY <1>1 DEF Importable, Summary
<1> HIDE DEF groups, new, place, id, CveAt
<1>12. \A p \in new : assessments'[place[p]] = row[p]
  BY <1>3, <1>4, <1>7, <1>8, <1>10
<1>13. \A v \in AssessmentIds : (\A p \in new : place[p] # v) => assessments'[v] = assessments[v]
  BY <1>3, <1>7
<1>14. DOMAIN assessments' = AssessmentIds
  BY <1>7
<1> HIDE DEF row
<1>15. /\ \A p \in new : assessments'[place[p]] = row[p] /\ row[p].asset \in Live(assets)'
       /\ \A p, q \in new : row[p].asset = row[q].asset /\ row[p].cve = row[q].cve => p = q
       /\ \A p \in new : ~HasCve(row[p].asset, row[p].cve)
  BY <1>4, <1>5, <1>6, <1>9, <1>12
<1> QED
  BY <1>1, <1>2, <1>3, <1>6, <1>11, <1>13, <1>14, <1>15, AssessmentsInserted


\* Linked assets change nothing but their version.
LEMMA SelectedAssets ==
  ASSUME AssetsInv, TraceTypes, AssetsWhole, PreviewsNamed, NEW actor \in Admins,
         CommitSelection(actor)
  PROVE  AssetsWhole' /\ Live(assets) \subseteq Live(assets)'
<1> DEFINE items == selections[actor].items
           new == CreatedIn(items)
           place == Place(new, assets)
           AssetOf(i) == IF Creates(items[i]) THEN place[i] ELSE items[i].target
           touched == {AssetOf(i) : i \in DOMAIN items}
           At(a) == CHOOSE i \in new : place[i] = a
           plain == CHOOSE fields \in Fields : TRUE
           later(a) == VersionAt(items, Len(items) + 1, a)
           called == [i \in new |-> items[i].name]
<1>1. /\ IsOpen(selections[actor]) /\ Acceptable(items) /\ Room(new, assets)
      /\ assets' = [a \in AssetIds |->
                      IF a \notin touched THEN assets[a]
                      ELSE IF assets[a] = None THEN NewAsset((items[At(a)]).name, plain)
                      ELSE [assets[a] EXCEPT !.version = later(a)]]
  BY DEF CommitSelection
<1>2. PICK S : items \in Seq(S)
  BY <1>1 DEF AssetsInv, SelectionInv
<1>3. Len(items) \in Nat /\ DOMAIN items = 1..Len(items) /\ new \subseteq DOMAIN items
  BY <1>2 DEF CreatedIn
<1>4. IsFiniteSet(1..Len(items)) /\ IsFiniteSet(new)
  <2> HIDE DEF items, new
  <2>1. IsFiniteSet(1..Len(items))
    BY <1>3, FS_Interval
  <2> QED
    BY <1>3, <2>1, FS_Subset
<1>5. DOMAIN assets = AssetIds
  BY DEF TraceTypes
<1>6. place \in Injection(new, Free(assets))
  BY <1>1, <1>4, <1>5, Placed, InventoryAssumption
<1>7. plain \in Fields
  BY InventoryAssumption
<1>8. \A i \in new : items[i].name \in Names
  BY <1>1 DEF CreatedIn, PreviewsNamed
<1>9. \A i \in DOMAIN items : i \in new <=> Creates(items[i])
  BY DEF CreatedIn
<1> HIDE DEF new, place
<1>10. \A i \in new : place[i] \in AssetIds /\ assets[place[i]] = None
  BY <1>5, <1>6 DEF Injection, Free, Live
<1>11. \A i \in new : place[i] \in touched /\ At(place[i]) = i
  <2>1. \A i, j \in new : place[i] = place[j] => i = j
    BY <1>6 DEF Injection, IsInjective
  <2>2. ASSUME NEW i \in new
        PROVE  place[i] \in touched
    BY <1>3, <1>9
  <2> QED
    BY <2>1, <2>2
<1>12. \A a \in touched : a \in Live(assets) \/ \E i \in new : a = place[i]
  <2> SUFFICES ASSUME NEW i \in DOMAIN items, i \notin new
               PROVE  items[i].target \in Live(assets)
    BY <1>9
  <2> QED
    BY <1>1, <1>9 DEF Acceptable, Writable, Active
<1>13. ASSUME NEW a \in AssetIds
       PROVE  later(a) = assets[a].version
                            + Cardinality({j \in 1..Len(items) : items[j].target = a})
  BY <1>3 DEF VersionAt
<1> HIDE DEF items, touched, At, plain, later
<1>14. ASSUME NEW i \in new
       PROVE  /\ assets'[place[i]] \in AssetRow /\ assets'[place[i]] # None
              /\ assets'[place[i]].name = called[i]
  <2>1. assets'[place[i]] = NewAsset(items[i].name, plain)
    BY <1>1, <1>10, <1>11
  <2>2. NewAsset(items[i].name, plain) \in AssetRow
        /\ NewAsset(items[i].name, plain).name = items[i].name
    BY <1>7, <1>8 DEF NewAsset, AssetRow
  <2> QED
    BY <2>1, <2>2, InventoryAssumption
<1>15. ASSUME NEW a \in Live(assets)
       PROVE  /\ assets'[a] \in AssetRow /\ assets'[a] # None
              /\ assets'[a].name = assets[a].name /\ assets'[a].archived = assets[a].archived
  <2>1. a \in AssetIds /\ assets[a] # None
    BY <1>5 DEF Live
  <2>2. PICK old \in AssetRow : old = assets[a]
    BY <2>1 DEF AssetsWhole
  <2>3. CASE a \notin touched
    BY <1>1, <2>1, <2>2, <2>3
  <2>4. CASE a \in touched
    <3>1. Cardinality({j \in 1..Len(items) : items[j].target = a}) \in Nat
      <4>1. IsFiniteSet({j \in 1..Len(items) : items[j].target = a})
        BY <1>4, FS_Subset
      <4> QED
        BY <4>1, FS_CardinalityType
    <3>2. old.version \in Nat /\ old.name \in Names /\ old.archived \in BOOLEAN /\ old.fields \in Fields
      BY DEF AssetRow
    <3>3. PICK version \in Nat, name \in Names, archived \in BOOLEAN, fields \in Fields :
             version = later(a) /\ name = old.name /\ archived = old.archived /\ fields = old.fields
      BY <1>13, <2>1, <2>2, <3>1, <3>2
    <3>4. assets'[a] = [old EXCEPT !.version = version]
      BY <1>1, <2>1, <2>2, <2>4, <3>3
    <3>5. assets'[a] = [name |-> name, fields |-> fields, archived |-> archived, version |-> version]
      BY <3>3, <3>4 DEF AssetRow
    <3> QED
      BY <2>2, <3>3, <3>5, AssetRevised
  <2> QED
    BY <2>3, <2>4
<1>16. ASSUME NEW a \in AssetIds, a \notin Live(assets), \A i \in new : a # place[i]
       PROVE  assets'[a] = None
  BY <1>1, <1>5, <1>12, <1>16 DEF Live
<1>17. assets' \in [AssetIds -> AssetRow \cup {None}]
  <2>1. assets' = [a \in AssetIds |-> assets'[a]]
    BY <1>1
  <2>2. \A a \in AssetIds : assets'[a] \in AssetRow \cup {None}
    BY <1>14, <1>15, <1>16
  <2> QED
    BY <2>1, <2>2
<1>18. /\ \A i \in new : Named(called[i]) = {}
       /\ \A i, j \in new : called[i] = called[j] => i = j
       /\ Cardinality(Active) + Cardinality(new) <= MaxAssets
  BY <1>1, <1>3, <1>9 DEF Acceptable, new
<1> HIDE DEF called
<1>19. AssetsGrow(new, place, called)
  BY <1>4, <1>6, <1>14, <1>15, <1>16, <1>17, <1>18 DEF AssetsGrow
<1> QED
  BY <1>19, AssetsInserted

-----------------------------------------------------------------------------
(* The previews                                                            *)

LEMMA NamedGroups ==
  ASSUME NEW file \in Files, Parsable(file)
  PROVE  GroupsNamed(Groups(file))
<1>1. \A r1, r2 \in file : r1.name = r2.name => r1.fields = r2.fields
  BY DEF Parsable
<1>2. \A row \in file : row.name \in Names /\ row.fields \in Fields
  BY InventoryAssumption
<1> DEFINE tuples(name) == {r.software : r \in RowsOf(file, name)} \ {None}
           cves(name) == UNION {r.cves : r \in RowsOf(file, name)}
<1>3. Groups(file) = {[name |-> row.name, fields |-> row.fields, software |-> tuples(row.name),
                       cves |-> cves(row.name)] : row \in file}
  BY DEF Groups
<1> HIDE DEF tuples, cves
<1>4. ASSUME NEW g \in Groups(file)
      PROVE  \E row \in file : /\ g.name = row.name /\ g.fields = row.fields
                               /\ g = [name |-> row.name, fields |-> row.fields,
                                      software |-> tuples(row.name), cves |-> cves(row.name)]
  BY <1>3
<1>5. \A g, h \in Groups(file) : g.name = h.name => g = h
  <2> SUFFICES ASSUME NEW g \in Groups(file), NEW h \in Groups(file), g.name = h.name
               PROVE  g = h
    OBVIOUS
  <2>1. PICK r1 \in file : /\ g.name = r1.name
                           /\ g = [name |-> r1.name, fields |-> r1.fields,
                                  software |-> tuples(r1.name), cves |-> cves(r1.name)]
    BY <1>4
  <2>2. PICK r2 \in file : /\ h.name = r2.name
                           /\ h = [name |-> r2.name, fields |-> r2.fields,
                                  software |-> tuples(r2.name), cves |-> cves(r2.name)]
    BY <1>4
  <2>3. r1.name = r2.name /\ r1.fields = r2.fields
    BY <1>1, <2>1, <2>2
  <2> QED
    BY <2>1, <2>2, <2>3
<1> QED
  BY <1>2, <1>4, <1>5 DEF GroupsNamed

LEMMA NamedChoices ==
  ASSUME DOMAIN assets = AssetIds, NEW item \in Choices, Creates(item)
  PROVE  item.name \in Names
<1>1. \A a \in Live(assets) : a # None
  BY InventoryAssumption DEF Live
<1> QED
  BY <1>1 DEF Choices, Item, Creates

LEMMA PreviewsStayNamed ==
  ASSUME AssetsInv, PreviewsNamed, DOMAIN assets = AssetIds, [AssetsNext]_<<inventoryVars, discoveryVars>>
  PROVE  PreviewsNamed'
<1> DEFINE importNamed(preview) == IsOpen(preview) => GroupsNamed(preview.groups)
           chosenNamed(preview) ==
              IsOpen(preview) => \A i \in DOMAIN preview.items :
                 Creates(preview.items[i]) => preview.items[i].name \in Names
<1>1. PreviewsNamed <=> /\ \A actor \in Admins : importNamed(imports[actor])
                        /\ \A actor \in Admins : chosenNamed(selections[actor])
  BY DEF PreviewsNamed
<1>2. PreviewsNamed' <=> /\ \A actor \in Admins : importNamed(imports'[actor])
                         /\ \A actor \in Admins : chosenNamed(selections'[actor])
  BY DEF PreviewsNamed, IsOpen, Creates, GroupsNamed
<1>3. importNamed(Spent) /\ importNamed(None) /\ chosenNamed(Spent) /\ chosenNamed(None)
  BY SpentNotOpen DEF IsOpen
<1>4. \A actor \in Admins : importNamed(imports'[actor])
  <2>1. CASE UNCHANGED imports
    BY <1>1, <2>1
  <2>2. ASSUME NEW actor \in Admins, imports' = [imports EXCEPT ![actor] = Spent]
        PROVE  \A other \in Admins : importNamed(imports'[other])
    <3>1. \A other \in Admins : imports'[other] \in {Spent, imports[other]}
      BY <2>2 DEF AssetsInv, ImportInv
    <3> HIDE DEF importNamed
    <3> QED
      BY <1>1, <1>3, <3>1
  <2>3. ASSUME NEW actor \in Admins, NEW file \in Files, PreviewImport(actor, file)
        PROVE  \A other \in Admins : importNamed(imports'[other])
    <3>1. imports'[actor].groups = Groups(file)
      BY <2>3, ReplacedOwn DEF PreviewImport
    <3>2. importNamed(imports'[actor])
      BY <2>3, <3>1, NamedGroups DEF PreviewImport
    <3>3. \A other \in Admins : other # actor => imports'[other] \in {imports[other], None}
      BY <2>3 DEF PreviewImport, Replaced
    <3> HIDE DEF importNamed
    <3> QED
      BY <1>1, <1>3, <3>2, <3>3
  <2> HIDE DEF importNamed
  <2> QED
    BY <2>1, <2>2, <2>3
       DEF AssetsNext, InventoryNext, CreateAsset, UpdateAsset, ArchiveAsset, CreateSoftware,
           ChangeSoftware, DeleteSoftware, CreateAssessment, UpdateAssessment, ExpireImport, CommitImport,
           DiscoveryNext, inventoryVars, RecordObservation, GrowOld, MonthPasses, CleanUp, SaveProfile,
           ChangeNetworkPolicy, ReviewCandidate, PreviewSelection, ExpireSelection, CommitSelection
<1>5. \A actor \in Admins : chosenNamed(selections'[actor])
  <2>1. CASE UNCHANGED selections
    BY <1>1, <2>1
  <2>2. ASSUME NEW actor \in Admins, selections' = [selections EXCEPT ![actor] = Spent]
        PROVE  \A other \in Admins : chosenNamed(selections'[other])
    <3>1. \A other \in Admins : selections'[other] \in {Spent, selections[other]}
      BY <2>2 DEF AssetsInv, SelectionInv
    <3> HIDE DEF chosenNamed
    <3> QED
      BY <1>1, <1>3, <3>1
  <2>3. ASSUME NEW actor \in Admins, NEW n \in 1..MaxItems, NEW items \in [1..n -> Choices],
               PreviewSelection(actor, items)
        PROVE  \A other \in Admins : chosenNamed(selections'[other])
    <3>1. selections'[actor].items = items
      BY <2>3, ReplacedOwn DEF PreviewSelection
    <3>2. \A i \in DOMAIN items : Creates(items[i]) => items[i].name \in Names
      BY NamedChoices
    <3>3. \A other \in Admins : other # actor => selections'[other] \in {selections[other], None}
      BY <2>3 DEF PreviewSelection, Replaced
    <3>4. chosenNamed(selections'[actor])
      BY <3>1, <3>2
    <3> HIDE DEF chosenNamed
    <3> QED
      BY <1>1, <1>3, <3>3, <3>4
  <2> HIDE DEF chosenNamed
  <2> QED
    BY <2>1, <2>2, <2>3
       DEF AssetsNext, discoveryVars, DiscoveryNext, RecordObservation, GrowOld, MonthPasses, CleanUp,
           SaveProfile, ChangeNetworkPolicy, ReviewCandidate, ExpireSelection, CommitSelection
<1> QED
  BY <1>2, <1>4, <1>5

-----------------------------------------------------------------------------
(* The evidence                                                            *)

\* The previews of a step had room before it.
LEMMA EvidenceStays ==
  ASSUME RevisionHolds, ReviewInv, EvidenceInv, UNCHANGED <<links, addresses>>,
         \A actor \in Admins : IsOpen(selections'[actor]) =>
            \/ IsOpen(selections[actor]) /\ selections'[actor] = selections[actor]
            \/ RoomForEvidence(selections'[actor]) /\ selections'[actor].revision = revision
  PROVE  EvidenceInv'
<1>1. ASSUME NEW actor \in Admins, IsOpen(selections'[actor])
      PROVE  RoomForEvidence(selections[actor])'
  <2>1. PICK preview : preview = selections'[actor]
    OBVIOUS
  <2>2. CASE IsOpen(selections[actor]) /\ selections'[actor] = selections[actor]
    <3>1. RoomForEvidence(preview) /\ preview.revision \in 0..revision
      BY <2>1, <2>2 DEF ReviewInv, SelectionKnown, EvidenceInv
    <3> QED
      BY <2>1, <3>1 DEF RoomForEvidence, RevisionHolds
  <2>3. CASE RoomForEvidence(preview) /\ preview.revision = revision
    BY <2>1, <2>3 DEF RoomForEvidence, RevisionHolds
  <2> QED
    BY <1>1, <2>1, <2>2, <2>3
<1> QED
  BY <1>1 DEF EvidenceInv, EvidenceHolds, IsOpen

LEMMA EvidencePreviewed ==
  ASSUME RevisionHolds, ReviewInv, EvidenceInv, NEW actor \in Admins, NEW n \in 1..MaxItems,
         NEW items \in [1..n -> Choices], PreviewSelection(actor, items)
  PROVE  EvidenceInv'
<1> DEFINE preview == [state |-> "open", items |-> items, revision |-> revision, policy |-> policy]
<1>1. selections'[actor] = preview
  BY ReplacedOwn DEF PreviewSelection
<1>2. RoomForEvidence(preview) /\ preview.revision = revision
  BY DEF RoomForEvidence, PreviewSelection
<1>3. \A other \in Admins : other # actor => selections'[other] \in {selections[other], None}
  BY DEF PreviewSelection, Replaced
<1> HIDE DEF preview
<1>4. \A other \in Admins : IsOpen(selections'[other]) =>
         \/ IsOpen(selections[other]) /\ selections'[other] = selections[other]
         \/ RoomForEvidence(selections'[other]) /\ selections'[other].revision = revision
  BY <1>1, <1>2, <1>3 DEF IsOpen
<1>5. UNCHANGED <<links, addresses>>
  BY DEF PreviewSelection
<1> QED
  BY <1>4, <1>5, EvidenceStays

\* A commit adds no more than its items, for which its preview had room, and
\* leaves no preview of the present revision.
LEMMA EvidenceCommitted ==
  ASSUME AssetsInv, ReviewInv, EvidenceInv, NEW actor \in Admins, CommitSelection(actor)
  PROVE  EvidenceInv'
<1> DEFINE items == selections[actor].items
           place == Place(CreatedIn(items), assets)
           AssetOf(i) == IF Creates(items[i]) THEN place[i] ELSE items[i].target
           evidence == [i \in DOMAIN items |-> EvidenceOf(items[i], AssetOf(i))]
           address == [i \in DOMAIN items |-> AddressOf(items[i], AssetOf(i))]
           replaced == {old \in addresses : \E i \in DOMAIN items :
                           old.asset = AssetOf(i) /\ old.address = items[i].candidate}
<1>1. /\ IsOpen(selections[actor]) /\ selections[actor].revision = revision
      /\ selections' = [selections EXCEPT ![actor] = Spent]
  BY DEF CommitSelection
<1>2. links' = links \cup {EvidenceOf(items[i], AssetOf(i)) : i \in DOMAIN items}
  BY DEF CommitSelection
<1>3. addresses' = (addresses \ replaced) \cup {AddressOf(items[i], AssetOf(i)) : i \in DOMAIN items}
  BY DEF CommitSelection
<1>4. PICK S : items \in Seq(S)
  BY <1>1 DEF AssetsInv, SelectionInv
<1>5. Len(items) \in Nat /\ DOMAIN items = 1..Len(items)
  BY <1>4
<1>6. IsFiniteSet(DOMAIN items) /\ Cardinality(DOMAIN items) = Len(items)
  <2> HIDE DEF items
  <2>1. PICK n \in Nat : n = Len(items)
    BY <1>5
  <2>2. IsFiniteSet(1..n) /\ Cardinality(1..n) = IF 1 > n THEN 0 ELSE n - 1 + 1
    BY FS_Interval
  <2>3. Cardinality(1..n) = n
    BY <2>2
  <2> QED
    BY <1>5, <2>1, <2>2, <2>3
<1>7. links' \subseteq links \cup {evidence[i] : i \in DOMAIN items}
  BY <1>2
<1>8. addresses' \subseteq addresses \cup {address[i] : i \in DOMAIN items}
  BY <1>3
<1>9. /\ evidence = [i \in DOMAIN items |-> evidence[i]]
      /\ address = [i \in DOMAIN items |-> address[i]]
  OBVIOUS
<1>10. /\ IsFiniteSet(links) /\ IsFiniteSet(addresses)
       /\ Cardinality(links) + Len(items) <= MaxEvidence
       /\ Cardinality(addresses) + Len(items) <= MaxEvidence
  BY <1>1 DEF EvidenceInv, RoomForEvidence
<1> HIDE DEF items, evidence, address
<1>11. IsFiniteSet(links') /\ Cardinality(links') <= Cardinality(links) + Len(items)
  BY <1>6, <1>7, <1>9, <1>10, CountInserted
<1>12. IsFiniteSet(addresses') /\ Cardinality(addresses') <= Cardinality(addresses) + Len(items)
  BY <1>6, <1>8, <1>9, <1>10, CountInserted
<1>13. EvidenceHolds'
  <2>1. /\ Cardinality(links) \in Nat /\ Cardinality(links') \in Nat
        /\ Cardinality(addresses) \in Nat /\ Cardinality(addresses') \in Nat
    BY <1>10, <1>11, <1>12, FS_CardinalityType
  <2> QED
    BY <1>5, <1>10, <1>11, <1>12, <2>1, DiscoveryAssumption DEF EvidenceHolds
<1>14. ASSUME NEW other \in Admins, IsOpen(selections'[other])
       PROVE  RoomForEvidence(selections[other])'
  <2>1. IsOpen(selections[other]) /\ selections'[other] = selections[other]
    BY <1>1, <1>14, SpentLeaves DEF AssetsInv
  <2>2. selections[other].revision \in 0..revision
    BY <2>1 DEF ReviewInv, SelectionKnown
  <2>3. revision \in Nat /\ revision' \in Nat /\ revision' > revision
    BY SelectionRaises DEF AssetsInv, ImportInv
  <2>4. selections'[other].revision # revision'
    BY <2>1, <2>2, <2>3
  <2> QED
    BY <2>4 DEF RoomForEvidence
<1> QED
  BY <1>11, <1>12, <1>13, <1>14 DEF EvidenceInv, IsOpen

LEMMA EvidenceInvHolds ==
  ASSUME AssetsInv, ReviewInv, EvidenceInv, [AssetsNext]_<<inventoryVars, discoveryVars>>
  PROVE  EvidenceInv'
<1>1. RevisionHolds
  BY RevisionOrAssets
<1>2. ASSUME UNCHANGED <<links, addresses, selections>>
      PROVE  EvidenceInv'
  BY <1>1, <1>2, EvidenceStays
<1>3. ASSUME NEW actor \in Admins, ExpireSelection(actor)
      PROVE  EvidenceInv'
  <2>1. \A other \in Admins : IsOpen(selections'[other]) =>
            IsOpen(selections[other]) /\ selections'[other] = selections[other]
    BY <1>3, SpentLeaves DEF ExpireSelection, AssetsInv
  <2> QED
    BY <1>1, <1>3, <2>1, EvidenceStays DEF ExpireSelection
<1>4. CASE \E actor \in Admins, n \in 1..MaxItems :
              \E items \in [1..n -> Choices] : PreviewSelection(actor, items)
  BY <1>1, <1>4, EvidencePreviewed
<1>5. CASE \E actor \in Admins : CommitSelection(actor)
  BY <1>5, EvidenceCommitted
<1> QED
  BY <1>2, <1>3, <1>4, <1>5
     DEF AssetsNext, discoveryVars, DiscoveryNext, RecordObservation, GrowOld, MonthPasses, CleanUp,
         SaveProfile, ChangeNetworkPolicy, ReviewCandidate

-----------------------------------------------------------------------------
(* All of it                                                               *)

LEMMA WholeStarts == AssetsInit => WholeInv /\ EvidenceInv
<1> SUFFICES ASSUME AssetsInit
             PROVE  WholeInv /\ EvidenceInv
  OBVIOUS
<1> USE DEF AssetsInit, InventoryInit, DiscoveryInit
<1>1. Live(assets) = {} /\ Active = {} /\ Live(software) = {} /\ Live(assessments) = {}
  BY DEF Live, Active
<1>2. IsFiniteSet({}) /\ Cardinality({}) = 0
  BY FS_EmptySet
<1>3. MaxAssets \in Nat /\ MaxSoftware \in Nat /\ MaxAssessments \in Nat
  BY InventoryAssumption
<1>4. AssetsWhole
  <2>1. assets \in [AssetIds -> AssetRow \cup {None}]
    OBVIOUS
  <2> QED
    BY <1>1, <1>2, <1>3, <2>1 DEF AssetsWhole
<1>5. SoftwareWhole /\ AssessmentsWhole
  <2>1. Cardinality(Live(software)) = 0 /\ Cardinality(Live(assessments)) = 0
    BY <1>1, <1>2
  <2> QED
    BY <1>1, <1>3, <2>1 DEF SoftwareWhole, AssessmentsWhole
<1>6. PreviewsNamed /\ revision \in 0..MaxRevision
  BY InventoryAssumption DEF PreviewsNamed, IsOpen
<1>7. EvidenceInv
  BY <1>2, DiscoveryAssumption DEF EvidenceInv, EvidenceHolds, IsOpen
<1> QED
  BY <1>4, <1>5, <1>6, <1>7 DEF WholeInv

LEMMA RevisionBounded ==
  ASSUME AssetsInv, WholeInv, [AssetsNext]_<<inventoryVars, discoveryVars>>
  PROVE  revision' \in 0..MaxRevision
<1>1. revision \in 0..MaxRevision /\ MaxRevision \in Nat
  BY InventoryAssumption DEF WholeInv
<1>2. revision' \in Nat /\ (revision' >= revision)
  BY <1>1, RevisionOrAssets DEF RevisionHolds
<1>3. ASSUME NEW n, BumpBy(n)
      PROVE  revision' <= MaxRevision
  BY <1>3 DEF BumpBy
<1>4. revision' = revision \/ revision' <= MaxRevision
  BY <1>3
     DEF AssetsNext, InventoryNext, CreateAsset, UpdateAsset, ArchiveAsset, CreateSoftware,
         ChangeSoftware, DeleteSoftware, CreateAssessment, UpdateAssessment, PreviewImport,
         ExpireImport, CommitImport, BumpInventory,
         DiscoveryNext, inventoryVars, RecordObservation, GrowOld, MonthPasses, CleanUp, SaveProfile,
         ChangeNetworkPolicy, ReviewCandidate, PreviewSelection, ExpireSelection, CommitSelection
<1> QED
  BY <1>1, <1>2, <1>4

LEMMA TablesUntouched ==
  ASSUME AssetsWhole, SoftwareWhole, AssessmentsWhole, UNCHANGED tables
  PROVE  AssetsWhole' /\ SoftwareWhole' /\ AssessmentsWhole'
BY DEF tables, AssetsWhole, SoftwareWhole, AssessmentsWhole, Live, Active

LEMMA TablesStayWhole ==
  ASSUME AssetsInv, TraceInv, WholeInv, [AssetsNext]_<<inventoryVars, discoveryVars>>
  PROVE  AssetsWhole' /\ SoftwareWhole' /\ AssessmentsWhole'
<1>0. TraceTypes /\ AssetsWhole /\ SoftwareWhole /\ AssessmentsWhole /\ PreviewsNamed /\ ImportInv
  BY DEF TraceInv, WholeInv, AssetsInv
<1>1. ASSUME UNCHANGED tables
      PROVE  AssetsWhole' /\ SoftwareWhole' /\ AssessmentsWhole'
  BY <1>0, <1>1, TablesUntouched
<1>2. ASSUME NEW name \in Names, NEW fields \in Fields, CreateAsset(name, fields)
      PROVE  AssetsWhole' /\ SoftwareWhole' /\ AssessmentsWhole'
  BY <1>0, <1>2, AssetCreated, OthersWhole DEF CreateAsset
<1>3. ASSUME NEW a \in AssetIds, NEW name \in Names, NEW fields \in Fields, UpdateAsset(a, name, fields)
      PROVE  AssetsWhole' /\ SoftwareWhole' /\ AssessmentsWhole'
  BY <1>0, <1>3, AssetUpdated, OthersWhole DEF UpdateAsset
<1>4. ASSUME NEW a \in AssetIds, NEW archived \in BOOLEAN, ArchiveAsset(a, archived)
      PROVE  AssetsWhole' /\ SoftwareWhole' /\ AssessmentsWhole'
  BY <1>0, <1>4, AssetArchived, OthersWhole DEF ArchiveAsset
<1>5. ASSUME UNCHANGED <<assets, assessments>>, SoftwareWhole'
      PROVE  AssetsWhole' /\ SoftwareWhole' /\ AssessmentsWhole'
  BY <1>0, <1>5 DEF AssetsWhole, AssessmentsWhole, Live, Active
<1>6. ASSUME UNCHANGED <<assets, software>>, AssessmentsWhole'
      PROVE  AssetsWhole' /\ SoftwareWhole' /\ AssessmentsWhole'
  BY <1>0, <1>6 DEF AssetsWhole, SoftwareWhole, Live, Active
<1>7. ASSUME NEW a \in AssetIds, NEW tuple \in Tuples, CreateSoftware(a, tuple)
      PROVE  AssetsWhole' /\ SoftwareWhole' /\ AssessmentsWhole'
  BY <1>0, <1>5, <1>7, SoftwareCreated DEF CreateSoftware
<1>8. ASSUME NEW s \in SoftwareIds, NEW tuple \in Tuples, ChangeSoftware(s, tuple)
      PROVE  AssetsWhole' /\ SoftwareWhole' /\ AssessmentsWhole'
  BY <1>0, <1>5, <1>8, SoftwareChanged DEF ChangeSoftware
<1>9. ASSUME NEW s \in SoftwareIds, DeleteSoftware(s)
      PROVE  AssetsWhole' /\ SoftwareWhole' /\ AssessmentsWhole'
  BY <1>0, <1>5, <1>9, SoftwareDeleted DEF DeleteSoftware
<1>10. ASSUME NEW a \in AssetIds, NEW cve \in Cves, NEW s \in SoftwareIds \cup {None},
              NEW status \in Statuses, CreateAssessment(a, cve, s, status)
       PROVE  AssetsWhole' /\ SoftwareWhole' /\ AssessmentsWhole'
  BY <1>0, <1>6, <1>10, AssessmentCreated DEF CreateAssessment
<1>11. ASSUME NEW v \in AssessmentIds, NEW s \in SoftwareIds \cup {None}, NEW status \in Statuses,
              UpdateAssessment(v, s, status)
       PROVE  AssetsWhole' /\ SoftwareWhole' /\ AssessmentsWhole'
  BY <1>0, <1>6, <1>11, AssessmentUpdated DEF UpdateAssessment
<1>12. ASSUME NEW actor \in Admins, CommitImport(actor)
       PROVE  AssetsWhole' /\ SoftwareWhole' /\ AssessmentsWhole'
  BY <1>0, <1>12, ImportedAssets, ImportedSoftware, ImportedAssessments
<1>13. ASSUME NEW actor \in Admins, CommitSelection(actor)
       PROVE  AssetsWhole' /\ SoftwareWhole' /\ AssessmentsWhole'
  BY <1>0, <1>13, SelectedAssets, OthersWhole DEF CommitSelection
<1>14. CASE InventoryNext
  BY <1>1, <1>2, <1>3, <1>4, <1>7, <1>8, <1>9, <1>10, <1>11, <1>12, <1>14
     DEF InventoryNext, PreviewImport, ExpireImport
<1>15. CASE DiscoveryNext
  BY <1>1, <1>13, <1>15
     DEF DiscoveryNext, inventoryVars, tables, RecordObservation, GrowOld, MonthPasses, CleanUp,
         SaveProfile, ChangeNetworkPolicy, ReviewCandidate, PreviewSelection, ExpireSelection
<1> QED
  BY <1>1, <1>14, <1>15 DEF AssetsNext, inventoryVars, tables

LEMMA WholeGoesOn ==
  ASSUME AssetsInv, TraceInv, WholeInv, [AssetsNext]_<<inventoryVars, discoveryVars>>
  PROVE  WholeInv'
<1>1. DOMAIN assets = AssetIds
  BY DEF TraceInv, TraceTypes
<1> QED
  BY <1>1, RevisionBounded, TablesStayWhole, PreviewsStayNamed DEF WholeInv

LEMMA WholeHolds == AssetsSpec => [](AssetsInv /\ TraceInv /\ ReviewInv /\ WholeInv /\ EvidenceInv)
<1>1. AssetsInit => AssetsInv /\ TraceInv /\ ReviewInv /\ WholeInv /\ EvidenceInv
  BY AssetsStart, TraceStart, ReviewStart, WholeStarts
<1>2. /\ AssetsInv /\ TraceInv /\ ReviewInv /\ WholeInv /\ EvidenceInv
      /\ [AssetsNext]_<<inventoryVars, discoveryVars>>
      => (AssetsInv /\ TraceInv /\ ReviewInv /\ WholeInv /\ EvidenceInv)'
  BY AssetsGoOn, TraceGoesOn, ReviewInvHolds, WholeGoesOn, EvidenceInvHolds
<1> QED
  BY <1>1, <1>2, PTL DEF AssetsSpec

\* Every table has its rows, whatever was entered, imported or selected.
THEOREM InventoryTyped == AssetsSpec => []InventoryTypes
<1>1. AssetsInv /\ TraceInv /\ WholeInv => InventoryTypes
  BY DEF AssetsInv, ImportInv, PreviewKnown, TraceInv, TraceTypes, WholeInv, AssetsWhole, InventoryTypes
<1> QED
  BY <1>1, WholeHolds, PTL

\* The checks of the three ways to write the inventory keep its constraints:
\* one asset for an external identifier, one software record for a vendor,
\* product and version of an asset, one assessment for a CVE of an asset, so
\* that the UNIQUE columns never stop a change halfway (migrations.py:18, 40,
\* 51); no software or assessment without its asset; and no table beyond its
\* limit, though an import and a selection write many rows after one check
\* (asset_service.py:344-418, asset_discovery_service.py:109-113, 127-173).
THEOREM TablesWhole == AssetsSpec => [](RowKeys /\ RowsOwned /\ LimitsHold)
<1>1. WholeInv => RowKeys /\ RowsOwned /\ LimitsHold
  BY DEF WholeInv, AssetsWhole, SoftwareWhole, AssessmentsWhole, RowKeys, RowsOwned, LimitsHold
<1> QED
  BY <1>1, WholeHolds, PTL

\* The evidence of discovered hosts never exceeds its limits.  Only a preview
\* counts the rows that are there; the commit relies on the revision, which
\* every other commit has raised (asset_discovery_service.py:114-118, 127-173).
THEOREM EvidenceBounded == AssetsSpec => []EvidenceHolds
<1>1. EvidenceInv => EvidenceHolds
  BY DEF EvidenceInv
<1> QED
  BY <1>1, WholeHolds, PTL
=============================================================================
