------------------------------ MODULE Discovery ------------------------------
(***************************************************************************)
(* Review and import of discovered hosts.  The network workers record what *)
(* they observe at an address as a candidate; an administrator reviews the *)
(* candidates, previews the import of selected ones, as new assets or as   *)
(* evidence linked to existing ones, and commits the preview.  Each is a   *)
(* transaction of the database that holds the inventory.                   *)
(*                                                                         *)
(* A candidate is known by its address: the identifier of a row that was   *)
(* cleaned away is held by no preview that is still open.                  *)
(***************************************************************************)
EXTENDS Inventory

CONSTANTS Addresses, Hostnames,
          Policies,         \* network policies: the addresses each approves
          MaxItems,         \* bound: items of an import
          MaxScans,         \* bound: observations ever recorded
          MaxGeneration,    \* bound: saves of the profile
          MaxReviews,       \* bound: row versions of a candidate
          MaxCandidates, MaxObservations, MaxEvidence

\* An observation is new, a day old (1) or 30 days old (2).
CandidateRow == [hostname : Hostnames \cup {None}, identity : Nat, version : Nat,
                 ignored : BOOLEAN, imported : AssetIds \cup {None}, old : BOOLEAN]
ObservationRow == [candidate : Addresses, hostname : Hostnames \cup {None},
                   generation : Nat, age : 0..2]

ASSUME DiscoveryAssumption == None \notin CandidateRow \cup ObservationRow /\ MaxEvidence \in Nat

VARIABLES candidates,    \* address to row or None
          observations,  \* identifier to row or None
          addresses,     \* asset_addresses
          links,         \* asset_discovery_links
          generation,    \* of the discovery profile
          policy,        \* the network policy in force
          selections     \* the latest discovery preview of each administrator

discoveryVars == <<candidates, observations, addresses, links, generation, policy, selections>>

Recorded == DOMAIN observations

DiscoveryInit ==
    /\ candidates = [c \in Addresses |-> None]
    /\ observations = <<>>
    /\ addresses = {}
    /\ links = {}
    /\ generation = 1
    /\ policy \in Policies
    /\ selections = [actor \in Admins |-> None]

-----------------------------------------------------------------------------
(* The workers' side: observations and cleanup                             *)

NewCandidate(hostname) ==
    [hostname |-> hostname, identity |-> 1, version |-> 1, ignored |-> FALSE,
     imported |-> None, old |-> FALSE]

IdentityChanged(c, hostname) == hostname # None /\ candidates[c].hostname # hostname

Reobserved(c, hostname) ==
    IF IdentityChanged(c, hostname)
    THEN [candidates[c] EXCEPT !.hostname = hostname, !.identity = @ + 1, !.version = @ + 1,
                               !.imported = None, !.old = FALSE]
    ELSE [candidates[c] EXCEPT !.old = FALSE]

Kept == Live(observations)

\* The observations that stay when a full table makes room for one more.
Retained == IF Cardinality(Kept) < MaxObservations THEN observations
            ELSE LET oldest == CHOOSE o \in Kept : \A p \in Kept : o <= p IN
                 [observations EXCEPT ![oldest] = None]

RecordObservation(c, hostname) ==
    /\ Len(observations) < MaxScans
    /\ candidates[c] = None => Cardinality(Live(candidates)) < MaxCandidates
    /\ candidates[c] # None => candidates[c].version < MaxReviews
    /\ candidates' = [candidates EXCEPT ![c] = IF candidates[c] = None THEN NewCandidate(hostname)
                                               ELSE Reobserved(c, hostname)]
    /\ observations' = Append(Retained, [candidate |-> c, hostname |-> hostname,
                                         generation |-> generation, age |-> 0])
    /\ UNCHANGED <<addresses, links, generation, policy, selections, inventoryVars>>

\* Observations turn a day old (1), later 30 days (2), in the order in which
\* they were made; a preview lives ten minutes.
GrowOld(o) ==
    /\ o \in Kept /\ observations[o].age = 0
    /\ observations' = [p \in Recorded |-> IF p <= o /\ p \in Kept /\ observations[p].age = 0
                                           THEN [observations[p] EXCEPT !.age = 1]
                                           ELSE observations[p]]
    /\ UNCHANGED <<candidates, addresses, links, generation, policy, selections, inventoryVars>>

MonthPasses ==
    /\ Kept # {}
    /\ observations' = [p \in Recorded |-> IF p \in Kept THEN [observations[p] EXCEPT !.age = 2] ELSE None]
    /\ candidates' = [c \in Addresses |-> IF candidates[c] = None THEN None
                                          ELSE [candidates[c] EXCEPT !.old = TRUE]]
    /\ \A actor \in Admins : ~IsOpen(selections[actor]) /\ ~IsOpen(imports[actor])
    /\ UNCHANGED <<addresses, links, generation, policy, selections, inventoryVars>>

Outdated == {o \in Kept : observations[o].age = 2}

CleanUp ==
    LET observed == {observations[o].candidate : o \in Kept \ Outdated} IN
    /\ observations' = [o \in Recorded |-> IF o \in Outdated THEN None ELSE observations[o]]
    /\ candidates' = [c \in Addresses |-> IF candidates[c] # None /\ candidates[c].old /\ c \notin observed
                                          THEN None ELSE candidates[c]]
    /\ UNCHANGED <<addresses, links, generation, policy, selections, inventoryVars>>

SaveProfile ==
    /\ generation < MaxGeneration
    /\ generation' = generation + 1
    /\ UNCHANGED <<candidates, observations, addresses, links, policy, selections, inventoryVars>>

ChangeNetworkPolicy(approved) ==
    /\ policy' = approved
    /\ UNCHANGED <<candidates, observations, addresses, links, generation, selections, inventoryVars>>

-----------------------------------------------------------------------------
(* The administrators' side: review, preview, commit                       *)

ReviewCandidate(c, ignored, reopen) ==
    /\ c \in Live(candidates)
    /\ candidates[c].version < MaxReviews
    /\ candidates' = [candidates EXCEPT ![c].ignored = ignored, ![c].version = @ + 1,
                                        ![c].imported = IF reopen THEN None ELSE @]
    /\ UNCHANGED <<observations, addresses, links, generation, policy, selections, inventoryVars>>

\* An item may be selected: its observation is kept, less than a day old and of
\* the present profile; its candidate is neither ignored nor imported.
Selected(c, o) ==
    /\ c \in Live(candidates) /\ o \in Kept
    /\ observations[o].candidate = c
    /\ ~candidates[c].ignored /\ candidates[c].imported = None
    /\ observations[o].age = 0
    /\ observations[o].generation = generation

\* An item creates the asset "name", or links to the asset "target", seen with
\* its present version.
Item(c, o, name, target) ==
    [candidate |-> c, observation |-> o, name |-> name, target |-> target,
     expected |-> IF target = None THEN 0 ELSE assets[target].version,
     identity |-> candidates[c].identity, version |-> candidates[c].version,
     hostname |-> candidates[c].hostname]

Creates(item) == item.target = None

CreatedIn(items) == {i \in DOMAIN items : Creates(items[i])}

\* The items an administrator may choose from; any other is refused.
Choices ==
    LET Offer(o, name, target) == Item(observations[o].candidate, o, name, target)
        offered == {o \in Kept : Selected(observations[o].candidate, o)
                                    /\ observations[o].candidate \in policy}
    IN {Offer(o, name, None) : o \in offered, name \in Names}
           \cup {Offer(o, None, a) : o \in offered, a \in Live(assets)}

\* What an import asks of the inventory: new identifiers are unused and differ,
\* linked assets are not archived, and the limits hold.
Acceptable(items) ==
    /\ \A i \in DOMAIN items :
          IF Creates(items[i]) THEN Named(items[i].name) = {} ELSE Writable(items[i].target)
    /\ \A i, j \in CreatedIn(items) : items[i].name = items[j].name => i = j
    /\ Cardinality(Active) + Cardinality(CreatedIn(items)) <= MaxAssets

PreviewSelection(actor, items) ==
    /\ \A i, j \in DOMAIN items : items[i].candidate = items[j].candidate => i = j
    /\ Cardinality(Pending(selections, actor)) < MaxPreviews
    /\ Acceptable(items)
    /\ Cardinality(links) + Len(items) <= MaxEvidence
    /\ Cardinality(addresses) + Len(items) <= MaxEvidence
    /\ selections' = Replaced(selections, actor, [state |-> "open", items |-> items,
                                                  revision |-> revision, policy |-> policy])
    /\ UNCHANGED <<candidates, observations, addresses, links, generation, policy, inventoryVars>>

ExpireSelection(actor) ==
    /\ IsOpen(selections[actor])
    /\ selections' = [selections EXCEPT ![actor] = Spent]
    /\ UNCHANGED <<candidates, observations, addresses, links, generation, policy, inventoryVars>>

\* The version of an asset once the items before item i have raised it, and how
\* often the commit itself counts that they did.
VersionAt(items, i, a) == assets[a].version + Cardinality({j \in 1..(i - 1) : items[j].target = a})

\* Variant: a commit takes the asset for changed by itself.
LinkedChangesIgnored(items, i) == 0

LinkedChanges(items, i) ==
    Cardinality({j \in 1..(i - 1) : items[j].target = items[i].target})

\* The candidate is the one previewed: not seen under another name, reviewed
\* or imported since.
AsPreviewed(item) ==
    /\ Selected(item.candidate, item.observation)
    /\ candidates[item.candidate].identity = item.identity
    /\ candidates[item.candidate].version = item.version

\* The items pass the checks of the commit, one after the other.
Committable(items) ==
    \A i \in DOMAIN items :
        /\ AsPreviewed(items[i])
        /\ items[i].candidate \in policy
        /\ ~Creates(items[i]) => VersionAt(items, i, items[i].target)
                                    = items[i].expected + LinkedChanges(items, i)

\* The evidence an item leaves on an asset, the snapshot of its observation, which
\* outlives the observation's row; and the address.
EvidenceOf(item, a) == [asset |-> a, snapshot |-> item.observation]
AddressOf(item, a) ==
    [asset |-> a, address |-> item.candidate, hostname |-> observations[item.observation].hostname]

CommitSelection(actor) ==
    LET preview == selections[actor]
        items == preview.items
        place == Place(CreatedIn(items), assets)
        AssetOf(i) == IF Creates(items[i]) THEN place[i] ELSE items[i].target
        touched == {AssetOf(i) : i \in DOMAIN items}
        Index(c) == CHOOSE i \in DOMAIN items : items[i].candidate = c
        chosen == {items[i].candidate : i \in DOMAIN items}
        replaced == {old \in addresses : \E i \in DOMAIN items :
                        old.asset = AssetOf(i) /\ old.address = items[i].candidate}
    IN
    /\ IsOpen(preview)
    /\ preview.revision = revision /\ preview.policy = policy
    /\ Committable(items) /\ Acceptable(items)
    /\ Room(CreatedIn(items), assets)
    /\ assets' = [a \in AssetIds |->
                    IF a \notin touched THEN assets[a]
                    ELSE IF assets[a] = None
                    THEN NewAsset((items[CHOOSE i \in CreatedIn(items) : place[i] = a]).name,
                                  CHOOSE fields \in Fields : TRUE)
                    ELSE [assets[a] EXCEPT !.version = VersionAt(items, Len(items) + 1, a)]]
    /\ addresses' = (addresses \ replaced) \cup {AddressOf(items[i], AssetOf(i)) : i \in DOMAIN items}
    /\ links' = links \cup {EvidenceOf(items[i], AssetOf(i)) : i \in DOMAIN items}
    /\ candidates' = [c \in Addresses |->
                        IF c \in chosen
                        THEN [candidates[c] EXCEPT !.imported = AssetOf(Index(c)), !.version = @ + 1]
                        ELSE candidates[c]]
    /\ BumpBy(Len(items) + Cardinality(CreatedIn(items)))
    /\ selections' = [selections EXCEPT ![actor] = Spent]
    /\ UNCHANGED <<software, assessments, events, imports, observations, generation, policy>>

DiscoveryNext ==
    \/ \E c \in Addresses, hostname \in Hostnames \cup {None} : RecordObservation(c, hostname)
    \/ \E o \in Recorded : GrowOld(o)
    \/ MonthPasses \/ CleanUp \/ SaveProfile
    \/ \E approved \in Policies : ChangeNetworkPolicy(approved)
    \/ \E c \in Addresses, ignored, reopen \in BOOLEAN : ReviewCandidate(c, ignored, reopen)
    \/ \E actor \in Admins, n \in 1..MaxItems :
          \E items \in [1..n -> Choices] : PreviewSelection(actor, items)
    \/ \E actor \in Admins : ExpireSelection(actor) \/ CommitSelection(actor)

AssetsInit == InventoryInit /\ DiscoveryInit

AssetsNext == (InventoryNext /\ UNCHANGED discoveryVars) \/ DiscoveryNext

AssetsSpec == AssetsInit /\ [][AssetsNext]_<<inventoryVars, discoveryVars>>

-----------------------------------------------------------------------------
\* What a preview showed is what a commit imports: while nothing the commit
\* compares has changed, that is the revision, the policy, and the identity and
\* version of each candidate, and while the observations last, the commit is
\* accepted for every item, also for several candidates linked to one asset,
\* and each candidate still has the name the administrator was shown
\* (asset_discovery_service.py:127-173).
SelectedAsPreviewed ==
    \A actor \in Admins :
        LET preview == selections[actor] IN
        (/\ IsOpen(preview)
         /\ preview.revision = revision /\ preview.policy = policy
         /\ \A i \in DOMAIN preview.items :
               LET item == preview.items[i] IN
               /\ item.candidate \in Live(candidates)
               /\ candidates[item.candidate].identity = item.identity
               /\ candidates[item.candidate].version = item.version
               /\ item.observation \in Kept /\ observations[item.observation].age = 0
               /\ observations[item.observation].generation = generation)
        => /\ Committable(preview.items) /\ Acceptable(preview.items)
           /\ \A i \in DOMAIN preview.items :
                 candidates[preview.items[i].candidate].hostname = preview.items[i].hostname
=============================================================================
