---------------------------- MODULE MCInstallation ----------------------------
(* Small instances of the inventory, the import of discovered hosts, the      *)
(* storage of an installation and its webhooks, which share no state but the  *)
(* inventory.  A scene is one of them with its own bounds; the initial state  *)
(* chooses it, and what it does not need rests.                               *)
EXTENDS Discovery, Storage, Webhooks, TLC

VARIABLE scene

mcVars == <<scene, inventoryVars, discoveryVars, storageVars, webhookVars>>

MCSymmetry == Permutations(Addresses) \cup Permutations(Bundles)

\* Two new assets, one with software and one with a CVE; two rows of one asset,
\* whose parts are merged; rows that contradict each other.
MCFiles ==
    LET Row(name, fields, tuple, cves) ==
            [name |-> name, fields |-> fields, software |-> tuple, cves |-> cves]
    IN {{Row("x", "f", None, {"c"}), Row("y", "f", "t", {})},
        {Row("x", "g", "t", {}), Row("x", "g", None, {"c"})},
        {Row("x", "f", None, {}), Row("x", "g", None, {})}}

MCPolicies == {Addresses, {}}

\* A database with its administrator, and one from which nobody ever signed in.
MCFound == {[users |-> there, admin |-> there] : there \in BOOLEAN}

MCPreferences == {{"critical"}, {"critical", "kev"}}

\* Discovered hosts find an asset in the inventory, and an approving policy.
Discovered ==
    /\ assets = [a \in AssetIds |-> IF a = 1 THEN NewAsset("x", "f") ELSE None]
    /\ software = [s \in SoftwareIds |-> None]
    /\ assessments = [v \in AssessmentIds |-> None]
    /\ events = [v \in AssessmentIds |-> <<>>]
    /\ revision = 1
    /\ imports = [actor \in Admins |-> None]
    /\ DiscoveryInit /\ policy = Addresses

\* The storage of an installation in another scene.
NoStorage ==
    /\ manifest = [d \in Sites |-> None] /\ db = [d \in Sites |-> None]
    /\ key = [d \in Sites |-> FALSE] /\ tool = [d \in Sites |-> None]
    /\ copies = {} /\ named = {} /\ setUp = {} /\ bundle = [b \in Bundles |-> None]
    /\ ids = 0 /\ births = 0 /\ mishaps = 0
    /\ acked = [id \in 1..MaxIds |-> 0]

MCInit ==
    /\ WebhooksInit
    /\ \/ scene \in {"inventory", "webhooks"} /\ AssetsInit
             /\ policy = Addresses /\ NoStorage
       \/ scene = "discovery" /\ Discovered /\ NoStorage
       \/ scene = "storage" /\ AssetsInit /\ policy = Addresses
             /\ StorageInit /\ db[CHOOSE d \in Sites : TRUE] # None

\* Archiving stands for every change of an asset, and one administrator has no
\* preview; in the scene of the inventory both have.  Of the profile, the policy,
\* the archived asset and the ignored candidates, one differs from the start.
Differs(isOther) == IF isOther THEN 1 ELSE 0

DiscoveryScene ==
    /\ \/ DiscoveryNext
       \/ \E a \in AssetIds, archived \in BOOLEAN :
             ArchiveAsset(a, archived) /\ UNCHANGED discoveryVars
    /\ revision' < MaxRevision
    /\ Differs(generation' # 1) + Differs(policy' # Addresses)
           + Differs(\E a \in AssetIds : assets'[a] # None /\ assets'[a].archived)
           + Differs(\E c \in Addresses : candidates'[c] # None /\ candidates'[c].ignored) <= 1
    /\ selections'[CHOOSE actor \in Admins : TRUE] = None

\* One backup runs at a time, and one installer: those of two sites share nothing.
\* A key that is generated is backed up.
StorageScene ==
    /\ StorageNext
    /\ Cardinality({d \in Sites : tool'[d] # None}) <= 1
    /\ \A b \in Bundles : bundle'[b] # None => bundle'[b].withKey = bundle'[b].manifest.managed
    /\ Cardinality({b \in Bundles : bundle'[b] # None /\ ~Complete(b)'}) <= 1

InventoryScene == InventoryNext /\ UNCHANGED discoveryVars

MCNext ==
    /\ UNCHANGED scene
    /\ \/ /\ \/ scene = "inventory" /\ InventoryScene
             \/ scene = "discovery" /\ DiscoveryScene
          /\ UNCHANGED <<storageVars, webhookVars>>
       \/ /\ scene = "storage" /\ StorageScene
          /\ UNCHANGED <<inventoryVars, discoveryVars, webhookVars>>
       \/ /\ scene = "webhooks" /\ WebhooksNext
          /\ UNCHANGED <<inventoryVars, discoveryVars, storageVars>>

MCSpec == MCInit /\ [][MCNext]_mcVars

=============================================================================
