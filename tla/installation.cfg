SPECIFICATION MCSpec
CONSTANTS
  None = None
  \* the inventory
  Admins = {p1, p2}
  AssetIds = {1, 2}
  SoftwareIds = {11, 12}
  AssessmentIds = {21}
  Names = {"x", "y"}
  Fields = {"f", "g"}
  Tuples = {"t", "u"}
  Cves = {"c"}
  Statuses = {"done"}
  Files <- MCFiles
  MaxAssets = 2
  MaxSoftware = 2
  MaxAssessments = 1
  MaxPreviews = 2
  MaxRevision = 4
  \* discovered hosts
  Addresses = {a1, a2}
  Hostnames = {"h"}
  Policies <- MCPolicies
  MaxItems = 2
  MaxScans = 2
  MaxGeneration = 2
  MaxReviews = 3
  MaxCandidates = 2
  MaxObservations = 2
  MaxEvidence = 3
  \* storage
  Sites = {d1, d2}
  Found <- MCFound
  MaxIds = 2
  MaxWrites = 1
  Bundles = {b1, b2}
  MaxMishaps = 1
  \* webhooks
  Urls = {u1, u2}
  Categories = {"critical", "kev"}
  Preferences <- MCPreferences
  Editors = {e1}
  MaxHooks = 2
  MaxEdits = 2
SYMMETRY MCSymmetry
INVARIANTS
  ImportAsPreviewed
  AssessmentsTraced
  SelectedAsPreviewed
  ReadyIsComplete
  IdentityTells
  SetupClosed
  BundleRestorable
  OnlyGivenUrls
  ChannelsTried
CHECK_DEADLOCK FALSE
