# CyberDash in TLA+

CyberDash is a threat-intelligence dashboard: a FastAPI application over one
SQLite database, usually served by several processes, with background threads
that probe the network, validate detection rules and refresh feeds. Its parts
meet in database transactions. What is hard about it is not any single handler
but what several processes, threads and child processes do to the same rows
between each other's transactions. This directory models those parts, checks
them with TLC and proves the most important results with TLAPS.

## 1. The system

| Part | State it keeps | Operations | Where |
|---|---|---|---|
| Network job queue | `asset_monitor_configs`, `asset_discovery_profiles`, `asset_network_jobs`, `state_json`, roles, the allowlist's fingerprint | save, request, cancel, archive, restore, schedule, clean up, pause, restart under another policy | `asset_network_service.py`, `asset_service.py`, `pause_asset_network.py` |
| Network workers | claims and leases on jobs, `asset_network_locks`, `asset_network_budget`, the job in memory | claim and sweep, reserve, resolve, probe, finish, fail, defer, release | `asset_network_worker.py` |
| Probe processes | a child process that lives at most 8 s and can outlive its worker | resolve, check, discover | `asset_probe_service.py`, `probe_process.py` |
| Rule lifecycle | `detection_rules`, `rule_revisions`, `rule_reviews`, `rule_events`, the latch of the feature | create, edit, submit, review, publish, withdraw, roll back, archive, take over | `rule_lifecycle_service.py`, `rule_migrations.py` |
| Rule validation | `rule_validation_claims`, `rule_validation_runs`, a child process | validate | `rule_validation_service.py` |
| Legacy rule catalog | the public columns of `detection_rules` | insert, update, delete | `rule_service.py` |
| Feed refresh and schedule | `job_leases`, `app_settings`, a renewing thread | save a schedule, poll, request, refresh | `refresh_service.py`, `scheduler_service.py` |
| Cases and evidence | `cases`, notes, references, evidence, `case_events`, `investigation_snapshots` | edit, close, archive, attach, capture | `case_service.py`, `investigation_snapshot_service.py` |
| Inventory | `assets`, software, assessments and their events, `asset_inventory_state`, previews | create, edit, archive, assess, preview and commit a CSV import | `asset_service.py`, `asset_routes.py` |
| Discovered hosts | candidates, observations, `asset_addresses`, `asset_discovery_links`, previews | observe, clean up, review, preview and commit an import | `asset_discovery_service.py` |
| Webhooks | `webhooks`, a notification in memory | create, update, delete, toggle, notify | `webhook_service.py`, `main.py` |
| Accounts, sessions, tokens | `users`, `session_version`, `api_tokens`, rate windows | set up, change roles, delete, verify | `auth_service.py`, `api_token_service.py` |
| Audit chain | `audit_logs` | append, verify, purge | `audit_service.py` |
| Storage | `installation.json`, the database's identity and setup marker, the signing key, backups | init, adopt, resume, set up, back up, restore | `storage/local.py`, `scripts/`, `database.py` |

How they interact: every route and every background thread works through
`get_connection`, almost always in a `BEGIN IMMEDIATE` transaction, so a
transaction is atomic and they are serialized. Between two transactions of one
operation anything may happen: this is where workers lose claims, validators
outlive slots, pages go stale and leases expire. Archiving an asset reaches into the
network queue; changing a role reaches into queued jobs and into reviews;
switching a feature on is a restart that rewrites rows; every change leaves an
event in the same transaction.

Hard behaviours: leases and claims that expire under a live holder, child
processes that survive their parent, clock readings taken before a lock is
obtained, retries with idempotency keys, optimistic versions on pages, quotas
that are checked before and filled after, restarts with other settings, previews that are
committed later, tools that die between two files.
`PROJECT.json` lists them one by one, each at its line, under `hazards`.

What makes each part correct:

* queue: one outstanding job of a scope, bounded, a finished job stays
  finished, a repeated request finds its job, an archived asset is silent;
* workers: two probes never meet on an address, two slots and one running
  discovery, no attempt unpaid, a result of an older configuration is dropped,
  a completed discovery covered its targets, nobody waits for ever;
* rules: only a frozen working revision with a valid report and the approval of
  a second person is published, a page of an older version changes nothing, the public
  columns are the published snapshot, the history has no hole;
* validation: bounded processes, bounded reports;
* feeds: a refresh that renews its lease keeps it, one notice for a record, one refresh
  for a planned time, and a due refresh is not lost with a crash;
* accounts: an installation keeps an administrator, a session that was closed stays closed
  whatever becomes of its account and its name, a token's limit holds across processes;
* audit: every verification succeeds, against every checkpoint handed out before;
* cases: a change is made to the case its author saw, the chronology alone gives the
  case, a private snapshot is shared by its own principal only, the quota of snapshots
  holds for captures that overlap, and deleting an account leaves no reference to it;
* imports: a commit does what its preview showed or is refused, and the history of an
  assessment has no hole;
* storage: an interrupted installation is not taken for a finished one, a lost database
  is not replaced by an empty one, public setup stays closed unless a copy from before it
  is put back, a complete backup can be restored though nothing was locked;
* webhooks: a row keeps the URL entered for it, and one failing endpoint costs no other
  its notice.

## 2. Modules

| Module | Models |
|---|---|
| `NetworkQueue` | tables of the queue and every transaction that configures, requests, schedules, prunes, pauses |
| `NetworkWorker` | `claim_job`, `execute_job` and what they call, one action per transaction or external step |
| `NetworkJobs` | the two composed: `Next`, `Spec`, properties, fairness |
| `JobLifecycle` | abstract: the arcs a job's status may take and who holds a running job |
| `RuleLifecycle` | tables of the rules, the requests on a workflow, legacy writes, takeover |
| `RuleValidation` | the two transactions of `validate` around the validator process |
| `RuleWorkbench` | the two composed: actors, pages, operator, properties |
| `RuleCatalog` | abstract: what the public columns of a rule may do |
| `FeedRefresh` | lease, schedulers, requests, the body of a refresh, properties, fairness |
| `AuditLedger` | the hash chain under SQLite's write lock, verification and its checkpoints |
| `AccessControl` | accounts, sessions, tokens; each request with its transactions and its audit entry |
| `Casework` | cases, their entries and chronology, captured evidence, over `AccessControl` |
| `Inventory` | assets, software, assessments with their events, the CSV import |
| `Discovery` | candidates, observations and the import of selected ones, over `Inventory` |
| `Storage` | the operator's tools on an installation, the check of a connection, backup and restore |
| `Webhooks` | the rows of webhooks, the two transactions of an update, a notification |
| `Absence` | the value of a missing row or file, shared by the four modules above |
| `SessionRegistry` | abstract: when a session may open and what closes it |
| `NetworkTypes`, `NetworkTheorems` | proofs about `NetworkJobs` |
| `RuleTheorems` | proofs about `RuleWorkbench` |
| `FeedTheorems` | proofs about `FeedRefresh` |
| `AccessTheorems` | proofs about `AccessControl` |
| `CaseTheorems` | proofs about `Casework`, over `AccessTheorems` |
| `InventoryTheorems` | proofs about `Inventory` and `Discovery` |
| `InstallationTheorems` | proofs about `Storage` and `Webhooks` |
| `MC...` | small instances and the scenes of the runs |

`NetworkJobs!LifecycleKept` states that the queue implements `JobLifecycle`,
`RuleWorkbench!CatalogKept` that the workbench implements `RuleCatalog`, and
`AccessControl!SessionsKept` that accounts implement `SessionRegistry`, each by
INSTANCE with a refinement mapping.

### Network queue and workers

One action is one transaction. A transaction that reads `time.time()` before it gets the
write lock takes a parameter `now`, a reading at most `MaxWait` ticks old;
one that reads it under the lock uses `clock`. `work[w]` is a
worker's position in `execute_job` with its in-memory copy of the job; `orphan` is a
worker that died while its probe process lives on. The probe of a
reservation lasts at most `MaxProbe` ticks: `Tick` waits for it, as the process's
own deadline kills it.

Abstractions, each of which keeps what the code's state can do:

* `ScheduleDue` handles one due row in a step; the code handles up to 20
  in one transaction. Every state in between is one the code could have stopped at
  with a smaller batch. Its branch for a scope that vanished (404/409) cannot be taken
  inside the transaction that has just selected the scope.
* `row_version` of a configuration guards administrators against each other and
  is left out: an action `Save` is one that passed it.
* `Cleanup` deletes any finished rows, where the code takes those older than a
  retention period; expired budgets and discovery candidates are not in the model.
* A crash takes one worker. A restart under another policy takes them all
  (`ChangePolicy`), as the policy is read at start.
* An expired token and a lost role are one action, `ChangeRole`: both make
  `enabled_job` refuse the actor.
* Resolution and sockets are a choice of address and of outcome.

The code's constants: claim and lock 45 s; a probe at most 8 s; `sqlite3` waits at
most 30 s for the lock. `TimingAssumption` (`MaxProbe + MaxWait < LeaseTTL`) is what
these numbers give, and the one fact about time that the proofs use.

### Rules

`rule`, `revs`, `runs`, `reviews`, `events`, `claims` are the tables, `task[t]` a
thread in `validate`, `page[a][r]` what an actor last loaded: version, working revision
and its state, the newest report of it, what is published, whether it is archived.
`Request(a, r, p)` is a request made from page `p`. A report is recorded without a new
version, so the page of the present version may lack it, and `submit` acts on the newest
one; `PageCurrent` promises the rest of the page, and of its report that it is one of that
revision. Titles, digests and storage
budgets only refuse requests and are left out; snapshots never change, so a revision
is its content. Which routes a role may call is left open except for the checks inside
the services (`human_admin`). Deleting an account is losing its role. Seeding is not
modelled; an export only adds an audit entry. `Restart` takes all processes
together, because docs/detection-rule-lifecycle.md has the operator stop every writer
before the feature is switched. A claim lasts 15 s and a validator 3 s.

### Feed refresh

`lease` is the row of `job_leases`, `run[p]` a thread's position in
`run_feed_refresh` with what it has read, and `schedule` the settings. A renewal must come
within `RenewWithin` of the last one: the thread waits 15 s and two transactions may
each wait 30 s for the lock, 75 s together, and the lease lasts 90 s.
The five fetchers are one `Store` that may happen any number of times; planned times are unique
(the code writes microseconds), which the model gives them by a choice number. The worker
heartbeat of the scheduler is left out. The history variable `lapsed` says that a
renewal once failed: from then on two refreshes may overlap (section 5), and
`NoticeOnce` and `ServedOnce` promise nothing.

### Accounts, sessions, tokens, audit

`users`, `sessions`, `revoked`, `tokens`, `windows` are the tables (`sessions` are the
JWTs, which no table holds), `req[p]` is where a process is in a route and what it has
read. A request authenticates, looks, acts and logs in separate transactions, each an
action; `BeginLog` and `EndLog` are the two halves of one transaction, because the
chain depends on what is read under the lock (`audit_service.py:113`). A process
may die anywhere; a failed entry is printed and lost (`FailLog`).

Abstractions: a check of a password or of the policy succeeds or fails; hashes are
injective; clocks do not go back; a token of the model has no user's name, as
`api:` names are not accounts. Timestamps of last login and last use, the password
policy's settings and the migration of accounts from old releases are left out:
nothing else reads them. Ids grow by AUTOINCREMENT and are not reused.

A session belongs to the account that has the name when it is issued, as
`create_access_token` reads the name again (`auth_service.py:231-238`). A login whose
password was checked on an account that is then changed, or deleted and created again,
gets a session of the account it finds at the end; `IssueSession` does the same, and
`SessionsKept` is about sessions that were issued, not about logins under way.

### Cases and evidence

`Casework` adds to `AccessControl` the rows of cases (`cases`, each with its notes,
references, evidence and events), the snapshots, and `visit[p]`: what a process does for
an analyst. `Load` is a page with the version it shows; `Submit` authenticates a change
that is sent from it; `Change` is the transaction. Between these steps other analysts
act, and every step of `AccessControl` may happen, so the account may lose its role, be
deleted, and be created again under the same name. `Cascade` is what the foreign keys
do to a case in the transaction that deletes an account (`ON DELETE SET NULL`), and
`Known` is what they refuse. `BeginCapture` and `Store` are the two looks at the quota.

Abstractions: the two reads of an authentication are one step here (`AccessControl` has
them apart); the audit entries of one transaction are one entry; a transaction may
always be refused (`Abandon`), which stands for unknown targets, digests that do not
match and the bytes of a snapshot; requests by API tokens, whose principals are
their own, the initial summary of a case and the conclusion of a closed one are left out.
`sharer` of a snapshot is a history variable.

### Inventory and discovered hosts

`assets`, `software` and `assessments` map an identifier to its row or to `None`,
`revision` is `asset_inventory_state`, `imports[actor]` and `selections[actor]` the
latest preview of an administrator (the code keeps one of each per actor). A preview
is made in one transaction and committed in another, up to ten minutes later; between
them everything else may happen, and the code compares the revision, and for
discovered hosts also the policy and the versions of every candidate and linked asset.
Which of these comparisons makes a difference is what `ImportAsPreviewed` and
`SelectedAsPreviewed` ask: a change that outdates a preview without touching what is
compared would break them.

Abstractions: descriptive fields are one value, and so are those of an assessment beside its
link and its status; a file is a set of rows; the order in which a commit handles the groups
is immaterial, because they are of different assets. Changes with an outdated
`expected_version` are refused and left out. A candidate is known by its address.
Age is counted in days and months (`GrowOld`, `MonthPasses`), as nothing looks closer;
a preview is gone before a month is. `Files` with contradicting rows are refused
(`Parsable`); sizes, headers and cell formats only refuse a file.

### Storage

A site is an installation directory with the file its manifest names. `tool[d]` is the
position of the installer that holds the lock of the directory; each step is one that
is durable by itself (`atomic_private_write`, a committed transaction, a created file), and
`Crash` may follow any. A database is what the checks look at: its identity, its tables,
whether it has accounts and administrators, the setup marker, the default records, and a
count of writes. `birth` tells files apart; `named`, `acked` and `setUp` are history, and so is
the field `began` of a bundle. The web process is `Usable`, the check of every connection, with
two writers, `SetUp` and `Write`. A run of the backup tool writes a directory of its own,
`bundle[b]`; it takes no lock, so runs may overlap, those of earlier days stay, and any complete
one can be restored where there is no database, an older one during a later backup too. At
most `MaxMishaps` times the operator loses a file, replaces one by another site's, or deletes
the administrators, with or without the other accounts. `copies` are the files set aside before
an adoption or by the operator.

Two cases in which public setup does open again are in the model and in `SetupClosed`. A
copy from before the setup, taken as a bundle or by hand, still asks for a first administrator
when it is put back. And `add_identity` sets the marker if the file has any account
(`local.py:194-196`): a database whose administrators were deleted and who were its only accounts
is new to an adoption. `setUp` therefore has the identities that were set up under the
installation, or given to a database with accounts. `BundleRestorable` speaks of what the file
held when the backup began or, if the operator put another one in its place before it was
copied, what that one held.

Abstractions: the copy of SQLite's backup is one read of a committed state; seeding is one
transaction for each kind of record; tables are named, not their columns. Disposable storage
(`ephemeral`), refused paths and permissions, and databases of an unknown schema write
nothing. Deleting the administrators by hand, files swapped and bundles copied back
are what docs/storage-resilience.md and the error codes reckon with; they are not code
of the repository.

### Webhooks

`hooks` is the table, `created` its AUTOINCREMENT counter, `edits[e]` an update between
the reading of the stored URL and the writing of the row, `delivery` a notification with
the rows it read. A post succeeds or fails, and so does the record of its time after it. `given`
remembers which URLs were entered for a row. Assumed of administrators: they enter
complete URLs when they create a webhook, and update webhooks a page has listed.

## 3. Runs

All instances are small sets of model values. Symmetric sets are permuted where no
liveness is checked. Several scenes share one run; a scene has its own
initial states and its own, tighter bounds.

| Run | Question | Instance and why it is enough |
|---|---|---|
| `traffic` | `NoSharedContact`, `OneOutstanding`, `ManualSpacing`, `SharedSlots`, `RunCoverage` | two workers; a monitor and a profile on one address with two jobs, four ticks: a claim (2 ticks) expires under a probe (1 tick) and the job is taken over; a profile of three targets in chunks of two, one IPv6; three scopes for two slots |
| `budget` | `PaidContacts` | one unit of budget of each kind per window, a name to resolve, readings one tick late, a window boundary inside the run |
| `queue` | `CurrentMeasurement`, `FailureStreak`, `IdempotentRequests`, `LifecycleKept` | one monitor from an empty database under every action, two failures in a row to be down, three outcomes; two scopes for a queue of one, two retained jobs so that the third insert prunes |
| `service` | `RunsEnd`, `QueuedServed` | three scopes for two slots; a crash comes only while the claim can still expire before the clock stops |
| `lifecycle` | `FrozenIsWorking`, `TwoPersonPublication`, `PageCurrent`, `MirrorsPublished`, `CatalogKept` | two people, three revisions, eight events of a rule, pages with the newest report: draft, report, review, publication, withdrawal or rollback, and a second round; two legacy rules, one worked on after the takeover |
| `capacity` | `ProcessBound` | three threads for two slots and four ticks, so that a claim (2) expires under a late thread and is replaced. The quotas end the run: deadlock is not checked |
| `refresh` | `RenewedIsHeld`, `NoticeOnce`, `ServedOnce`, `DueServed` | two schedulers, one request, four ticks, one record; renewals may fail and threads crash while an abandoned lease can still expire. Time ends at `MaxClock`: deadlock is not checked |
| `access` | `AdministratorKept`, `SessionsKept`, `RateKept`, `LedgerVerifies`, `ReferencesHold`, `SawWhatChanged`, `ChronologyGivesCase`, `SharedByPrincipal`, `NoDepartedAuthor` | seven scenes with two requests at a time and two names of which one is deleted and reused; three sessions that live one tick, two tokens over two windows of two ticks, a chain of three entries with two writers; one case with room for three events and one entry of each kind, so that every limit is met; one snapshot for two captures. Bounded versions and ids end the run: deadlock is not checked |
| `installation` | `ImportAsPreviewed`, `AssessmentsTraced`, `SelectedAsPreviewed`, `ReadyIsComplete`, `IdentityTells`, `SetupClosed`, `BundleRestorable`, `OnlyGivenUrls`, `ChannelsTried` | four scenes, below. Bounded revisions, identities and edits end the run: deadlock is not checked |
| `late`, `reschedule`, `untruth` | see section 5 | each finds its counterexample |

The scenes of `installation` (`MCInstallation`), which share no state but the inventory:

* *inventory*: two administrators with a preview each (`MaxPreviews` 2), two assets, two
  software records and one assessment, which are also the limits, so that imports meet
  them; three files: one that creates two assets, one whose two rows are merged into one asset, one
  that is refused. Four changes of the inventory (`MaxRevision`) let an asset be created, changed by two others
  and imported into; one status beside `open` is enough, as all are treated alike.
* *discovery*: one asset in the inventory, two addresses, two observations
  (`MaxScans`, `MaxObservations`), imports of up to two items (`MaxItems`), three versions
  of a candidate (`MaxReviews`): both candidates may link to the asset that is there, or one
  is reviewed, seen under another name or cleaned away between preview and commit.
  Less is combined than in the other scenes: archiving stands for the changes of an asset,
  the revision stays below 4, one administrator has no preview, and of profile, policy,
  archived asset and ignored candidate one at a time differs from the start.
* *storage*: two sites, of which one has a database from before, with or without accounts; two
  identities (`MaxIds`), one write under each, one mishap, two bundles (`Bundles`), so that an
  older one is restored while the next is taken. One installer and one backup are under way
  at a time, as those of two sites share nothing, and the key is backed up where there is one. That is an adoption and
  an installation, or an installation whose file is lost and another one, with a death at
  every step, a backup and its restore.
* *webhooks*: two rows, two URLs, one update at a time beside two more changes
  (`MaxEdits`), a notification of two categories. A third row or category meets the same code.

Bounds are the constants named `Max...`, `...Limit`: the latter are limits of the code made small, the first bound the model alone.

### Fairness

Network: worker threads poll in a loop (`_loop`), so `Claim` and `Execute` of a
worker are weakly fair; probe processes are killed at a deadline, so `OrphanEnds` is;
time passes. Nothing is assumed of requests, crashes or mishaps. Feed: the polling loop of
every scheduler and the steps of a refresh are weakly fair, and time passes.
Liveness speaks only of what comes due within the modelled time.

## 4. Proofs

Every safety property of a passing run, action properties included, is a theorem for all
values of the constants; what TLC alone checks is the three liveness properties. The
theorems have no hypotheses but the specification and what its constants are assumed to be:
`ScopeAssumption`, `TimingAssumption`, `FeedAssumption`, `InventoryAssumption`,
`DiscoveryAssumption`, `StorageAssumption`, `WebhooksAssumption` and the others are named
in the modules that declare the constants, and TLC evaluates them in the runs. Beside
the code's limits and its timing they say what a model has to say: `None` is not a row, tables
and files are finite, and a database that is found with an administrator has accounts. The
theorems `ReadyUnlessExchanged` and `ReliableRefresh` are about fewer behaviours,
which they name.

Each proof has the same shape: the initial states satisfy an invariant, each action keeps
it, and it implies the property. A property alone is seldom inductive; what had to be added
says why the code is correct.

### Network queue and workers

* `TypesKept`: `TypeInv` strengthens `TypeOK` by what a worker's position says of its
  local job (a claim in every position but idle, a chunk no longer than its targets):
  without it the result of a finish has no type. It is the base of all other results.
* `NoContactShared`: `ContactInv` says that whoever contacts an address holds a live lock on
  it under an owner that is his alone, and that this lock cannot expire before his
  probe is over. It is inductive because `reserve` takes all its locks in one transaction
  after dropping only expired ones, `release` deletes by owner, and `MaxProbe +
  MaxWait < LeaseTTL`. The property alone says nothing of locks.
* `OutstandingOnce`, `RequestsOnce`, `ManualApart`, `SlotsKept`, `MeasurementCurrent`,
  `StreakShown`: all are drawn from two lemmas about every step. `JobsGoOn` says what may
  become of the jobs: all stay as they are, some end, some that had ended are forgotten, one is added
  to a scope that has none outstanding, one is started where the slots allow it, or one goes
  back to the queue. `ConfigsGoOn` and `MonitorGoesOn` say what may become of the
  configurations and of what is shown. `ManualApart` also needs that a configuration remembers when its latest
  manual job was made (`ManualInv`); that is what a save has to carry over.
* `RunsCover`: a job has recorded exactly the stretch of targets, around the end of the
  list, that its number of processed targets and its start tell (`CoveredInv`). That the
  next chunk continues it needs that an outstanding run stands where its profile does
  (`CursorInv`), and that a chunk is never longer than what is left (`SizeInv`), which is decided
  two transactions before it is recorded. `OneOutstanding` enters: two runs of a
  profile would move each other's cursor.
* `QueueImplemented`: each step of the queue is a step of `JobLifecycle` or a stutter.
* `BudgetsKept`: what a transaction charges it has checked in the same transaction.
* `AttemptsPaid`: the attempts up to a window do not exceed the payments up to it. Between
  the payment and the attempt a name is resolved and locks are taken, perhaps in the next
  window; `PaidFor` therefore counts the payments that workers have in hand on the
  side of the attempts, from the present window on. A crash or a failure loses such a
  payment and never frees one. It needs that a reservation costs something
  (`ChunkReserved`; a monitor has at least one port, `Ports > 0` in `TimingAssumption`, as the schema asks).
  The sums over windows are recursive functions, and what one more unit does to them is
  proved by induction on the windows.
* `LimitsKept`: no more outstanding jobs and enabled configurations than allowed. A
  running job keeps its place, so that one that is deferred needs no new one.

### Rules

`RuleInv` is one invariant for all seven theorems of `RuleTheorems`. `RowsInv` says that a managed rule points at
revisions of its own, that only the working one is frozen, and that what the public
pointer names is of a state that never changes again: `FrozenIsWorking` alone does
not survive a withdrawal. `MirrorFor` needs it, since only then the snapshot behind the
columns stays. `CountFor` counts events against versions and reports. `PagesInv` adds to
`PageCurrent` that no page is ahead of its rule, so that a new version is one no page shows;
reports are never removed, so that the one on a page stays a report of its revision. `ClaimInv`
follows a validator from the claim to its report: owners differ, a claim and its thread
name one revision, a process that lives has a live claim, and every live claim has
room left for its report. The last is what the quota, checked before the validator runs, amounts to.
`CatalogImplemented` maps each step to one of `RuleCatalog`.

### Feed refresh

`HeldInv`: a thread that renews is in the body of the refresh, owns the lease, and the
lease reaches `LeaseTTL` beyond its last renewal. With `RenewWithin < LeaseTTL` this gives
`RenewedHolds`, whatever fails. As long as no renewal failed,
everybody in the body renews, so there is one (`AloneInv`), and no record above
its head has been told of (`FreshInv`). For `TimesServedOnce` the times that were served must
lie before the time that is planned by the same choice (`OrderInv`): the
schedule read before the lease is looked at again after it, and this is why.
`RefreshesApart` states that there is one refresh until a renewal fails. `ReliableRefresh` draws the three
promises together for `ReliableSpec`, where renewals succeed and everything else
may fail.

### Accounts, sessions, tokens, audit

* `AdministratorAlways`: `PrimaryInv` says that a set-up installation has exactly
  one primary account and that it is an administrator. It is not the count of administrators
  that keeps one (that guard alone admits demoting the primary account while another
  administrator is there), but that the primary account is neither demoted nor deleted,
  and that no second one can be inserted.
* `LedgerAlwaysVerifies`: `HeadHeld` says that a writer between the reading of the head and
  the insertion holds the lock and that the head it read is still the head. Without it
  nothing relates what is inserted to what is there.
* `RateAlwaysKept`: `RateInv` ties the requests admitted in the current window to the row
  of the token, and says that no later window has any.
* `SessionsAlwaysKept`: `SessionInv` says that sessions know only ids and versions that
  were given out, that no two accounts share an id, and that a revocation is kept as long as its
  session could be accepted: this is what makes reused names and purged revocations harmless.
* `RefusedForGood` says the same of the tokens themselves, without the abstract
  registry: none that is refused is accepted again, and a step that changes an account
  leaves none of its tokens accepted. A token that is issued later, by a login that began
  before, is one of the account as it then is.

### Cases

A step of the cases is a step of `AccessControl` (`CasesOverAccess`), so the invariants of
accounts hold here without being proved again: `AccessKeptByCases` draws the four
properties of `AccessControl` that `access` checks. `CaseInv` adds:

* `OwnersPast`: an event tells of owners up to the last id only. Without it, an account
  that is created could become the owner of an old case by the last word of its
  chronology, and `ChronologyStaysTrue` would fail.
* `SeenKnown`: a page is of no later version than its case, and one of the present version
  shows the row as it is, but for an owner that was lost. Then a change that is accepted
  is made to what was seen.
* `EvidenceHeld`: evidence is stored snapshots, which are never removed. The quota holds
  because the transaction that stores a capture looks at it again, after the enrichment.

### Inventory and discovered hosts

* `ImportsAsPreviewed`: an open preview is not ahead of the inventory, and its groups are
  finite. Every action either leaves alone all that `Importable` and `Summary` read, or
  raises the revision past every preview; only the new preview itself has to be looked at. That
  the commit of one import outdates the previews of the others is a case of it.
* `AssessmentsStayTraced`: each row is the end of a chain of events that begins with its
  creation (`Traced`), kept by every path that writes one, the import of a file included.
* `SelectionsAsPreviewed`: the candidate of an open
  selection is there and cannot grow old, one of the version that was shown is the row that
  was shown, and as long as the revision stays the selection suits the assets
  (`ReviewInv`). It shows that revision, policy, identity and version are enough to
  compare, even where several candidates are linked to one asset.
* `TablesWhole`: single changes, imports of files and of discovered hosts keep the keys of the
  three tables (the `UNIQUE` constraints never stop a transaction halfway), their owners and their
  limits. A bulk write is one check followed by many rows; `AssetsGrow` says what it may do
  to the assets. It needs that the groups of a file have different names, and that new
  identifiers of a selection differ and are none of an asset that is there, an archived one included
  (`PreviewsNamed`, `Importable`, `Acceptable`).
* `EvidenceBounded`: links and addresses are counted by the preview only. `RoomForEvidence`
  holds of an open preview as long as the revision is that of the preview, since every
  commit of a selection raises it.
* `InventoryTyped` is the type invariant of the whole.

### Storage and webhooks

* `SetupStaysClosed`: of every file there is, of copies and of bundles that are not
  complete yet: one that had an administrator set up has accounts, and the marker once it has
  an identity and accounts (`Closed`). That alone does not tell where a file that asks comes from.
  `OpenInv` does: what does not ask was set up (`AccountsKnown`); a site's file that asks though
  its installation was set up, or while another site has a file of that identity, asks in a
  copy too (`AskedEarly`, `CopiedEarly`), since a file reaches a second place or comes back by being
  copied, and copies and bundles stay. Losses and deletions only take files and accounts away, and
  deletion leaves the marker.
* `IdentitiesTell`: `TellInv` says of each position of the installer that its identity is its own
  and that nothing has it before the file does.
* `BundlesRestore`: `BundleInv` follows a run of the tool. Until it has copied the database, the
  file of its site holds what `began` says: writes add to it, and whoever replaces it changes
  `began`; afterwards the copy does. The manifest it took is one of a finished installation, which
  never changes, so what it verified suits every site of that identity. It holds for any
  number of mishaps and bundles.
* `ReadyMeansComplete` holds as long as at most one mishap happens,
  and `MishapInv` tells what the first one can do: before it, every finished installation has
  its own file (`Undamaged`); after it, either a file that is not seeded yet is still
  nowhere but at its installation (`Apart`), or no finished installation lacks a file, so
  that nothing is restored to it (`Kept`). With two mishaps `ReadyIsComplete` is false of the code: TLC finds a
  behaviour of 23 states in which the file of an unfinished installation is put elsewhere, adopted there, backed
  up and brought home to a manifest that meanwhile was finished. The run `installation` has one mishap, as
  this theorem does.
* `ReadyUnlessExchanged`: it takes an exchange of files between sites
  for that. With any number of losses and of deleted administrators, the file of an
  unfinished installation never gets elsewhere (`Apart` holds for ever).
* `TablesStay`: whatever is exchanged, a site that can be used has all its tables.
* `UrlsGiven`: rows beyond the counter do not exist, so that an identifier is never
  given twice, and an update in progress holds a URL entered for its row, unless that row
  is gone, and then it stays gone.
* `ChannelsAllTried`: what is still to post and what
  was tried are disjoint and together what the rows read at the start ask for, and the
  counters are their sizes (`Accounted`).

## 5. Where the documents and the code part

* `late`: docs and the message in `rule_validation_service.py:92` say a frozen
  revision cannot be revalidated. The second transaction of `validate` does not look
  again, so a validation begun on a draft is recorded after submission.
* `reschedule`: the comment at `refresh_service.py:89` says a new schedule is not
  overwritten. The schedule is read outside the transaction that writes it.
* `untruth`: `main.py:947` ignores whether the password was updated, and the entry of
  `main.py:956` says it was, when the account has been deleted in between.

A renewal of the lease that fails ends the renewing thread, not the refresh; after 90 s
another refresh may start beside it. Renewals may fail in `refresh`: `RenewedIsHeld` holds
then too, and `lapsed` limits the other promises.

## 6. Only model-checked, and not modelled

Model-checked on small instances only:

* liveness: `RunsEnd`, `QueuedServed` and `DueServed`. It rests on fairness and ENABLED, of
  which the prover knows nothing;
* the three runs of section 5, which are counterexamples.

What is proved of storage ends where it is false: `SetupClosed`, `IdentityTells` and
`BundleRestorable` hold under any mishaps, `ReadyIsComplete` under one, or under any without an
exchange of files; an exchange with another mishap breaks it (section 4).

Not modelled: feed parsers and lookups (they read and write rows of external data that no
modelled decision depends on; that records appear is an action of `FeedRefresh`);
templates and routing, which keep no state; scoring, search, exports and formatting;
how outbound requests choose and pin an address; disposable storage.

## 7. What is left

1. Cases: requests by API tokens and the conclusions of closed cases.
2. The upgrade of a database of an older release, step by step.
3. A proof of the liveness properties, which needs a prover for ENABLED and fairness.
