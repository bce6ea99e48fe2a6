---------------------------- MODULE RuleLifecycle ----------------------------
(***************************************************************************)
(* The version-managed rule catalog of                                     *)
(* app/services/rule_lifecycle_service.py: immutable revisions, the review *)
(* workflow on the working revision, the public pointer, and the legacy    *)
(* catalog it takes over (rule_migrations.py, rule_service.py).  Every     *)
(* action is one write transaction.                                        *)
(*                                                                         *)
(* A request names the rule version it was composed against.  That its     *)
(* actor was authorized when the request came in is left open; only what   *)
(* the transaction itself checks again is a guard.                         *)
(***************************************************************************)
EXTENDS Naturals, FiniteSets, Sequences

CONSTANTS
  Rules,          \* ids of detection_rules
  Contents,       \* complete snapshots
  Blank,          \* the private identity of a rule that was never published
  Humans,         \* user accounts
  Tokens,         \* API tokens
  Unknown,        \* author of a legacy revision
  Policies,       \* validator_version() of possible installations
  Threads,        \* request threads that validate
  Owners,         \* claim identities (uuid4 of validate)
  NoOwner,        \* no claim
  Slots,          \* validator slots (2)
  ClaimTTL,       \* lifetime of a claim (15 s)
  MaxRun,         \* wall deadline of a validator process (3 s)
  RuleLimit,      \* rules in the table (500)
  RevisionLimit,  \* revisions of a rule (50)
  RunLimit,       \* reports of a revision (20)
  EventLimit,     \* events of a rule (500)
  MaxClock        \* bound of the model

Actors == Humans \cup Tokens
None == 0   \* NULL in a column that holds an id

ASSUME RuleSetAssumption ==
  /\ Humans \cap Tokens = {}
  /\ Unknown \notin Actors
  /\ Blank \notin Contents
  /\ IsFiniteSet(Rules) /\ IsFiniteSet(Threads)
  /\ NoOwner \notin Owners

\* A validator process is over before the claim it runs under can expire.
ASSUME RuleLimitAssumption ==
  /\ {Slots, ClaimTTL, MaxRun, RuleLimit, RevisionLimit, RunLimit, EventLimit,
      MaxClock} \subseteq Nat
  /\ MaxRun < ClaimTTL

VARIABLES
  enabled,    \* FEATURE_RULE_LIFECYCLE of the running processes
  activated,  \* app_settings.rule_lifecycle_activated
  policy,     \* validator_version() of the running processes
  admins,     \* users whose role is admin
  rule,       \* detection_rules
  revs,       \* rule_revisions, by id
  runs,       \* rule_validation_runs, by id
  reviews,    \* rule_reviews, by id
  events,     \* number of rule_lifecycle_events of every rule
  claims,     \* rule_validation_claims, by slot
  task,       \* each thread's position in validate()
  page,       \* what every actor last read of every rule
  clock       \* time.time()

vars == <<enabled, activated, policy, admins, rule, revs, runs, reviews,
          events, claims, task, page, clock>>
deployment == <<enabled, activated, policy>>
validating == <<claims, task, clock>>

-----------------------------------------------------------------------------
(* Rows.                                                                   *)

Frozen == {"in_review", "approved"}
RevisionStates ==
  Frozen \cup {"legacy_unreviewed", "draft", "rejected", "published", "withdrawn"}
ReportStatus == {"valid", "invalid", "error"}

\* A rule is unused, in the legacy catalog, version-managed or deleted.
Row == [status: {"unused", "legacy", "managed", "deleted"},
        content: Contents \cup {Blank}, working: Nat, published: Nat,
        archived: BOOLEAN, version: Nat]
NoRow == [status |-> "unused", content |-> Blank, working |-> None,
          published |-> None, archived |-> FALSE, version |-> 1]

Revision == [rule: Rules, parent: Nat, content: Contents,
             author: Actors \cup {Unknown}, state: RevisionStates,
             submitted: Nat]
\* at is history: the state of the revision when the report was recorded.
Run == [rev: Nat, policy: Policies, status: ReportStatus, at: RevisionStates]
ReviewRow == [rev: Nat, run: Nat, reviewer: Actors,
              decision: {"approved", "rejected"}]
ClaimRow == [rev: Nat, owner: Owners, expires: Nat]
Task == [pc: {"idle", "running", "reported", "closing", "orphan"},
         rev: Nat, owner: Owners \cup {NoOwner}, until: Nat,
         status: ReportStatus]
IdleTask == [pc |-> "idle", rev |-> None, owner |-> NoOwner, until |-> 0,
             status |-> "error"]

\* What a page shows of a rule.
Page == [version: Nat, working: Nat, state: RevisionStates, report: Nat,
         published: Nat, archived: BOOLEAN]
NoPage == [version |-> 0, working |-> None, state |-> "draft", report |-> None,
           published |-> None, archived |-> FALSE]

TypeOK ==
  /\ enabled \in BOOLEAN /\ activated \in BOOLEAN
  /\ policy \in Policies
  /\ admins \subseteq Humans
  /\ rule \in [Rules -> Row]
  /\ revs \in Seq(Revision) /\ runs \in Seq(Run) /\ reviews \in Seq(ReviewRow)
  /\ events \in [Rules -> Nat]
  /\ DOMAIN claims \subseteq 1..Slots
  /\ claims \in [DOMAIN claims -> ClaimRow]
  /\ task \in [Threads -> Task]
  /\ page \in [Actors -> [Rules -> Page]]
  /\ clock \in Nat

\* A new installation, before the lifecycle was ever switched on.
Init ==
  /\ enabled = FALSE /\ activated = FALSE
  /\ policy \in Policies
  /\ admins = Humans
  /\ rule = [r \in Rules |-> NoRow]
  /\ revs = <<>> /\ runs = <<>> /\ reviews = <<>>
  /\ events = [r \in Rules |-> 0]
  /\ claims = [s \in {} |-> {}]
  /\ task = [t \in Threads |-> IdleTask]
  /\ page = [a \in Actors |-> [r \in Rules |-> NoPage]]
  /\ clock = 0

-----------------------------------------------------------------------------
(* Shared helpers.                                                         *)

RevsOf(r) == {n \in DOMAIN revs : revs[n].rule = r}
RunsOf(n) == {i \in DOMAIN runs : runs[i].rev = n}
ReportsOf(r) == {i \in DOMAIN runs : revs[runs[i].rev].rule = r}
InTable == {r \in Rules : rule[r].status \in {"legacy", "managed"}}

\* identity(conn, rule_id, expected_version, writable=True)
Writable(r, version) ==
  /\ enabled
  /\ rule[r].status = "managed"
  /\ rule[r].version = version
  /\ ~rule[r].archived

\* current_candidate: the named revision is the working one.
Candidate(r, p) == Writable(r, p.version) /\ rule[r].working = p.working

\* event(): a full history refuses the whole transaction.
Log(r) == /\ events[r] < EventLimit
          /\ events' = [events EXCEPT ![r] = @ + 1]

Bumped(r) == [rule EXCEPT ![r].version = @ + 1]
InState(n, state) == [revs EXCEPT ![n].state = state]

\* add_revision on a table of revisions.
Draft(r, content, parent, a) ==
  [rule |-> r, parent |-> parent, content |-> content, author |-> a,
   state |-> "draft", submitted |-> None]
AddRevision(table, r, content, parent, a) ==
  /\ Cardinality(RevsOf(r)) < RevisionLimit
  /\ revs' = Append(table, Draft(r, content, parent, a))
  /\ rule' = [rule EXCEPT ![r].working = Len(table) + 1, ![r].version = @ + 1]

\* Variant: any valid report of the rule will do.
ValidReportOfRule(i, n) ==
  /\ i \in DOMAIN runs
  /\ revs[runs[i].rev].rule = revs[n].rule
  /\ runs[i].status = "valid" /\ runs[i].policy = policy

\* valid_report: run i is a valid report of revision n by today's validator.
ValidReport(i, n) ==
  /\ i \in RunsOf(n)
  /\ runs[i].status = "valid" /\ runs[i].policy = policy

\* The run ORDER BY id DESC LIMIT 1 finds.
Latest(S) == CHOOSE i \in S : \A j \in S : j <= i
NewestReport(n) == IF RunsOf(n) = {} THEN None ELSE Latest(RunsOf(n))

\* working_record with its revision_record, which has the newest report of the
\* revision; its snapshot never changes, and its reviews come with a new version.
View(r) == [version |-> rule[r].version, working |-> rule[r].working,
            state |-> IF rule[r].working = None THEN "draft"
                      ELSE revs[rule[r].working].state,
            report |-> NewestReport(rule[r].working),
            published |-> rule[r].published, archived |-> rule[r].archived]

HumanAdmin(a) == a \in admins
\* Variant: authors may review their own candidate.
AnyReviewer(a, author) == HumanAdmin(a)
OtherAdmin(a, author) == HumanAdmin(a) /\ a # author

-----------------------------------------------------------------------------
(* The workflow.                                                           *)

Create(a, r, content) ==
  /\ enabled
  /\ rule[r].status = "unused"
  /\ Cardinality(InTable) < RuleLimit
  /\ revs' = Append(revs, Draft(r, content, None, a))
  /\ rule' = [rule EXCEPT ![r] = [NoRow EXCEPT !.status = "managed",
                                               !.working = Len(revs) + 1]]
  /\ Log(r)
  /\ UNCHANGED <<deployment, validating, admins, runs, reviews, page>>

\* Variant: a candidate under review may be succeeded.
SucceedAny(a, r, p, content) ==
  /\ Candidate(r, p)
  /\ AddRevision(revs, r, content, p.working, a)
  /\ Log(r)
  /\ UNCHANGED <<deployment, validating, admins, runs, reviews, page>>

\* new_revision
Succeed(a, r, p, content) ==
  /\ Candidate(r, p)
  /\ revs[p.working].state \notin Frozen
  /\ AddRevision(revs, r, content, p.working, a)
  /\ Log(r)
  /\ UNCHANGED <<deployment, validating, admins, runs, reviews, page>>

Submit(r, p) ==
  /\ Candidate(r, p)
  /\ revs[p.working].state = "draft"
  /\ RunsOf(p.working) # {}
  /\ LET i == Latest(RunsOf(p.working)) IN
       /\ ValidReport(i, p.working)
       /\ revs' = [revs EXCEPT ![p.working].state = "in_review",
                               ![p.working].submitted = i]
  /\ rule' = Bumped(r)
  /\ Log(r)
  /\ UNCHANGED <<deployment, validating, admins, runs, reviews, page>>

Review(a, r, p, decision) ==
  /\ Candidate(r, p)
  /\ OtherAdmin(a, revs[p.working].author)
  /\ revs[p.working].state = "in_review"
  /\ ValidReport(revs[p.working].submitted, p.working)
  /\ reviews' = Append(reviews, [rev |-> p.working,
                                 run |-> revs[p.working].submitted,
                                 reviewer |-> a, decision |-> decision])
  /\ revs' = InState(p.working, decision)
  /\ rule' = Bumped(r)
  /\ Log(r)
  /\ UNCHANGED <<deployment, validating, admins, runs, page>>

ApprovalsOf(n) ==
  {i \in DOMAIN reviews : reviews[i].rev = n /\ reviews[i].decision = "approved"}

\* The last approval is of the submitted report, by another person who is
\* still an administrator.
Approved(n) ==
  /\ ApprovalsOf(n) # {}
  /\ LET approval == reviews[Latest(ApprovalsOf(n))] IN
       /\ approval.run = revs[n].submitted
       /\ OtherAdmin(approval.reviewer, revs[n].author)

Publish(a, r, p) ==
  /\ HumanAdmin(a)
  /\ Candidate(r, p)
  /\ revs[p.working].state = "approved"
  /\ ValidReport(revs[p.working].submitted, p.working)
  /\ Approved(p.working)
  /\ revs' = InState(p.working, "published")
  /\ rule' = [rule EXCEPT ![r].content = revs[p.working].content,
                          ![r].published = p.working, ![r].version = @ + 1]
  /\ Log(r)
  /\ UNCHANGED <<deployment, validating, admins, runs, reviews, page>>

\* derive() of the frozen candidate.
Withdraw(a, r, p) ==
  /\ Candidate(r, p)
  /\ revs[p.working].state \in Frozen
  /\ AddRevision(InState(p.working, "withdrawn"), r, revs[p.working].content,
                 p.working, a)
  /\ Log(r)
  /\ UNCHANGED <<deployment, validating, admins, runs, reviews, page>>

\* Variant: rolling back restores the old revision to the public at once.
RollbackAtOnce(a, r, p, source) ==
  /\ Writable(r, p.version)
  /\ revs[rule[r].working].state \notin Frozen
  /\ source \in RevsOf(r)
  /\ rule' = [rule EXCEPT ![r].published = source, ![r].version = @ + 1]
  /\ Log(r)
  /\ UNCHANGED <<deployment, validating, admins, revs, runs, reviews, page>>

\* derive() of any revision of the rule.
Rollback(a, r, p, source) ==
  /\ Writable(r, p.version)
  /\ revs[rule[r].working].state \notin Frozen
  /\ source \in RevsOf(r)
  /\ AddRevision(revs, r, revs[source].content, rule[r].working, a)
  /\ Log(r)
  /\ UNCHANGED <<deployment, validating, admins, runs, reviews, page>>

\* Variant: archiving leaves the version alone.
ArchiveUnversioned(r, p) ==
  /\ enabled
  /\ rule[r].status = "managed" /\ rule[r].version = p.version
  /\ rule' = [rule EXCEPT ![r].archived = ~@]
  /\ Log(r)
  /\ UNCHANGED <<deployment, validating, admins, revs, runs, reviews, page>>

\* Archive or restore.
Archive(r, p) ==
  /\ enabled
  /\ rule[r].status = "managed" /\ rule[r].version = p.version
  /\ rule' = [rule EXCEPT ![r].archived = ~@, ![r].version = @ + 1]
  /\ Log(r)
  /\ UNCHANGED <<deployment, validating, admins, revs, runs, reviews, page>>

\* An actor opens the rule in the workbench.
Load(a, r) ==
  /\ enabled
  /\ rule[r].status = "managed"
  /\ page' = [page EXCEPT ![a][r] = View(r)]
  /\ UNCHANGED <<deployment, validating, admins, rule, revs, runs, reviews,
                 events>>

\* A user becomes an administrator or is one no longer; an account that is
\* deleted never is one again.
ChangeRole(u) ==
  /\ admins' = IF u \in admins THEN admins \ {u} ELSE admins \cup {u}
  /\ UNCHANGED <<deployment, validating, rule, revs, runs, reviews, events, page>>

-----------------------------------------------------------------------------
(* The legacy catalog.                                                     *)

\* Variant: the latch is not consulted.
LegacyWritableByFlag == ~enabled
LegacyWritable == ~enabled /\ ~activated

LegacyInsert(r, content) ==
  /\ LegacyWritable
  /\ rule[r].status = "unused"
  /\ rule' = [rule EXCEPT ![r].status = "legacy", ![r].content = content]
  /\ UNCHANGED <<deployment, validating, admins, revs, runs, reviews, events, page>>

LegacyUpdate(r, content) ==
  /\ LegacyWritable
  /\ r \in InTable
  /\ rule' = [rule EXCEPT ![r].content = content]
  /\ UNCHANGED <<deployment, validating, admins, revs, runs, reviews, events, page>>

LegacyDelete(r) ==
  /\ LegacyWritable
  /\ r \in InTable
  /\ rule' = [rule EXCEPT ![r].status = "deleted"]
  /\ UNCHANGED <<deployment, validating, admins, revs, runs, reviews, events, page>>

LegacyRevision(r) ==
  [rule |-> r, parent |-> None, content |-> rule[r].content,
   author |-> Unknown, state |-> "legacy_unreviewed", submitted |-> None]

\* manage_existing: the legacy rules become managed, in the order of their
\* ids, which is left open.
Manage ==
  LET legacy == {r \in Rules : rule[r].status = "legacy"} IN
  \E order \in [1..Cardinality(legacy) -> legacy] :
    /\ \A r \in legacy : \E i \in DOMAIN order : order[i] = r
    /\ revs' = revs \o [i \in DOMAIN order |-> LegacyRevision(order[i])]
    /\ rule' = [r \in Rules |->
                  IF r \notin legacy THEN rule[r]
                  ELSE LET n == Len(revs) + CHOOSE i \in DOMAIN order :
                                              order[i] = r IN
                       [rule[r] EXCEPT !.status = "managed", !.working = n,
                                       !.published = n]]
    /\ activated' = TRUE

\* All processes are started anew, with the flag on or off and perhaps with
\* other validator packages; validator processes outlive their parents.
Restart(flag, version) ==
  /\ enabled' = flag
  /\ policy' = version
  /\ IF flag THEN Manage ELSE UNCHANGED <<activated, rule, revs>>
  /\ task' = [t \in Threads |->
                IF task[t].pc \in {"running", "orphan"}
                THEN [task[t] EXCEPT !.pc = "orphan"] ELSE IdleTask]
  /\ UNCHANGED <<admins, runs, reviews, events, claims, page, clock>>

=============================================================================
