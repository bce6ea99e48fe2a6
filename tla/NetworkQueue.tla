---------------------------- MODULE NetworkQueue ----------------------------
(***************************************************************************)
(* The durable job queue behind asset availability checks and network      *)
(* discovery: its tables, and the transactions of                          *)
(* app/services/asset_network_service.py and of the scheduler that         *)
(* configure scopes and put jobs into it.  Every database transaction      *)
(* (BEGIN IMMEDIATE ... COMMIT) is one action.                             *)
(*                                                                         *)
(* Time is a whole number of ticks.  A transaction that reads time.time()  *)
(* before it obtains the write lock is given the parameter now, a reading  *)
(* at most MaxWait ticks old (sqlite3's busy timeout); a transaction that  *)
(* reads it while holding the lock uses clock.                             *)
(***************************************************************************)
EXTENDS Naturals, FiniteSets, Sequences, Functions

CONSTANTS
  Monitors,        \* assets that may be given an availability check
  Profiles,        \* discovery profiles
  Addresses,       \* target IP addresses
  HostMonitors,    \* monitors whose target is a DNS name, not an address
  MonitorTarget,   \* the address of every other monitor
  Targets,         \* the enumerated targets of every profile, in order
  SixFamily,       \* the addresses that are IPv6
  Workers,         \* worker threads of all processes
  Owners,          \* claim identities (uuid4 of claim_job)
  NoOwner,         \* owner IS NULL
  Users,           \* principals that may request a check by hand
  System,          \* the scheduler's actor
  Keys,            \* idempotency keys
  NoKey,           \* idempotency_key IS NULL
  Outcomes,        \* what a check may report: up, down or unknown
  Thresholds,      \* failure_threshold values an administrator may save
  MaxRunning,      \* jobs running at a time (2)
  QueueLimit,      \* queued and running jobs (200)
  EnabledLimit,    \* enabled configurations of a kind (100 and 10)
  RetainedLimit,   \* finished jobs of a kind that make enqueue prune
  PruneBatch,      \* how many of the oldest it then deletes (100)
  LeaseTTL,        \* lifetime of a claim and of an address lock (45 s)
  WindowLength,    \* budget window (60 s)
  ManualGap,       \* between two manual requests of a scope (60 s)
  Interval,        \* interval_seconds of a schedule
  RetryDelay,      \* schedule_due after a full queue (60 s)
  DeferDelay,      \* defer(job, 2)
  RunLimit,        \* a discovery run ends partial after this (1800 s)
  ChunkSize,       \* targets of one discovery chunk (8)
  Ports,           \* discovery ports, the cost of one target
  DnsCost,         \* resolver operations of one name lookup (1 or 9)
  ResolveNames,    \* the profiles ask for PTR names
  Rate,            \* budget of each kind per window
  MaxProbe,        \* longest contact of one probe process
  MaxWait,         \* longest wait for the write lock
  Policies,        \* fingerprints of the allowlists the operator may configure
  EmptyPolicy,     \* the fingerprint of the empty allowlist
  MaxClock, MaxJobs, MaxGen   \* bounds of the model

Scopes == Monitors \cup Profiles
Kinds == {"monitor", "discovery", "dns"}
KindOf(s) == IF s \in Monitors THEN "monitor" ELSE "discovery"
Windows == 0..(MaxClock \div WindowLength)
NoTime == 0

ASSUME ScopeAssumption ==
  /\ Monitors \cap Profiles = {}
  /\ HostMonitors \subseteq Monitors
  /\ MonitorTarget \in [Monitors \ HostMonitors -> Addresses]
  /\ Targets \in [Profiles -> Seq(Addresses)]
  /\ IsFiniteSet(Scopes)

ASSUME SentinelAssumption ==
  /\ NoOwner \notin Owners /\ System \notin Users /\ NoKey \notin Keys

\* A probe started right after a reservation is over before the address
\* lock of that reservation can expire.
ASSUME TimingAssumption ==
  /\ {LeaseTTL, WindowLength, ManualGap, Interval, RetryDelay, DeferDelay,
      RunLimit, ChunkSize, Ports, DnsCost, MaxProbe, MaxWait} \subseteq Nat
  /\ MaxProbe + MaxWait < LeaseTTL
  /\ WindowLength > 0 /\ ChunkSize > 0 /\ Interval > 0 /\ Ports > 0

ASSUME LimitAssumption ==
  /\ {MaxRunning, QueueLimit, EnabledLimit, RetainedLimit, PruneBatch,
      MaxClock, MaxJobs, MaxGen} \subseteq Nat
  /\ MaxRunning > 0 /\ MaxClock > 0
  /\ Rate \in [Kinds -> Nat]
  /\ Thresholds \subseteq Nat \ {0}
  /\ ResolveNames \in BOOLEAN
  /\ Outcomes \subseteq {"up", "down", "unknown"}

VARIABLES
  clock,       \* time.time()
  policy,      \* ProbePolicy().fingerprint
  authorized,  \* users whose role or token still permits a manual check
  archived,    \* archived assets
  cfg,         \* asset_monitor_configs and asset_discovery_profiles
  health,      \* state_json of every monitor
  jobs,        \* asset_network_jobs, by id
  nextId,      \* its AUTOINCREMENT counter
  locks,       \* asset_network_locks, by address
  budget,      \* asset_network_budget
  work,        \* each worker's position in execute_job and its local job
  contacts     \* history: attempts begun per kind and window

vars == <<clock, policy, authorized, archived, cfg, health, jobs, nextId,
          locks, budget, work, contacts>>
outside == <<clock, policy, authorized, archived>>
rows == <<cfg, health, jobs, nextId>>
shared == <<locks, budget, contacts>>

-----------------------------------------------------------------------------
(* Rows.                                                                   *)

ActiveStatus == {"queued", "running"}
FinalStatus == {"completed", "partial", "cancelled", "error"}

Config == [enabled: BOOLEAN, scheduled: BOOLEAN, threshold: Thresholds, gen: Nat,
           due: Nat, lastRequest: Nat, cursor: Nat]

\* scanned is history: the target positions this run has recorded.
Job == [scope: Scopes, gen: Nat, policy: Policies, actor: Users \cup {System},
        key: Keys \cup {NoKey}, status: ActiveStatus \cup FinalStatus,
        owner: Owners \cup {NoOwner}, lease: Nat, avail: Nat, started: Nat,
        created: Nat, cursor: Nat, processed: Nat, scanned: SUBSET Nat]

\* gen is history: the generation of the job that wrote the state.
Health == [stable: {"unknown", "up", "down"}, failures: Nat, gen: Nat]
NoMeasurement == [stable |-> "unknown", failures |-> 0, gen |-> 0]

Steps == {"idle", "claimed", "charge", "dns", "resolve", "pin", "reserve",
          "probe", "naming", "finish", "fail", "defer", "release", "orphan"}
Work == [pc: Steps, job: Nat, kind: {"monitor", "discovery"},
         owner: Owners \cup {NoOwner}, addrs: SUBSET Addresses, size: Nat,
         until: Nat, notBefore: Nat, todo: Nat,
         outcome: {"up", "down", "unknown"}]
IdleWork == [pc |-> "idle", job |-> 0, kind |-> "monitor", owner |-> NoOwner,
             addrs |-> {}, size |-> 0, until |-> NoTime,
             notBefore |-> NoTime, todo |-> 0, outcome |-> "unknown"]

TypeOK ==
  /\ clock \in 1..MaxClock
  /\ policy \in Policies
  /\ authorized \subseteq Users
  /\ archived \subseteq Monitors
  /\ DOMAIN cfg \subseteq Scopes
  /\ cfg \in [DOMAIN cfg -> Config]
  /\ health \in [Monitors -> Health]
  /\ nextId \in Nat \ {0}
  /\ DOMAIN jobs \subseteq 1..(nextId - 1)
  /\ jobs \in [DOMAIN jobs -> Job]
  /\ DOMAIN locks \subseteq Addresses
  /\ locks \in [DOMAIN locks -> [owner: Owners, expires: Nat]]
  /\ budget \in [Kinds -> [Windows -> Nat]]
  /\ work \in [Workers -> Work]
  /\ contacts \in [Kinds -> [Windows -> Nat]]

\* A database whose network tables hold no work yet.
NoWork ==
  /\ clock = 1
  /\ policy \in Policies
  /\ authorized = Users
  /\ archived = {}
  /\ health = [m \in Monitors |-> NoMeasurement]
  /\ jobs = [j \in {} |-> {}]
  /\ nextId = 1
  /\ locks = [a \in {} |-> {}]
  /\ budget = [k \in Kinds |-> [n \in Windows |-> 0]]
  /\ work = [w \in Workers |-> IdleWork]
  /\ contacts = [k \in Kinds |-> [n \in Windows |-> 0]]

Init == NoWork /\ cfg = [s \in {} |-> {}]

-----------------------------------------------------------------------------
(* Shared helpers.                                                         *)

\* Clock readings a transaction may still be using when it gets the lock.
Recent == {t \in 1..clock : t + MaxWait >= clock}
Window(t) == t \div WindowLength

JobsOf(status) == {j \in DOMAIN jobs : jobs[j].status \in status}
\* Variant: a running job is not seen as outstanding.
WaitingOf(s) == {j \in JobsOf({"queued"}) : jobs[j].scope = s}
ActiveOf(s) == {j \in JobsOf(ActiveStatus) : jobs[j].scope = s}
FinalOf(k) == {j \in JobsOf(FinalStatus) : KindOf(jobs[j].scope) = k}

\* Rows of S move to a status, the others stay.
WithStatus(S, status) ==
  [j \in DOMAIN jobs |->
     IF j \in S THEN [jobs[j] EXCEPT !.status = status] ELSE jobs[j]]
\* Variant: finished jobs of the scope are cancelled too.
CancelEveryJob(s) == WithStatus({j \in DOMAIN jobs : jobs[j].scope = s}, "cancelled")
CancelScope(s) == WithStatus(ActiveOf(s), "cancelled")

ScopeOpen(s) == s \in DOMAIN cfg /\ cfg[s].enabled /\ s \notin archived

\* Whether a job may still run under the present configuration, policy and
\* authorization.
EnabledJob(job) ==
  /\ job.actor \in authorized \cup {System}
  /\ ScopeOpen(job.scope)
  /\ job.gen = cfg[job.scope].gen
  /\ job.policy = policy

\* Variant: a claim is recognised by its token and lease alone.
OwnedByToken(w, now) ==
  /\ work[w].job \in DOMAIN jobs
  /\ jobs[work[w].job].owner = work[w].owner
  /\ jobs[work[w].job].lease > now

\* The check every transaction of a worker repeats before it writes.
Owned(w, now) ==
  /\ work[w].job \in DOMAIN jobs
  /\ LET row == jobs[work[w].job] IN
       /\ row.status = "running"
       /\ row.owner = work[w].owner
       /\ row.lease > now
       /\ EnabledJob(row)

\* Variant: one failure more than the threshold is needed.
StateAfterTooLate(h, outcome, threshold, gen) ==
  CASE outcome = "up" -> [stable |-> "up", failures |-> 0, gen |-> gen]
    [] outcome = "down" ->
         [stable |-> IF h.failures + 1 > threshold THEN "down" ELSE h.stable,
          failures |-> h.failures + 1, gen |-> gen]
    [] outcome = "unknown" ->
         [stable |-> h.stable, failures |-> 0, gen |-> gen]

StateAfter(h, outcome, threshold, gen) ==
  CASE outcome = "up" -> [stable |-> "up", failures |-> 0, gen |-> gen]
    [] outcome = "down" ->
         [stable |-> IF h.failures + 1 >= threshold THEN "down" ELSE h.stable,
          failures |-> h.failures + 1, gen |-> gen]
    [] outcome = "unknown" ->
         [stable |-> h.stable, failures |-> 0, gen |-> gen]

LiveLocks(now) ==
  Restrict(locks, {a \in DOMAIN locks : locks[a].expires > now})

Go(w, pc) == work' = [work EXCEPT ![w].pc = pc]

-----------------------------------------------------------------------------
(* Requests of administrators, analysts and the operator.                  *)

Generation(s) == IF s \in DOMAIN cfg THEN cfg[s].gen ELSE 0
\* Variant: saving a configuration forgets the last manual request.
NoLastRequest(s) == NoTime
LastRequest(s) == IF s \in DOMAIN cfg THEN cfg[s].lastRequest ELSE NoTime
EnabledOf(k) == {s \in DOMAIN cfg : cfg[s].enabled /\ KindOf(s) = k}

\* The row that save_monitor or save_profile writes for scope s.
Saved(s, on, scheduled, threshold, delay) ==
  [enabled |-> on, scheduled |-> scheduled, threshold |-> threshold,
   gen |-> Generation(s) + 1,
   due |-> IF on /\ scheduled THEN clock + delay ELSE NoTime,
   lastRequest |-> LastRequest(s), cursor |-> 0]

\* An administrator saves a configuration: outstanding work is cancelled, a
\* new generation begins and an earlier measurement is forgotten.  The first
\* run of a schedule is an interval away, or when the profile asks for it.
Save(s, on, scheduled, threshold, delay) ==
  /\ s \notin archived
  /\ delay = Interval \/ (s \in Profiles /\ delay >= 1)
  /\ on => policy # EmptyPolicy
  /\ on /\ s \in Profiles => Ports <= Rate["discovery"]
  /\ on => Cardinality(EnabledOf(KindOf(s)) \ {s}) < EnabledLimit
  /\ Generation(s) < MaxGen
  /\ cfg' = [x \in DOMAIN cfg \cup {s} |->
               IF x = s THEN Saved(s, on, scheduled, threshold, delay)
                        ELSE cfg[x]]
  /\ jobs' = CancelScope(s)
  /\ health' = IF s \in Monitors
               THEN [health EXCEPT ![s] = NoMeasurement] ELSE health
  /\ UNCHANGED <<outside, shared, nextId, work>>

\* Disabling rows of S without touching their measurements.
Disabled(S) ==
  [s \in DOMAIN cfg |->
     IF s \in S THEN [cfg[s] EXCEPT !.enabled = FALSE, !.due = NoTime,
                                    !.gen = @ + 1]
                ELSE cfg[s]]

\* An archived asset may be archived again.
Archive(m) ==
  /\ Generation(m) < MaxGen
  /\ archived' = archived \cup {m}
  /\ cfg' = Disabled({m})
  /\ jobs' = IF m \in DOMAIN cfg THEN CancelScope(m) ELSE jobs
  /\ UNCHANGED <<shared, clock, policy, authorized, health, nextId, work>>

\* Restoring an asset does not touch its monitor.
Restore(m) ==
  /\ m \in archived
  /\ archived' = archived \ {m}
  /\ UNCHANGED <<rows, shared, clock, policy, authorized, work>>

CancelRun(j) ==
  /\ j \in JobsOf(ActiveStatus)
  /\ jobs[j].scope \in Profiles
  /\ jobs' = WithStatus({j}, "cancelled")
  /\ UNCHANGED <<outside, shared, cfg, health, nextId, work>>

\* scripts/pause_asset_network.py, run by the operator.
Pause ==
  /\ DOMAIN cfg # {}
  /\ \A s \in DOMAIN cfg : cfg[s].gen < MaxGen
  /\ cfg' = Disabled(DOMAIN cfg)
  /\ jobs' = WithStatus(JobsOf(ActiveStatus), "cancelled")
  /\ UNCHANGED <<outside, shared, health, nextId, work>>

\* A restart of every process with another allowlist; its effect on running
\* workers is that of a crash.
ChangePolicy(p) ==
  /\ \A w \in Workers : work[w].pc \in {"idle", "orphan"}
  /\ policy' = p
  /\ UNCHANGED <<rows, shared, clock, authorized, archived, work>>

\* A role is changed, a token revoked or expired, or either given back.
ChangeRole(u) ==
  /\ authorized' = IF u \in authorized THEN authorized \ {u}
                                       ELSE authorized \cup {u}
  /\ UNCHANGED <<rows, shared, clock, policy, archived, work>>

-----------------------------------------------------------------------------
(* Enqueueing.                                                             *)

NewJob(s, actor, key) ==
  [scope |-> s, gen |-> cfg[s].gen, policy |-> policy, actor |-> actor,
   key |-> key, status |-> "queued", owner |-> NoOwner, lease |-> NoTime,
   avail |-> clock, started |-> NoTime, created |-> clock,
   cursor |-> cfg[s].cursor, processed |-> 0, scanned |-> {}]

\* Finished rows that enqueue deletes before it inserts another.
Pruned(k) ==
  IF Cardinality(FinalOf(k)) >= RetainedLimit
  THEN {j \in FinalOf(k) :
          Cardinality({i \in FinalOf(k) : i < j}) < PruneBatch}
  ELSE {}

QueueFull == Cardinality(JobsOf(ActiveStatus)) >= QueueLimit

Insert(s, actor, key) ==
  /\ nextId <= MaxJobs
  /\ nextId' = nextId + 1
  /\ jobs' = [j \in (DOMAIN jobs \ Pruned(KindOf(s))) \cup {nextId} |->
                IF j = nextId THEN NewJob(s, actor, key) ELSE jobs[j]]

\* Variant: only an outstanding job answers a repeated key.
SameActiveRequest(u, s, key) ==
  {j \in ActiveOf(s) : jobs[j].actor = u /\ jobs[j].key = key}

\* The retained job an idempotency key stands for.
SameRequest(u, s, key) ==
  {j \in DOMAIN jobs :
     jobs[j].scope = s /\ jobs[j].actor = u /\ jobs[j].key = key}

\* A manual request that inserts a job.  A request that finds its key or an
\* outstanding job returns that job, and a refused one changes nothing.
RequestJob(u, s, key) ==
  /\ u \in authorized
  /\ ScopeOpen(s)
  /\ SameRequest(u, s, key) = {}
  /\ ActiveOf(s) = {}
  /\ cfg[s].lastRequest = NoTime \/ clock >= cfg[s].lastRequest + ManualGap
  /\ ~QueueFull
  /\ policy # EmptyPolicy
  /\ Insert(s, u, key)
  /\ cfg' = [cfg EXCEPT ![s].lastRequest = clock]
  /\ UNCHANGED <<outside, shared, health, work>>

\* One due row of schedule_due: outstanding work is coalesced, a full queue or
\* an empty allowlist is retried later (rows pruned before the allowlist was
\* found empty stay pruned), and otherwise a job is inserted.
ScheduleDue(s, now) ==
  /\ ScopeOpen(s)
  /\ cfg[s].scheduled
  /\ cfg[s].due # NoTime /\ cfg[s].due <= now
  /\ \/ /\ ActiveOf(s) # {}
        /\ cfg' = [cfg EXCEPT ![s].due = now + Interval]
        /\ UNCHANGED <<jobs, nextId>>
     \/ /\ ActiveOf(s) = {}
        /\ QueueFull \/ policy = EmptyPolicy
        /\ jobs' = IF QueueFull THEN jobs
                   ELSE Restrict(jobs, DOMAIN jobs \ Pruned(KindOf(s)))
        /\ cfg' = [cfg EXCEPT ![s].due = now + RetryDelay]
        /\ UNCHANGED nextId
     \/ /\ ActiveOf(s) = {}
        /\ ~QueueFull /\ policy # EmptyPolicy
        /\ Insert(s, System, NoKey)
        /\ cfg' = [cfg EXCEPT ![s].due = now + Interval]
  /\ UNCHANGED <<outside, shared, health, work>>

\* Finished rows past their age or rank; which rows those are is left open.
Cleanup ==
  /\ \E S \in SUBSET JobsOf(FinalStatus) :
       /\ S # {}
       /\ jobs' = Restrict(jobs, DOMAIN jobs \ S)
  /\ UNCHANGED <<outside, shared, cfg, health, nextId, work>>

=============================================================================
