---------------------------- MODULE NetworkTypes ----------------------------
(***************************************************************************)
(* Type correctness of NetworkJobs, for every value of its constants.      *)
(* TypeOK is not inductive by itself: that a lock is written with a real   *)
(* owner, and that a chunk is cut from a profile, needs what WorkOK adds   *)
(* about the job a worker holds.                                           *)
(***************************************************************************)
EXTENDS NetworkJobs, TLAPS

\* A busy worker has a claim of its own and still knows its job by kind.
WorkOK ==
  \A w \in Workers :
    work[w].pc # "idle" =>
      /\ work[w].owner \in Owners
      /\ work[w].job < nextId
      /\ work[w].job \in DOMAIN jobs =>
           work[w].kind = KindOf(jobs[work[w].job].scope)

TypeInv == TypeOK /\ WorkOK

\* What a transaction may do to a job that exists before and after it.
SameJob(old, new) ==
  /\ new.scope = old.scope /\ new.gen = old.gen /\ new.policy = old.policy
  /\ new.actor = old.actor /\ new.key = old.key /\ new.created = old.created

-----------------------------------------------------------------------------
(* Helpers.                                                                *)

\* Changing the status of some rows keeps the table well typed.
LEMMA StatusType ==
  ASSUME jobs \in [DOMAIN jobs -> Job], NEW S,
         NEW status \in ActiveStatus \cup FinalStatus
  PROVE  /\ WithStatus(S, status) \in [DOMAIN jobs -> Job]
         /\ \A j \in DOMAIN jobs :
              SameJob(jobs[j], WithStatus(S, status)[j])
BY DEF WithStatus, Job, SameJob

\* state_after yields a measurement.
LEMMA StateType ==
  ASSUME NEW h \in Health, NEW outcome \in {"up", "down", "unknown"},
         NEW t \in Nat, NEW g \in Nat
  PROVE  StateAfter(h, outcome, t, g) \in Health
BY DEF StateAfter, Health

\* Dropping locks keeps the rest of the table.
LEMMA LiveLocksType ==
  ASSUME TypeOK, NEW now
  PROVE  /\ LiveLocks(now) \in [DOMAIN LiveLocks(now) -> [owner: Owners, expires: Nat]]
         /\ DOMAIN LiveLocks(now) = {a \in DOMAIN locks : locks[a].expires > now}
         /\ \A a \in DOMAIN LiveLocks(now) : LiveLocks(now)[a] = locks[a]
         /\ DOMAIN LiveLocks(now) \subseteq Addresses
BY DEF TypeOK, LiveLocks, Restrict

LEMMA RecentType ==
  ASSUME TypeOK, NEW now \in Recent
  PROVE  now \in Nat /\ now > 0 /\ now <= clock /\ now + MaxWait >= clock
BY TimingAssumption DEF TypeOK, Recent

\* The rows workers hold are changed or deleted, but never exchanged.
RowsKept ==
  /\ nextId' \in Nat /\ nextId' >= nextId
  /\ \A j \in DOMAIN jobs' :
       j < nextId => j \in DOMAIN jobs /\ SameJob(jobs[j], jobs'[j])

\* A worker that only moves on keeps its claim.
LEMMA WorkMoved ==
  ASSUME TypeInv, RowsKept, work' \in [Workers -> Work],
         \A w \in Workers : work'[w].pc # "idle" =>
           /\ work[w].pc # "idle" /\ work'[w].owner = work[w].owner
           /\ work'[w].job = work[w].job /\ work'[w].kind = work[w].kind
  PROVE  WorkOK'
<1> SUFFICES ASSUME NEW w \in Workers, work'[w].pc # "idle"
             PROVE  /\ work'[w].owner \in Owners
                    /\ work'[w].job < nextId'
                    /\ work'[w].job \in DOMAIN jobs' =>
                         work'[w].kind = KindOf(jobs'[work'[w].job].scope)
  BY DEF WorkOK, KindOf
<1>1. work[w] \in Work /\ nextId \in Nat
  BY DEF TypeInv, TypeOK
<1>2. /\ work[w].owner \in Owners /\ work[w].job < nextId
      /\ work[w].job \in DOMAIN jobs =>
           work[w].kind = KindOf(jobs[work[w].job].scope)
  BY DEF TypeInv, WorkOK
<1> QED
  BY <1>1, <1>2 DEF RowsKept, SameJob, Work

\* The program counter alone may be changed.
LEMMA GoType ==
  ASSUME TypeInv, NEW w \in Workers, NEW pc \in Steps, Go(w, pc)
  PROVE  /\ work' \in [Workers -> Work]
         /\ \A v \in Workers : /\ work'[v].owner = work[v].owner
                                /\ work'[v].job = work[v].job
                                /\ work'[v].kind = work[v].kind
                                /\ work'[v].pc = IF v = w THEN pc ELSE work[v].pc
<1>1. work \in [Workers -> Work]
  BY DEF TypeInv, TypeOK
<1>2. work' = [work EXCEPT ![w] = [@ EXCEPT !.pc = pc]]
  BY DEF Go
<1>3. [work[w] EXCEPT !.pc = pc] \in Work
  BY <1>1 DEF Work
<1> QED
  BY <1>1, <1>2, <1>3 DEF Work

LEMMA JobsUntouched ==
  ASSUME TypeInv, jobs' = jobs, nextId' = nextId
  PROVE  RowsKept
BY DEF TypeInv, TypeOK, RowsKept, SameJob

LEMMA StatusRows ==
  ASSUME TypeInv, NEW S, NEW status \in ActiveStatus \cup FinalStatus,
         jobs' = WithStatus(S, status), nextId' = nextId
  PROVE  /\ jobs' \in [DOMAIN jobs -> Job] /\ DOMAIN jobs' = DOMAIN jobs
         /\ RowsKept
<1>1. jobs \in [DOMAIN jobs -> Job] /\ nextId \in Nat
  BY DEF TypeInv, TypeOK
<1> QED
  BY <1>1, StatusType DEF RowsKept

\* A transaction that is none of a worker's leaves type correctness to the
\* rows it writes.
LEMMA QueueStep ==
  ASSUME TypeInv, RowsKept,
         UNCHANGED <<clock, locks, budget, contacts, work>>,
         policy' \in Policies, authorized' \subseteq Users,
         archived' \subseteq Monitors,
         DOMAIN cfg' \subseteq Scopes, cfg' \in [DOMAIN cfg' -> Config],
         health' \in [Monitors -> Health], nextId' # 0,
         DOMAIN jobs' \subseteq 1..(nextId' - 1),
         jobs' \in [DOMAIN jobs' -> Job]
  PROVE  TypeInv'
<1>1. work' \in [Workers -> Work]
  BY DEF TypeInv, TypeOK
<1>2. WorkOK'
  BY <1>1, WorkMoved
<1>3. TypeOK'
  BY <1>1 DEF TypeInv, TypeOK, RowsKept
<1> QED
  BY <1>2, <1>3 DEF TypeInv

-----------------------------------------------------------------------------
(* Requests and background transactions.                                   *)

LEMMA TypeSave ==
  ASSUME TypeInv, NEW s \in Scopes, NEW on \in BOOLEAN, NEW sch \in BOOLEAN,
         NEW t \in Thresholds, NEW d \in 1..Interval, Save(s, on, sch, t, d)
  PROVE  TypeInv'
<1>1. Saved(s, on, sch, t, d) \in Config
  BY TimingAssumption DEF TypeInv, TypeOK, Saved, Generation, LastRequest, Config, NoTime
<1>2. cfg' \in [DOMAIN cfg' -> Config] /\ DOMAIN cfg' \subseteq Scopes
  BY <1>1 DEF TypeInv, TypeOK, Save
<1>3. /\ jobs' \in [DOMAIN jobs -> Job] /\ DOMAIN jobs' = DOMAIN jobs
      /\ RowsKept
  BY StatusRows DEF Save, CancelScope, FinalStatus
<1>4. health' \in [Monitors -> Health]
  BY DEF TypeInv, TypeOK, Save, Health, NoMeasurement
<1> QED
  BY <1>2, <1>3, <1>4, QueueStep DEF TypeInv, TypeOK, Save, outside, shared

LEMMA DisabledType ==
  ASSUME TypeOK, NEW S
  PROVE  Disabled(S) \in [DOMAIN cfg -> Config] /\ DOMAIN Disabled(S) = DOMAIN cfg
<1>1. cfg \in [DOMAIN cfg -> Config]
  BY DEF TypeOK
<1>2. \A s \in DOMAIN cfg :
        [cfg[s] EXCEPT !.enabled = FALSE, !.due = NoTime, !.gen = @ + 1]
          \in Config
  <2> TAKE s \in DOMAIN cfg
  <2>1. cfg[s] \in Config /\ cfg[s].gen + 1 \in Nat
    BY <1>1 DEF Config
  <2>2. \A g \in Nat :
          [cfg[s] EXCEPT !.enabled = FALSE, !.due = 0, !.gen = g] \in Config
    BY <2>1 DEF Config
  <2> QED
    BY <2>1, <2>2 DEF NoTime
<1> QED
  BY <1>1, <1>2 DEF Disabled

LEMMA TypeArchive ==
  ASSUME TypeInv, NEW m \in Monitors, Archive(m)
  PROVE  TypeInv'
<1>1. CASE m \in DOMAIN cfg
  <2>1. /\ jobs' \in [DOMAIN jobs -> Job] /\ DOMAIN jobs' = DOMAIN jobs
        /\ RowsKept
    BY <1>1, StatusRows DEF Archive, CancelScope, FinalStatus
  <2> QED
    BY <2>1, DisabledType, QueueStep DEF TypeInv, TypeOK, Archive, shared
<1>2. CASE m \notin DOMAIN cfg
  <2>1. RowsKept
    BY <1>2, JobsUntouched DEF Archive
  <2> QED
    BY <1>2, <2>1, DisabledType, QueueStep DEF TypeInv, TypeOK, Archive, shared
<1> QED
  BY <1>1, <1>2

LEMMA TypeCancelRun ==
  ASSUME TypeInv, NEW j \in DOMAIN jobs, CancelRun(j)
  PROVE  TypeInv'
<1>1. /\ jobs' \in [DOMAIN jobs -> Job] /\ DOMAIN jobs' = DOMAIN jobs
      /\ RowsKept
  BY StatusRows DEF CancelRun, FinalStatus
<1> QED
  BY <1>1, QueueStep DEF TypeInv, TypeOK, CancelRun, outside, shared

LEMMA TypePause ==
  ASSUME TypeInv, Pause
  PROVE  TypeInv'
<1>1. /\ jobs' \in [DOMAIN jobs -> Job] /\ DOMAIN jobs' = DOMAIN jobs
      /\ RowsKept
  BY StatusRows DEF Pause, FinalStatus
<1> QED
  BY <1>1, DisabledType, QueueStep DEF TypeInv, TypeOK, Pause, outside, shared

\* Steps that leave the tables alone.
LEMMA TypeSettings ==
  ASSUME TypeInv,
         \/ \E m \in Monitors : Restore(m)
         \/ \E p \in Policies : ChangePolicy(p)
         \/ \E u \in Users : ChangeRole(u)
  PROVE  TypeInv'
<1>1. RowsKept
  BY JobsUntouched DEF Restore, ChangePolicy, ChangeRole, rows
<1> QED
  BY <1>1, QueueStep
  DEF TypeInv, TypeOK, Restore, ChangePolicy, ChangeRole, rows, shared

LEMMA TypeInsert ==
  ASSUME TypeInv, NEW s \in DOMAIN cfg, NEW actor \in Users \cup {System},
         NEW key \in Keys \cup {NoKey}, Insert(s, actor, key)
  PROVE  /\ jobs' \in [DOMAIN jobs' -> Job]
         /\ DOMAIN jobs' \subseteq 1..(nextId' - 1) /\ nextId' # 0
         /\ RowsKept
<1>1. NewJob(s, actor, key) \in Job
  BY DEF TypeInv, TypeOK, NewJob, Config, Job, ActiveStatus, NoTime
<1>2. nextId \in Nat /\ nextId > 0 /\ DOMAIN jobs \subseteq 1..(nextId - 1)
      /\ jobs \in [DOMAIN jobs -> Job]
  BY DEF TypeInv, TypeOK
<1> QED
  BY <1>1, <1>2 DEF Insert, RowsKept, SameJob

LEMMA TypeRequestJob ==
  ASSUME TypeInv, NEW u \in Users, NEW s \in Scopes, NEW k \in Keys,
         RequestJob(u, s, k)
  PROVE  TypeInv'
<1>1. s \in DOMAIN cfg
  BY DEF RequestJob, ScopeOpen
<1>2. cfg' \in [DOMAIN cfg -> Config] /\ DOMAIN cfg' = DOMAIN cfg
  <2>1. cfg \in [DOMAIN cfg -> Config] /\ clock \in Nat
    BY DEF TypeInv, TypeOK
  <2>2. [cfg[s] EXCEPT !.lastRequest = clock] \in Config
    BY <1>1, <2>1 DEF Config
  <2> QED
    BY <2>1, <2>2 DEF RequestJob
<1> QED
  BY <1>1, <1>2, TypeInsert, QueueStep
  DEF TypeInv, TypeOK, RequestJob, outside, shared

\* Deleting rows is harmless.
LEMMA RowsDeleted ==
  ASSUME TypeInv, NEW S, jobs' = Restrict(jobs, DOMAIN jobs \ S), nextId' = nextId
  PROVE  /\ jobs' \in [DOMAIN jobs' -> Job] /\ DOMAIN jobs' \subseteq DOMAIN jobs
         /\ RowsKept
BY DEF TypeInv, TypeOK, Restrict, RowsKept, SameJob

LEMMA TypeScheduleDue ==
  ASSUME TypeInv, NEW s \in Scopes, NEW now \in Recent, ScheduleDue(s, now)
  PROVE  TypeInv'
<1>1. s \in DOMAIN cfg /\ now \in Nat
  BY RecentType DEF ScheduleDue, ScopeOpen, TypeInv
<1>2. cfg' \in [DOMAIN cfg -> Config] /\ DOMAIN cfg' = DOMAIN cfg
  <2>1. cfg \in [DOMAIN cfg -> Config]
    BY DEF TypeInv, TypeOK
  <2>2. \A due \in Nat : [cfg[s] EXCEPT !.due = due] \in Config
    BY <1>1, <2>1 DEF Config
  <2>3. \E due \in Nat : cfg' = [cfg EXCEPT ![s] = [@ EXCEPT !.due = due]]
    BY <1>1, TimingAssumption DEF ScheduleDue
  <2> QED
    BY <2>1, <2>2, <2>3
<1>3. /\ jobs' \in [DOMAIN jobs' -> Job]
      /\ DOMAIN jobs' \subseteq 1..(nextId' - 1) /\ nextId' # 0
      /\ RowsKept
  <2>1. CASE jobs' = jobs /\ nextId' = nextId
    BY <2>1, JobsUntouched DEF TypeInv, TypeOK
  <2>2. CASE /\ jobs' = Restrict(jobs, DOMAIN jobs \ Pruned(KindOf(s)))
             /\ nextId' = nextId
    BY <2>2, RowsDeleted DEF TypeInv, TypeOK
  <2>3. CASE Insert(s, System, NoKey)
    BY <1>1, <2>3, TypeInsert
  <2> QED
    BY <2>1, <2>2, <2>3 DEF ScheduleDue
<1> QED
  BY <1>2, <1>3, QueueStep DEF TypeInv, TypeOK, ScheduleDue, outside, shared

LEMMA TypeCleanup ==
  ASSUME TypeInv, Cleanup
  PROVE  TypeInv'
<1>1. /\ jobs' \in [DOMAIN jobs' -> Job] /\ DOMAIN jobs' \subseteq DOMAIN jobs
      /\ RowsKept
  BY RowsDeleted DEF Cleanup
<1> QED
  BY <1>1, QueueStep DEF TypeInv, TypeOK, Cleanup, outside, shared

-----------------------------------------------------------------------------
(* Claiming.                                                               *)

LEMMA SweptType ==
  ASSUME TypeInv, NEW now, NEW S
  PROVE  /\ SweptJobs(now, S) \in [DOMAIN jobs -> Job]
         /\ \A j \in DOMAIN jobs : SameJob(jobs[j], SweptJobs(now, S)[j])
         /\ SweptHealth(now) \in [Monitors -> Health]
<1>1. /\ jobs \in [DOMAIN jobs -> Job] /\ health \in [Monitors -> Health]
      /\ cfg \in [DOMAIN cfg -> Config]
  BY DEF TypeInv, TypeOK
<1>2. \A j \in DOMAIN jobs, st \in FinalStatus :
        /\ [jobs[j] EXCEPT !.status = st] \in Job
        /\ SameJob(jobs[j], [jobs[j] EXCEPT !.status = st])
  BY <1>1 DEF Job, SameJob
<1>3. \A m \in Monitors \cap DOMAIN cfg :
        StateAfter(health[m], "unknown", cfg[m].threshold, cfg[m].gen) \in Health
  <2>1. \A m \in DOMAIN cfg : cfg[m].threshold \in Nat /\ cfg[m].gen \in Nat
    BY <1>1, LimitAssumption DEF Config
  <2> QED
    BY <1>1, <2>1, StateType
<1>4. SweptHealth(now) \in [Monitors -> Health]
  BY <1>1, <1>3 DEF SweptHealth
<1> QED
  BY <1>1, <1>2, <1>4 DEF SweptJobs, FinalStatus, SameJob

\* A worker's transaction, likewise.
LEMMA WorkerStep ==
  ASSUME TypeInv, UNCHANGED outside, nextId' = nextId,
         cfg' \in [DOMAIN cfg -> Config], DOMAIN cfg' = DOMAIN cfg,
         health' \in [Monitors -> Health],
         jobs' \in [DOMAIN jobs -> Job], DOMAIN jobs' = DOMAIN jobs,
         \A j \in DOMAIN jobs : SameJob(jobs[j], jobs'[j]),
         DOMAIN locks' \subseteq Addresses,
         locks' \in [DOMAIN locks' -> [owner: Owners, expires: Nat]],
         budget' \in [Kinds -> [Windows -> Nat]],
         contacts' \in [Kinds -> [Windows -> Nat]],
         work' \in [Workers -> Work], WorkOK'
  PROVE  TypeInv'
BY DEF TypeInv, TypeOK, outside

LEMMA RowsSame ==
  ASSUME TypeInv, nextId' = nextId, DOMAIN jobs' = DOMAIN jobs,
         \A j \in DOMAIN jobs : SameJob(jobs[j], jobs'[j])
  PROVE  RowsKept
BY DEF TypeInv, TypeOK, RowsKept

LEMMA TypeClaimNothing ==
  ASSUME TypeInv, NEW w \in Workers, NEW now \in Recent, ClaimNothing(w, now)
  PROVE  TypeInv'
<1>1. PICK S : jobs' = SweptJobs(now, S)
  BY DEF ClaimNothing
<1>2. DOMAIN jobs' = DOMAIN jobs /\ RowsKept
  BY <1>1, SweptType, RowsSame DEF ClaimNothing
<1>3. WorkOK'
  BY <1>2, WorkMoved DEF TypeInv, TypeOK, ClaimNothing
<1> QED
  BY <1>1, <1>2, <1>3, SweptType, LiveLocksType, WorkerStep
  DEF TypeInv, TypeOK, ClaimNothing

LEMMA TypeClaimJob ==
  ASSUME TypeInv, NEW w \in Workers, NEW now \in Recent, ClaimJob(w, now)
  PROVE  TypeInv'
<1>1. PICK j, o, S :
        /\ j \in Claimable(now) /\ o \in FreshOwners
        /\ jobs' = [SweptJobs(now, S) EXCEPT ![j] = Claimed(jobs[j], o, now)]
        /\ work' = [work EXCEPT ![w] = [IdleWork EXCEPT !.pc = "claimed",
                                         !.job = j, !.owner = o,
                                         !.kind = KindOf(jobs[j].scope)]]
  BY DEF ClaimJob
<1>2. /\ j \in DOMAIN jobs /\ o \in Owners /\ now \in Nat
      /\ j \in Nat /\ j < nextId /\ jobs \in [DOMAIN jobs -> Job]
      /\ work \in [Workers -> Work] /\ nextId \in Nat
  BY <1>1, RecentType DEF Claimable, Ready, JobsOf, FreshOwners, TypeInv, TypeOK
<1>3. Claimed(jobs[j], o, now) \in Job /\ SameJob(jobs[j], Claimed(jobs[j], o, now))
  <2> DEFINE started == IF jobs[j].started = NoTime THEN now ELSE jobs[j].started
  <2>1. jobs[j] \in Job /\ started \in Nat /\ now + LeaseTTL \in Nat
    BY <1>2, TimingAssumption DEF Job
  <2>2. Claimed(jobs[j], o, now) =
          [jobs[j] EXCEPT !.status = "running", !.owner = o,
                          !.lease = now + LeaseTTL, !.started = started]
    BY DEF Claimed
  <2> HIDE DEF started
  <2> QED
    BY <1>2, <2>1, <2>2 DEF Job, SameJob, ActiveStatus
<1>4. /\ jobs' \in [DOMAIN jobs -> Job] /\ DOMAIN jobs' = DOMAIN jobs
      /\ \A i \in DOMAIN jobs : SameJob(jobs[i], jobs'[i])
  BY <1>1, <1>2, <1>3, SweptType
<1>5. [IdleWork EXCEPT !.pc = "claimed", !.job = j, !.owner = o,
                       !.kind = KindOf(jobs[j].scope)] \in Work
  BY <1>2 DEF IdleWork, Work, Steps, KindOf, NoTime
<1>6. work' \in [Workers -> Work]
  BY <1>1, <1>2, <1>5
<1>7. WorkOK'
  <2> SUFFICES ASSUME NEW v \in Workers, work'[v].pc # "idle"
               PROVE  /\ work'[v].owner \in Owners
                      /\ work'[v].job < nextId'
                      /\ work'[v].job \in DOMAIN jobs' =>
                           work'[v].kind = KindOf(jobs'[work'[v].job].scope)
    BY DEF WorkOK, KindOf
  <2>1. nextId' = nextId
    BY DEF ClaimJob
  <2>2. CASE v = w
    <3>1. /\ work'[v].owner = o /\ work'[v].job = j
          /\ work'[v].kind = KindOf(jobs[j].scope)
      BY <1>1, <1>2, <2>2 DEF IdleWork
    <3> QED
      BY <1>2, <1>4, <2>1, <3>1 DEF SameJob
  <2>3. CASE v # w
    <3>1. work'[v] = work[v]
      BY <1>1, <1>2, <2>3
    <3> QED
      BY <1>4, <2>1, <3>1 DEF TypeInv, WorkOK, SameJob
  <2> QED
    BY <2>2, <2>3
<1> QED
  BY <1>4, <1>6, <1>7, SweptType, LiveLocksType, WorkerStep
  DEF TypeInv, TypeOK, ClaimJob

-----------------------------------------------------------------------------
(* Executing and recording.                                                *)

\* Workers move on with the claims they have.
Moves ==
  /\ work' \in [Workers -> Work]
  /\ \A v \in Workers : work'[v].pc # "idle" =>
       /\ work[v].pc # "idle" /\ work'[v].owner = work[v].owner
       /\ work'[v].job = work[v].job /\ work'[v].kind = work[v].kind

LEMMA MoveGo ==
  ASSUME TypeInv, NEW w \in Workers, NEW pc \in Steps, work[w].pc # "idle",
         Go(w, pc)
  PROVE  Moves
BY GoType DEF Moves

LEMMA MoveTo ==
  ASSUME TypeInv, NEW w \in Workers, NEW r \in Work, work[w].pc # "idle",
         work' = [work EXCEPT ![w] = r],
         r.pc # "idle" => /\ r.owner = work[w].owner /\ r.job = work[w].job
                          /\ r.kind = work[w].kind
  PROVE  Moves
BY DEF TypeInv, TypeOK, Moves

LEMMA LocalStep ==
  ASSUME TypeInv, Moves, UNCHANGED <<outside, rows, shared>>
  PROVE  TypeInv'
<1>1. RowsKept
  BY JobsUntouched DEF rows
<1>2. WorkOK'
  BY <1>1, WorkMoved DEF Moves
<1> QED
  BY <1>2 DEF TypeInv, TypeOK, Moves, outside, rows, shared

LEMMA WorkType ==
  ASSUME TypeInv, NEW w \in Workers
  PROVE  work[w] \in Work /\ work \in [Workers -> Work]
BY DEF TypeInv, TypeOK

LEMMA TypeGo ==
  ASSUME TypeInv, NEW w \in Workers,
         \/ LostClaim(w) \/ GiveUp(w)
         \/ \E now \in Recent : FinishLost(w, now)
  PROVE  TypeInv'
<1>1. PICK pc \in Steps : Go(w, pc)
  BY DEF LostClaim, GiveUp, FinishLost, Steps
<1> QED
  BY <1>1, MoveGo, LocalStep DEF LostClaim, GiveUp, FinishLost

LEMMA TypeBeginMonitor ==
  ASSUME TypeInv, NEW w \in Workers, BeginMonitor(w)
  PROVE  TypeInv'
<1>1. CASE Go(w, "charge")
  BY <1>1, MoveGo, LocalStep DEF BeginMonitor, Steps
<1>2. CASE /\ ScopeOfWork(w) \in Monitors \ HostMonitors
           /\ work' = [work EXCEPT ![w].pc = "reserve",
                                ![w].addrs = {MonitorTarget[ScopeOfWork(w)]}]
  <2> DEFINE r == [work[w] EXCEPT !.pc = "reserve",
                                  !.addrs = {MonitorTarget[ScopeOfWork(w)]}]
  <2>1. {MonitorTarget[ScopeOfWork(w)]} \in SUBSET Addresses
    BY <1>2, ScopeAssumption
  <2>2. r \in Work /\ r.owner = work[w].owner /\ r.job = work[w].job
        /\ r.kind = work[w].kind
    BY <2>1, WorkType DEF Work, Steps
  <2>3. work' = [work EXCEPT ![w] = r]
    BY <1>2, WorkType
  <2> QED
    BY <2>2, <2>3, MoveTo, LocalStep DEF BeginMonitor
<1> QED
  BY <1>1, <1>2 DEF BeginMonitor

LEMMA TypeResolve ==
  ASSUME TypeInv, NEW w \in Workers, NEW a \in Addresses, Resolve(w, a)
  PROVE  TypeInv'
<1> DEFINE r == [work[w] EXCEPT !.pc = "pin", !.addrs = {a}]
<1>1. r \in Work /\ r.owner = work[w].owner /\ r.job = work[w].job
      /\ r.kind = work[w].kind
  BY WorkType DEF Work, Steps
<1>2. work' = [work EXCEPT ![w] = r]
  BY WorkType DEF Resolve
<1> QED
  BY <1>1, <1>2, MoveTo, LocalStep DEF Resolve

LEMMA TypeProbeMonitor ==
  ASSUME TypeInv, NEW w \in Workers, NEW o \in Outcomes, ProbeMonitor(w, o)
  PROVE  TypeInv'
<1> DEFINE r == [work[w] EXCEPT !.pc = "finish", !.outcome = o]
<1>3. o \in {"up", "down", "unknown"}
  BY LimitAssumption
<1>1. r \in Work /\ r.owner = work[w].owner /\ r.job = work[w].job
      /\ r.kind = work[w].kind
  BY <1>3, WorkType DEF Work, Steps
<1>2. work' = [work EXCEPT ![w] = r]
  BY WorkType DEF ProbeMonitor
<1> QED
  BY <1>1, <1>2, MoveTo, LocalStep DEF ProbeMonitor

LEMMA TypeProbeDiscovery ==
  ASSUME TypeInv, NEW w \in Workers, NEW n \in Nat, ProbeDiscovery(w, n)
  PROVE  TypeInv'
<1>1. PICK pc \in {"finish", "naming"}, todo \in Nat :
        work' = [work EXCEPT ![w].pc = pc, ![w].todo = todo]
  BY DEF ProbeDiscovery
<1> DEFINE r == [work[w] EXCEPT !.pc = pc, !.todo = todo]
<1>2. r \in Work /\ r.owner = work[w].owner /\ r.job = work[w].job
      /\ r.kind = work[w].kind
  BY WorkType DEF Work, Steps
<1>3. work' = [work EXCEPT ![w] = r]
  BY <1>1, WorkType
<1> QED
  BY <1>2, <1>3, MoveTo, LocalStep DEF ProbeDiscovery

LEMMA TypeFail ==
  ASSUME TypeInv, NEW w \in Workers, Fail(w)
  PROVE  TypeInv'
<1>1. PICK pc \in {"finish", "fail"} :
        work' = [work EXCEPT ![w].outcome = "unknown", ![w].pc = pc]
  BY DEF Fail
<1> DEFINE r == [work[w] EXCEPT !.outcome = "unknown", !.pc = pc]
<1>2. r \in Work /\ r.owner = work[w].owner /\ r.job = work[w].job
      /\ r.kind = work[w].kind
  BY WorkType DEF Work, Steps
<1>3. work' = [work EXCEPT ![w] = r]
  BY <1>1, WorkType
<1> QED
  BY <1>2, <1>3, MoveTo, LocalStep DEF Fail

LEMMA IdleType == IdleWork \in Work /\ IdleWork.pc = "idle"
BY DEF IdleWork, Work, Steps, NoTime

LEMMA TypeCrash ==
  ASSUME TypeInv, NEW w \in Workers, Crash(w) \/ OrphanEnds(w)
  PROVE  TypeInv'
<1>1. CASE work' = [work EXCEPT ![w] = IdleWork]
  BY <1>1, IdleType, MoveTo, LocalStep DEF Crash, OrphanEnds
<1>2. CASE work' = [work EXCEPT ![w] = [@ EXCEPT !.pc = "orphan"]]
  <2>1. [work[w] EXCEPT !.pc = "orphan"] \in Work
    BY WorkType DEF Work, Steps
  <2> QED
    BY <1>2, <2>1, WorkType, MoveTo, LocalStep DEF Crash, OrphanEnds, Work
<1>3. work' = [work EXCEPT ![w] = IdleWork]
        \/ work' = [work EXCEPT ![w] = [@ EXCEPT !.pc = "orphan"]]
  BY WorkType DEF Crash, OrphanEnds
<1> QED
  BY <1>1, <1>2, <1>3

\* Targets are cut from the profile's list.
LEMMA ChunkType ==
  ASSUME NEW job \in Job, NEW n \in Nat, job.scope \in Profiles,
         Count(job.scope) > 0
  PROVE  Chunk(job, n) \subseteq Addresses
<1>1. /\ Targets[job.scope] \in Seq(Addresses) /\ Count(job.scope) \in Nat
      /\ job.cursor \in Nat
  BY ScopeAssumption DEF Count, Job
<1>2. \A i \in 0..(n - 1) : TargetAt(job.scope, job.cursor + i) \in Addresses
  <2> TAKE i \in 0..(n - 1)
  <2> DEFINE x == job.cursor + i
  <2>1. x \in Nat
    BY <1>1
  <2> HIDE DEF x
  <2>2. x % Count(job.scope) \in 0..(Count(job.scope) - 1)
    BY <1>1, <2>1
  <2>3. (x % Count(job.scope)) + 1 \in 1..Len(Targets[job.scope])
    BY <1>1, <2>2 DEF Count
  <2>4. TargetAt(job.scope, x) \in Addresses
    BY <1>1, <2>3 DEF TargetAt
  <2> QED
    BY <2>4 DEF x
<1> QED
  BY <1>2 DEF Chunk

LEMMA OwnedRow ==
  ASSUME TypeInv, NEW w \in Workers, NEW now, Owned(w, now), work[w].pc # "idle"
  PROVE  /\ work[w].job \in DOMAIN jobs /\ jobs[work[w].job] \in Job
         /\ ScopeOfWork(w) \in DOMAIN cfg /\ ScopeOfWork(w) \in Scopes
         /\ cfg[ScopeOfWork(w)] \in Config
         /\ cfg[ScopeOfWork(w)].threshold \in Nat
         /\ work[w].kind = "monitor" => ScopeOfWork(w) \in Monitors
         /\ work[w].kind = "discovery" => ScopeOfWork(w) \in Profiles
<1>1. /\ work[w].job \in DOMAIN jobs /\ jobs[work[w].job] \in Job
      /\ ScopeOfWork(w) \in DOMAIN cfg /\ ScopeOfWork(w) \in Scopes
      /\ cfg[ScopeOfWork(w)] \in Config
  BY DEF TypeInv, TypeOK, Owned, EnabledJob, ScopeOpen, ScopeOfWork
<1>2. cfg[ScopeOfWork(w)].threshold \in Nat
  BY <1>1, LimitAssumption DEF Config
<1>3. work[w].kind = KindOf(ScopeOfWork(w))
  BY <1>1 DEF TypeInv, WorkOK, ScopeOfWork
<1> QED
  BY <1>1, <1>2, <1>3 DEF KindOf, Scopes

LEMMA TypeBeginDiscovery ==
  ASSUME TypeInv, NEW w \in Workers, BeginDiscovery(w)
  PROVE  TypeInv'
<1> DEFINE job == jobs[work[w].job]
<1>1. CASE Go(w, "finish")
  BY <1>1, MoveGo, LocalStep DEF BeginDiscovery, Steps
<1>2. CASE /\ ~RunOver(job)
           /\ \E n \in 1..ChunkLimit(job) :
                work' = [work EXCEPT ![w].pc = "reserve", ![w].size = n,
                                     ![w].addrs = Chunk(job, n)]
  <2>1. PICK n \in 1..ChunkLimit(job) :
          work' = [work EXCEPT ![w].pc = "reserve", ![w].size = n,
                               ![w].addrs = Chunk(job, n)]
    BY <1>2
  <2>2. job \in Job /\ job.scope \in Profiles
    BY OwnedRow DEF BeginDiscovery, ScopeOfWork
  <2>3. Count(job.scope) > 0 /\ n \in Nat
    <3> HIDE DEF job
    <3>1. Targets[job.scope] \in Seq(Addresses) /\ job.processed \in Nat
      BY <2>2, ScopeAssumption DEF Job
    <3>2. Count(job.scope) \in Nat
      BY <3>1 DEF Count
    <3> QED
      BY <1>2, <3>1, <3>2 DEF RunOver
  <2>4. Chunk(job, n) \in SUBSET Addresses
    BY <2>2, <2>3, ChunkType
  <2> DEFINE r == [work[w] EXCEPT !.pc = "reserve", !.size = n,
                                  !.addrs = Chunk(job, n)]
  <2>5. r \in Work /\ r.owner = work[w].owner /\ r.job = work[w].job
        /\ r.kind = work[w].kind
    BY <2>3, <2>4, WorkType DEF Work, Steps
  <2>6. work' = [work EXCEPT ![w] = r]
    BY <2>1, WorkType
  <2> QED
    BY <2>5, <2>6, MoveTo, LocalStep DEF BeginDiscovery
<1> QED
  BY <1>1, <1>2 DEF BeginDiscovery, IsChunkLength

LEMMA AddedType ==
  ASSUME NEW D, NEW g \in [D -> Nat], NEW n, NEW c \in Nat
  PROVE  [g EXCEPT ![n] = @ + c] \in [D -> Nat]
<1>1. \A x \in D : [g EXCEPT ![n] = @ + c][x] \in Nat
  <2> TAKE x \in D
  <2>1. g[x] \in Nat /\ g[x] + c \in Nat
    OBVIOUS
  <2> QED
    BY <2>1
<1> QED
  BY <1>1

LEMMA CountedType ==
  ASSUME NEW b \in [Kinds -> [Windows -> Nat]], NEW k, NEW n, NEW c \in Nat
  PROVE  Counted(b, k, n, c) \in [Kinds -> [Windows -> Nat]]
<1>1. CASE k \in Kinds
  <2> DEFINE f == [b[k] EXCEPT ![n] = @ + c]
  <2>1. b[k] \in [Windows -> Nat]
    BY <1>1
  <2>2. f \in [Windows -> Nat]
    BY <2>1, AddedType
  <2>3. Counted(b, k, n, c) = [b EXCEPT ![k] = f]
    BY <1>1 DEF Counted
  <2> QED
    BY <2>2, <2>3
<1>2. CASE k \notin Kinds
  <2>1. Counted(b, k, n, c) = b
    BY <1>2 DEF Counted
  <2> QED
    BY <2>1
<1> QED
  BY <1>1, <1>2

LEMMA CostType ==
  ASSUME TypeInv, NEW w \in Workers,
         work[w].pc \in {"charge", "pin", "reserve"}
  PROVE  Cost(w) \in Nat
<1>1. work[w].size \in Nat /\ Ports \in Nat
  BY WorkType, TimingAssumption DEF Work
<1>2. work[w].size * Ports \in Nat
  BY <1>1
<1> QED
  BY <1>2 DEF Cost

LEMMA LockedType ==
  ASSUME TypeInv, NEW w \in Workers, work[w].pc # "idle", NEW now \in Nat
  PROVE  /\ Locked(w, now) \in [DOMAIN Locked(w, now) -> [owner: Owners, expires: Nat]]
         /\ DOMAIN Locked(w, now) \subseteq Addresses
<1>1. work[w].owner \in Owners /\ work[w].addrs \subseteq Addresses
  BY WorkType DEF TypeInv, WorkOK, Work
<1>2. now + LeaseTTL \in Nat
  BY TimingAssumption
<1> QED
  BY <1>1, <1>2, LiveLocksType DEF TypeInv, Locked

LEMMA TypeReserve ==
  ASSUME TypeInv, NEW w \in Workers, NEW now \in Recent, Reserve(w, now)
  PROVE  TypeInv'
<1>1. budget' \in [Kinds -> [Windows -> Nat]]
  BY CostType, CountedType DEF TypeInv, TypeOK, Reserve
<1>2. contacts' \in [Kinds -> [Windows -> Nat]]
  <2>1. AtLeast(1, Cost(w)) \in Nat
    BY CostType DEF AtLeast, Reserve
  <2>2. contacts \in [Kinds -> [Windows -> Nat]]
    BY DEF TypeInv, TypeOK
  <2>3. \/ contacts' = contacts
        \/ contacts' = Counted(contacts, work[w].kind, Window(clock),
                               AtLeast(1, Cost(w)))
    BY DEF Reserve
  <2> QED
    BY <2>1, <2>2, <2>3, CountedType
<1>3. Moves
  <2>1. CASE Go(w, "dns")
    BY <2>1, MoveGo DEF Reserve, Steps
  <2>2. CASE work' = [work EXCEPT ![w].pc = "probe",
                                  ![w].until = clock + MaxProbe]
    <3> DEFINE r == [work[w] EXCEPT !.pc = "probe", !.until = clock + MaxProbe]
    <3>1. clock + MaxProbe \in Nat
      BY TimingAssumption DEF TypeInv, TypeOK
    <3>2. r \in Work /\ r.owner = work[w].owner /\ r.job = work[w].job
          /\ r.kind = work[w].kind
      BY <3>1, WorkType DEF Work, Steps
    <3>3. work' = [work EXCEPT ![w] = r]
      BY <2>2, WorkType
    <3> QED
      BY <3>2, <3>3, MoveTo DEF Reserve
  <2> QED
    BY <2>1, <2>2 DEF Reserve
<1>4. RowsKept
  BY JobsUntouched DEF Reserve, rows
<1>5. WorkOK'
  BY <1>3, <1>4, WorkMoved DEF Moves
<1>6. /\ locks' \in [DOMAIN locks' -> [owner: Owners, expires: Nat]]
      /\ DOMAIN locks' \subseteq Addresses
  BY RecentType, LockedType DEF Reserve, TypeInv
<1> QED
  BY <1>1, <1>2, <1>3, <1>5, <1>6, WorkerStep
  DEF TypeInv, TypeOK, Reserve, Moves, rows, SameJob

LEMMA WindowType ==
  ASSUME NEW now \in Nat
  PROVE  Window(now) \in Nat /\ (Window(now) + 1) * WindowLength \in Nat
<1>1. Window(now) \in Nat
  BY TimingAssumption DEF Window
<1>2. WindowLength \in Nat
  BY TimingAssumption
<1> QED
  BY <1>1, <1>2

LEMMA MoveDeferred ==
  ASSUME TypeInv, NEW w \in Workers, NEW now \in Recent,
         NEW overspent \in BOOLEAN, work[w].pc # "idle",
         Deferred(w, now, overspent)
  PROVE  Moves
<1>1. work[w].notBefore \in Nat /\ (Window(now) + 1) * WindowLength \in Nat
  BY WorkType, RecentType, WindowType DEF Work, TypeInv
<1>2. PICK t \in Nat : work' = [work EXCEPT ![w].pc = "defer", ![w].notBefore = t]
  <2>1. work' = [work EXCEPT ![w].pc = "defer",
                   ![w].notBefore = IF overspent
                                    THEN (Window(now) + 1) * WindowLength
                                    ELSE work[w].notBefore]
    BY WorkType DEF Deferred
  <2> QED
    BY <1>1, <2>1
<1> DEFINE r == [work[w] EXCEPT !.pc = "defer", !.notBefore = t]
<1>3. r \in Work /\ r.owner = work[w].owner /\ r.job = work[w].job
      /\ r.kind = work[w].kind
  BY WorkType DEF Work, Steps
<1>4. work' = [work EXCEPT ![w] = r]
  BY <1>2, WorkType
<1> QED
  BY <1>3, <1>4, MoveTo

\* Worker steps that write neither jobs nor configurations.
LEMMA SharedStep ==
  ASSUME TypeInv, Moves, UNCHANGED <<outside, rows, contacts>>,
         budget' \in [Kinds -> [Windows -> Nat]],
         DOMAIN locks' \subseteq Addresses,
         locks' \in [DOMAIN locks' -> [owner: Owners, expires: Nat]]
  PROVE  TypeInv'
<1>1. RowsKept
  BY JobsUntouched DEF rows
<1>2. WorkOK'
  BY <1>1, WorkMoved DEF Moves
<1> QED
  BY <1>2 DEF TypeInv, TypeOK, Moves, outside, rows

LEMMA TypeReserveRefused ==
  ASSUME TypeInv, NEW w \in Workers, NEW now \in Recent, ReserveRefused(w, now)
  PROVE  TypeInv'
<1>1. Moves
  BY MoveDeferred DEF ReserveRefused
<1>2. /\ locks' \in [DOMAIN locks' -> [owner: Owners, expires: Nat]]
      /\ DOMAIN locks' \subseteq Addresses
  <2>1. locks' = locks \/ locks' = LiveLocks(now)
    BY DEF ReserveRefused
  <2>2. CASE locks' = locks
    BY <2>2 DEF TypeInv, TypeOK
  <2>3. CASE locks' = LiveLocks(now)
    BY <2>3, LiveLocksType DEF TypeInv
  <2> QED
    BY <2>1, <2>2, <2>3
<1>3. UNCHANGED <<outside, rows, budget, contacts>>
  BY DEF ReserveRefused
<1>4. budget \in [Kinds -> [Windows -> Nat]]
  BY DEF TypeInv, TypeOK
<1> QED
  BY <1>1, <1>2, <1>3, <1>4, SharedStep

LEMMA TypeReserveDns ==
  ASSUME TypeInv, NEW w \in Workers, NEW now \in Recent, ReserveDns(w, now)
  PROVE  TypeInv'
<1>1. Moves
  <2>1. CASE Go(w, "resolve")
    BY <2>1, MoveGo DEF ReserveDns, Steps
  <2>2. CASE Deferred(w, now, Owned(w, now))
    <3>1. Owned(w, now) \in BOOLEAN
      BY DEF Owned
    <3> QED
      BY <2>2, <3>1, MoveDeferred DEF ReserveDns
  <2> QED
    BY <2>1, <2>2 DEF ReserveDns
<1>2. budget' \in [Kinds -> [Windows -> Nat]]
  <2>1. budget \in [Kinds -> [Windows -> Nat]]
    BY DEF TypeInv, TypeOK
  <2>2. \/ budget' = budget
        \/ budget' = Counted(budget, "dns", Window(now), 1)
    BY DEF ReserveDns, SpendDns
  <2> QED
    BY <2>1, <2>2, CountedType
<1> QED
  BY <1>1, <1>2, SharedStep DEF TypeInv, TypeOK, ReserveDns

LEMMA TypeNameHost ==
  ASSUME TypeInv, NEW w \in Workers, NEW now \in Recent, NameHost(w, now)
  PROVE  TypeInv'
<1>1. PICK pc \in {"finish", "naming"} :
        work' = [work EXCEPT ![w].todo = work[w].todo - 1, ![w].pc = pc]
  BY WorkType DEF NameHost
<1> DEFINE r == [work[w] EXCEPT !.todo = work[w].todo - 1, !.pc = pc]
<1>2. work[w].todo - 1 \in Nat
  BY WorkType DEF Work, NameHost
<1>3. r \in Work /\ r.owner = work[w].owner /\ r.job = work[w].job
      /\ r.kind = work[w].kind
  BY <1>2, WorkType DEF Work, Steps
<1>4. work' = [work EXCEPT ![w] = r]
  BY <1>1, WorkType
<1>5. Moves
  BY <1>3, <1>4, MoveTo DEF NameHost
<1>6. budget' \in [Kinds -> [Windows -> Nat]]
  <2>1. budget \in [Kinds -> [Windows -> Nat]] /\ DnsCost \in Nat
    BY TimingAssumption DEF TypeInv, TypeOK
  <2>2. \/ budget' = budget
        \/ budget' = Counted(budget, "dns", Window(now), DnsCost)
    BY DEF NameHost, SpendDns
  <2> QED
    BY <2>1, <2>2, CountedType
<1> QED
  BY <1>5, <1>6, SharedStep DEF TypeInv, TypeOK, NameHost

LEMMA TypeRelease ==
  ASSUME TypeInv, NEW w \in Workers, Release(w)
  PROVE  TypeInv'
<1>1. Moves
  BY IdleType, MoveTo DEF Release
<1>2. /\ locks' \in [DOMAIN locks' -> [owner: Owners, expires: Nat]]
      /\ DOMAIN locks' \subseteq Addresses
  BY DEF TypeInv, TypeOK, Release, Restrict
<1> QED
  BY <1>1, <1>2, SharedStep DEF TypeInv, TypeOK, Release

LEMMA TypeFinishMonitor ==
  ASSUME TypeInv, NEW w \in Workers, NEW now \in Recent, FinishMonitor(w, now)
  PROVE  TypeInv'
<1> DEFINE i == work[w].job
           m == ScopeOfWork(w)
<1>1. /\ i \in DOMAIN jobs /\ jobs[i] \in Job /\ jobs \in [DOMAIN jobs -> Job]
      /\ m \in Monitors /\ cfg[m].threshold \in Nat /\ jobs[i].gen \in Nat
      /\ health \in [Monitors -> Health] /\ health[m] \in Health
      /\ work[w].outcome \in {"up", "down", "unknown"}
  BY OwnedRow, WorkType DEF FinishMonitor, TypeInv, TypeOK, Job, Work
<1>2. health' \in [Monitors -> Health]
  <2> DEFINE h == StateAfter(health[m], work[w].outcome, cfg[m].threshold,
                             jobs[i].gen)
  <2>1. h \in Health
    BY <1>1, StateType
  <2>2. health' = [health EXCEPT ![m] = h]
    BY <1>1 DEF FinishMonitor
  <2> QED
    BY <1>1, <2>1, <2>2
<1>3. /\ jobs' \in [DOMAIN jobs -> Job] /\ DOMAIN jobs' = DOMAIN jobs
      /\ \A j \in DOMAIN jobs : SameJob(jobs[j], jobs'[j])
  <2> DEFINE r == [jobs[i] EXCEPT !.status = "completed", !.processed = 1]
  <2>1. r \in Job /\ SameJob(jobs[i], r)
    BY <1>1 DEF Job, SameJob, FinalStatus
  <2>2. jobs' = [jobs EXCEPT ![i] = r]
    BY <1>1 DEF FinishMonitor
  <2> QED
    BY <1>1, <2>1, <2>2 DEF SameJob
<1>4. Moves
  BY MoveGo DEF FinishMonitor, Steps
<1>5. WorkOK'
  BY <1>3, <1>4, RowsSame, WorkMoved DEF Moves, FinishMonitor
<1> QED
  BY <1>2, <1>3, <1>4, <1>5, WorkerStep
  DEF TypeInv, TypeOK, FinishMonitor, Moves, shared

LEMMA AdvancedType ==
  ASSUME NEW job \in Job, job.scope \in Profiles, NEW n \in Nat, NEW now \in Nat
  PROVE  Advanced(job, n, now) \in Job /\ SameJob(job, Advanced(job, n, now))
<1> DEFINE total == Count(job.scope)
           done == job.processed + n
           status == IF done >= total THEN "completed"
                     ELSE IF now >= job.started + RunLimit THEN "partial"
                     ELSE "queued"
           cursor == (job.cursor + n) % AtLeast(1, total)
           scanned == job.scanned \cup {(job.cursor + i) % AtLeast(1, total) :
                                           i \in 0..(n - 1)}
           avail == now + 1
<1>1. Targets[job.scope] \in Seq(Addresses) /\ job.cursor \in Nat
      /\ job.processed \in Nat /\ job.scanned \in SUBSET Nat
  BY ScopeAssumption DEF Job
<1>2. total \in Nat
  BY <1>1 DEF Count
<1>3. AtLeast(1, total) \in Nat /\ AtLeast(1, total) > 0
  BY <1>2 DEF AtLeast
<1>4. \A x \in Nat : x % AtLeast(1, total) \in Nat
  BY <1>3
<1>5. cursor \in Nat
  <2>1. job.cursor + n \in Nat
    BY <1>1
  <2> QED
    BY <1>4, <2>1
<1>6. scanned \in SUBSET Nat
  <2>1. \A i \in 0..(n - 1) : job.cursor + i \in Nat
    BY <1>1
  <2> QED
    BY <1>1, <1>4, <2>1
<1>7. status \in ActiveStatus \cup FinalStatus /\ done \in Nat /\ avail \in Nat
  BY <1>1 DEF ActiveStatus, FinalStatus
<1>8. Advanced(job, n, now) =
        [job EXCEPT !.status = status, !.owner = NoOwner, !.lease = NoTime,
                    !.avail = avail, !.processed = done, !.cursor = cursor,
                    !.scanned = scanned]
  BY DEF Advanced
<1> HIDE DEF total, done, status, cursor, scanned, avail
<1>9. SameJob(job, Advanced(job, n, now))
  BY <1>8 DEF Job, SameJob
<1>10. Advanced(job, n, now) \in Job
  <2> DEFINE row == [job EXCEPT !.status = status, !.owner = NoOwner,
                                !.lease = NoTime, !.avail = avail,
                                !.processed = done, !.cursor = cursor,
                                !.scanned = scanned]
  <2>1. row \in Job
    BY <1>5, <1>6, <1>7 DEF Job, NoTime
  <2> QED
    BY <1>8, <2>1
<1> QED
  BY <1>9, <1>10

LEMMA TypeFinishDiscovery ==
  ASSUME TypeInv, NEW w \in Workers, NEW now \in Recent, FinishDiscovery(w, now)
  PROVE  TypeInv'
<1> DEFINE i == work[w].job
           job == Advanced(jobs[i], work[w].size, now)
<1>1. /\ i \in DOMAIN jobs /\ jobs[i] \in Job /\ jobs \in [DOMAIN jobs -> Job]
      /\ jobs[i].scope \in Profiles /\ work[w].size \in Nat /\ now \in Nat
      /\ cfg \in [DOMAIN cfg -> Config]
  BY OwnedRow, WorkType, RecentType
  DEF FinishDiscovery, ScopeOfWork, TypeInv, TypeOK, Work
<1>2. job \in Job /\ SameJob(jobs[i], job)
  BY <1>1, AdvancedType
<1>3. jobs' = [jobs EXCEPT ![i] = job]
      /\ cfg' = [cfg EXCEPT ![job.scope].cursor = job.cursor]
  BY DEF FinishDiscovery
<1>4. cfg' \in [DOMAIN cfg -> Config] /\ DOMAIN cfg' = DOMAIN cfg
  <2>1. job.scope \in DOMAIN cfg /\ job.cursor \in Nat
    BY <1>1, <1>2, OwnedRow DEF FinishDiscovery, ScopeOfWork, SameJob, Job
  <2> HIDE DEF job
  <2>2. [cfg[job.scope] EXCEPT !.cursor = job.cursor] \in Config
    BY <1>1, <2>1 DEF Config
  <2>3. cfg' = [cfg EXCEPT ![job.scope] =
                  [cfg[job.scope] EXCEPT !.cursor = job.cursor]]
    BY <1>3, <2>1
  <2> QED
    BY <1>1, <2>2, <2>3
<1> HIDE DEF job
<1>5. /\ jobs' \in [DOMAIN jobs -> Job] /\ DOMAIN jobs' = DOMAIN jobs
      /\ \A j \in DOMAIN jobs : SameJob(jobs[j], jobs'[j])
  BY <1>1, <1>2, <1>3 DEF SameJob
<1>6. Moves
  BY MoveGo DEF FinishDiscovery, Steps
<1>7. WorkOK'
  BY <1>5, <1>6, RowsSame, WorkMoved DEF Moves, FinishDiscovery
<1> QED
  BY <1>4, <1>5, <1>6, <1>7, WorkerStep
  DEF TypeInv, TypeOK, FinishDiscovery, Moves, shared

LEMMA TypeFinishError ==
  ASSUME TypeInv, NEW w \in Workers, FinishError(w)
  PROVE  TypeInv'
<1>1. /\ jobs' \in [DOMAIN jobs -> Job] /\ DOMAIN jobs' = DOMAIN jobs
      /\ \A j \in DOMAIN jobs : SameJob(jobs[j], jobs'[j])
  BY StatusType DEF FinishError, TypeInv, TypeOK, FinalStatus, SameJob
<1>2. Moves
  BY MoveGo DEF FinishError, Steps
<1>3. WorkOK'
  BY <1>1, <1>2, RowsSame, WorkMoved DEF Moves, FinishError
<1> QED
  BY <1>1, <1>2, <1>3, WorkerStep DEF TypeInv, TypeOK, FinishError, Moves, shared

LEMMA TypeDefer ==
  ASSUME TypeInv, NEW w \in Workers, NEW now \in Recent, Defer(w, now)
  PROVE  TypeInv'
<1> DEFINE avail == AtLeast(now + DeferDelay, work[w].notBefore)
<1>1. avail \in Nat /\ jobs \in [DOMAIN jobs -> Job]
  BY WorkType, RecentType, TimingAssumption DEF TypeInv, TypeOK, AtLeast, Work
<1>2. \A j \in DOMAIN jobs :
        \/ jobs'[j] = jobs[j]
        \/ jobs'[j] = [jobs[j] EXCEPT !.status = "queued", !.owner = NoOwner,
                                      !.lease = NoTime, !.avail = avail]
  BY DEF Defer
<1>3. jobs' = [j \in DOMAIN jobs |-> jobs'[j]]
  BY DEF Defer
<1> HIDE DEF avail
<1>4. \A j \in DOMAIN jobs : jobs'[j] \in Job /\ SameJob(jobs[j], jobs'[j])
  <2> TAKE j \in DOMAIN jobs
  <2> DEFINE row == [jobs[j] EXCEPT !.status = "queued", !.owner = NoOwner,
                                    !.lease = NoTime, !.avail = avail]
  <2>1. jobs[j] \in Job /\ "queued" \in ActiveStatus \cup FinalStatus
    BY <1>1 DEF ActiveStatus
  <2>2. row \in Job /\ SameJob(jobs[j], row)
    BY <1>1, <2>1 DEF Job, SameJob, NoTime
  <2> QED
    BY <1>2, <2>1, <2>2 DEF SameJob
<1>5. jobs' \in [DOMAIN jobs -> Job] /\ DOMAIN jobs' = DOMAIN jobs
  BY <1>3, <1>4
<1>6. Moves
  BY MoveGo DEF Defer, Steps
<1>7. WorkOK'
  BY <1>4, <1>5, <1>6, RowsSame, WorkMoved DEF Moves, Defer
<1> QED
  BY <1>4, <1>5, <1>6, <1>7, WorkerStep DEF TypeInv, TypeOK, Defer, Moves, shared

LEMMA TypeTick ==
  ASSUME TypeInv, Tick
  PROVE  TypeInv'
<1>1. RowsKept
  BY JobsUntouched DEF Tick, rows
<1>2. WorkOK'
  BY <1>1, WorkMoved DEF TypeInv, TypeOK, Tick
<1>3. clock' \in 1..MaxClock
  BY LimitAssumption DEF TypeInv, TypeOK, Tick
<1> QED
  BY <1>2, <1>3 DEF TypeInv, TypeOK, Tick, rows, shared

-----------------------------------------------------------------------------
(* The theorem.                                                            *)

LEMMA TypeInit == Init => TypeInv
<1> SUFFICES ASSUME Init PROVE TypeInv
  OBVIOUS
<1>1. work \in [Workers -> Work] /\ WorkOK
  BY IdleType DEF Init, NoWork, WorkOK
<1>2. health \in [Monitors -> Health]
  BY DEF Init, NoWork, Health, NoMeasurement
<1>3. clock \in 1..MaxClock
  BY LimitAssumption DEF Init, NoWork
<1> QED
  BY <1>1, <1>2, <1>3 DEF Init, NoWork, TypeInv, TypeOK

LEMMA TypeNext == TypeInv /\ [Next]_vars => TypeInv'
<1> SUFFICES ASSUME TypeInv, [Next]_vars PROVE TypeInv'
  OBVIOUS
<1>1. CASE Requests
  BY <1>1, TypeSave, TypeArchive, TypeCancelRun, TypePause, TypeSettings,
     TypeRequestJob DEF Requests
<1>2. CASE Background
  BY <1>2, TypeScheduleDue, TypeCleanup DEF Background
<1>3. ASSUME NEW w \in Workers, Claim(w) PROVE TypeInv'
  BY <1>3, TypeClaimJob, TypeClaimNothing DEF Claim
<1>4. ASSUME NEW w \in Workers, Execute(w) PROVE TypeInv'
  <2>1. 0..ChunkSize \subseteq Nat
    BY TimingAssumption
  <2> QED
    BY <1>4, <2>1, TypeGo, TypeBeginMonitor, TypeBeginDiscovery, TypeResolve,
       TypeProbeMonitor, TypeProbeDiscovery, TypeFinishError, TypeRelease,
       TypeReserve, TypeReserveRefused, TypeReserveDns, TypeNameHost,
       TypeFinishMonitor, TypeFinishDiscovery, TypeDefer DEF Execute
<1>5. ASSUME NEW w \in Workers, Mishap(w) \/ OrphanEnds(w) PROVE TypeInv'
  BY <1>5, TypeFail, TypeGo, TypeCrash DEF Mishap
<1>6. CASE Tick
  BY <1>6, TypeTick
<1>7. CASE UNCHANGED vars
  <2>1. RowsKept
    BY <1>7, JobsUntouched DEF vars
  <2> QED
    BY <1>7, <2>1, QueueStep DEF TypeInv, TypeOK, vars
<1> QED
  BY <1>1, <1>2, <1>3, <1>4, <1>5, <1>6, <1>7 DEF Next

\* Every variable always has its type, and a busy worker's claim is a real one
\* on a job whose kind it knows (all transactions of the three sources).
THEOREM TypeCorrect == Spec => []TypeInv
BY TypeInit, TypeNext, PTL DEF Spec

\* The invariant the runs check.
THEOREM TypesKept == Spec => []TypeOK
<1>1. TypeInv => TypeOK
  BY DEF TypeInv
<1> QED
  BY <1>1, TypeCorrect, PTL

=============================================================================
