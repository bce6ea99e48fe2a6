----------------------------- MODULE NetworkJobs -----------------------------
(***************************************************************************)
(* The job queue together with its workers, and the properties of the      *)
(* whole.                                                                  *)
(***************************************************************************)
EXTENDS NetworkWorker

Requests ==
  \/ \E s \in Scopes, on, scheduled \in BOOLEAN, t \in Thresholds,
        delay \in 1..Interval : Save(s, on, scheduled, t, delay)
  \/ \E m \in Monitors : Archive(m) \/ Restore(m)
  \/ \E j \in DOMAIN jobs : CancelRun(j)
  \/ Pause
  \/ \E p \in Policies \ {policy} : ChangePolicy(p)
  \/ \E u \in Users : ChangeRole(u)
  \/ \E u \in Users, s \in Scopes, k \in Keys : RequestJob(u, s, k)

Background ==
  \/ \E s \in Scopes, now \in Recent : ScheduleDue(s, now)
  \/ Cleanup

\* execute_job going its way, and what can go wrong in it.
Execute(w) ==
  \/ BeginMonitor(w) \/ BeginDiscovery(w) \/ LostClaim(w)
  \/ \E a \in Addresses : Resolve(w, a)
  \/ \E r \in Outcomes : ProbeMonitor(w, r)
  \/ \E n \in 0..ChunkSize : ProbeDiscovery(w, n)
  \/ FinishError(w)
  \/ Release(w)
  \/ \E now \in Recent :
       \/ Reserve(w, now) \/ ReserveRefused(w, now)
       \/ ReserveDns(w, now) \/ NameHost(w, now)
       \/ FinishMonitor(w, now) \/ FinishDiscovery(w, now)
       \/ FinishLost(w, now) \/ Defer(w, now)
Mishap(w) == Fail(w) \/ GiveUp(w) \/ Crash(w)

Claim(w) == \E now \in Recent : ClaimJob(w, now) \/ ClaimNothing(w, now)

Next ==
  \/ Requests
  \/ Background
  \/ \E w \in Workers : Claim(w) \/ Execute(w) \/ Mishap(w) \/ OrphanEnds(w)
  \/ Tick

Spec == Init /\ [][Next]_vars

-----------------------------------------------------------------------------
(* Safety properties.                                                      *)

\* At most one outstanding job per asset or profile, however requests,
\* schedules, deferrals and re-queued discovery chunks interleave (enqueue,
\* defer, finish_discovery; the partial unique indexes are only a backstop).
OneOutstanding ==
  \A i, j \in JobsOf(ActiveStatus) : jobs[i].scope = jobs[j].scope => i = j

\* The two shared slots and the single running discovery hold across claims,
\* sweeps, requeues and crashes (claim_job).
SharedSlots ==
  /\ Cardinality(JobsOf({"running"})) <= MaxRunning
  /\ \A i, j \in JobsOf({"running"}) :
       jobs[i].scope \in Profiles /\ jobs[j].scope \in Profiles => i = j

\* Two probe processes never contact one address at the same time, although
\* claims expire, jobs are cancelled or saved anew under a running probe, and
\* probes outlive the worker that started them (reserve, claim_job,
\* execute_job's finally).
NoSharedContact ==
  \A v, w \in Workers :
    v # w /\ Contacting(v) /\ Contacting(w)
      => work[v].addrs \cap work[w].addrs = {}

\* What is measured is what is configured: the measurement shown for an enabled
\* monitor was taken under its present configuration, a late or swept result of
\* an earlier generation is dropped; and an archived asset has neither an enabled
\* monitor nor an outstanding job, so that restoring it resumes no traffic
\* (save_monitor, finish_monitor, claim_job, archive_monitors).
CurrentMeasurement ==
  \A m \in Monitors \cap DOMAIN cfg :
    /\ cfg[m].enabled => health[m].gen \in {0, cfg[m].gen} /\ m \notin archived
    /\ m \in archived => ActiveOf(m) = {}

\* An asset shown Up has fewer failures in a row than its threshold, and one
\* that reached the threshold is shown Down (state_after together with the
\* reset in save_monitor).
FailureStreak ==
  \A m \in Monitors \cap DOMAIN cfg :
    cfg[m].enabled =>
      (health[m].failures >= cfg[m].threshold => health[m].stable = "down")

\* A retained idempotency key of one principal stands for one job of a scope,
\* also after that job was cancelled or its configuration changed (enqueue).
IdempotentRequests ==
  \A i, j \in DOMAIN jobs :
    /\ jobs[i].scope = jobs[j].scope
    /\ jobs[i].actor = jobs[j].actor
    /\ jobs[i].key = jobs[j].key
    /\ jobs[i].key # NoKey
    => i = j

\* Manual jobs of one scope are a minute apart, whoever requests them and
\* however the configuration is saved in between (enqueue, save_monitor).
ManualSpacing ==
  \A i, j \in DOMAIN jobs :
    /\ jobs[i].scope = jobs[j].scope
    /\ i < j
    /\ jobs[i].actor # System /\ jobs[j].actor # System
    => jobs[j].created >= jobs[i].created + ManualGap

\* A discovery run recorded as completed has recorded every target of its
\* profile, through any number of chunks, deferrals and errors; and an
\* outstanding run of the present configuration continues at the profile's
\* persisted cursor (discovery_chunk, finish_discovery).
RunCoverage ==
  \A j \in DOMAIN jobs :
    jobs[j].scope \in Profiles =>
      /\ jobs[j].status = "completed" =>
           jobs[j].scanned = 0..(Count(jobs[j].scope) - 1)
      /\ jobs[j].status \in ActiveStatus =>
           jobs[j].cursor = cfg[jobs[j].scope].cursor

\* No window's budget is overspent, and every attempt made so far was paid
\* for, in its own window or in an earlier one: reserve charges the window of
\* its clock reading, before a name is resolved and the lock is had (reserve,
\* reserve_dns).
Totals(f) ==
  LET total[n \in Windows] == f[n] + (IF n = 0 THEN 0 ELSE total[n - 1]) IN total
Sum(f, n) == Totals(f)[n]
PaidContacts ==
  /\ \A k \in Kinds, n \in Windows : budget[k][n] <= Rate[k]
  /\ \A k \in Kinds \ {"dns"}, n \in Windows :
       Sum(contacts[k], n) <= Sum(budget[k], n)

-----------------------------------------------------------------------------
(* The queue implements the lifecycle.                                     *)

JobStatus ==
  [j \in 1..MaxJobs |-> IF j >= nextId THEN "none"
                        ELSE IF j \in DOMAIN jobs THEN jobs[j].status
                        ELSE "forgotten"]
JobHolder ==
  [j \in 1..MaxJobs |-> IF j \in DOMAIN jobs /\ jobs[j].status = "running"
                        THEN jobs[j].owner ELSE NoOwner]

Lifecycle == INSTANCE JobLifecycle
  WITH Ids <- 1..MaxJobs, Claims <- Owners, NoClaim <- NoOwner,
       Slots <- MaxRunning, status <- JobStatus, holder <- JobHolder

\* Every transaction of every process moves the jobs it touches along legal
\* arcs: a finished job is never reopened, outstanding work is never deleted,
\* and a claim is never shared (enqueue, claim_job, defer, finish_*, cleanup).
LifecycleKept == Lifecycle!Spec

-----------------------------------------------------------------------------
(* Liveness.                                                               *)

\* Worker threads keep polling and executing, probes end at their time limit
\* and the clock advances; nothing is assumed of requests or crashes.
Fairness ==
  /\ WF_vars(Tick)
  /\ \A w \in Workers : WF_vars(Claim(w)) /\ WF_vars(Execute(w))
                       /\ WF_vars(OrphanEnds(w))

\* A claim that can still expire within the modelled time never keeps its job
\* running for ever, whatever became of its worker (claim_job's sweep).
RunsEnd ==
  \A j \in 1..MaxJobs :
    (j \in JobsOf({"running"}) /\ jobs[j].lease <= MaxClock)
      ~> j \notin JobsOf({"running"})

\* A queued job that comes due within the modelled time is run or cancelled:
\* a busy target, the discovery slot and abandoned claims hold it up only for
\* a while (claim_job, defer).
QueuedServed ==
  \A j \in 1..MaxJobs :
    (j \in JobsOf({"queued"}) /\ jobs[j].avail <= MaxClock)
      ~> j \notin JobsOf({"queued"})

=============================================================================
