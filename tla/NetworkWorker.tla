---------------------------- MODULE NetworkWorker ----------------------------
(***************************************************************************)
(* The workers of app/services/asset_network_worker.py: claiming a job,    *)
(* executing it and recording its result.  Everything a worker does        *)
(* between two transactions, network I/O included, is a point where any    *)
(* other process may act, the lease may run out, or the process may die.   *)
(***************************************************************************)
EXTENDS NetworkQueue

-----------------------------------------------------------------------------
(* Claiming.                                                               *)

\* Variant: only the claims of monitor jobs are swept.
ExpiredMonitors(now) ==
  {j \in JobsOf({"running"}) : jobs[j].scope \in Monitors /\ jobs[j].lease <= now}
Expired(now) == {j \in JobsOf({"running"}) : jobs[j].lease <= now}
StillRunning(now) == JobsOf({"running"}) \ Expired(now)
Ready(now) == {j \in JobsOf({"queued"}) : jobs[j].avail <= now}
Refused(now) == {j \in Ready(now) : ~EnabledJob(jobs[j])}

\* Variant: discovery runs do not exclude one another.
ClaimableTogether(now) == {j \in Ready(now) : EnabledJob(jobs[j])}

\* Variant: a discovery run also waits for queued ones.
ClaimableAlone(now) ==
  {j \in Ready(now) :
     /\ EnabledJob(jobs[j])
     /\ jobs[j].scope \in Profiles =>
          \A i \in JobsOf(ActiveStatus) \ {j} : jobs[i].scope \notin Profiles}

Claimable(now) ==
  {j \in Ready(now) :
     /\ EnabledJob(jobs[j])
     /\ jobs[j].scope \in Profiles =>
          \A i \in StillRunning(now) : jobs[i].scope \notin Profiles}

\* ORDER BY available_at, id
Precedes(i, j) ==
  \/ jobs[i].avail < jobs[j].avail
  \/ jobs[i].avail = jobs[j].avail /\ i < j

\* An interrupted check is recorded as Unknown, if its monitor has not been
\* saved again since.
SweptHealth(now) ==
  [m \in Monitors |->
     IF \E j \in Expired(now) :
          jobs[j].scope = m /\ m \in DOMAIN cfg /\ jobs[j].gen = cfg[m].gen
     THEN StateAfter(health[m], "unknown", cfg[m].threshold, cfg[m].gen)
     ELSE health[m]]

\* Uuids in use nowhere.
FreshOwners ==
  Owners \ ({locks[a].owner : a \in DOMAIN locks}
            \cup {jobs[j].owner : j \in JobsOf(ActiveStatus)}
            \cup {work[w].owner : w \in Workers})

Claimed(row, owner, now) ==
  [row EXCEPT !.status = "running", !.owner = owner, !.lease = now + LeaseTTL,
              !.started = IF @ = NoTime THEN now ELSE @]

\* The jobs table after claim_job has swept expired claims and cancelled the
\* rows of S.
SweptJobs(now, S) ==
  [j \in DOMAIN jobs |->
     IF j \in Expired(now) THEN [jobs[j] EXCEPT !.status = "error"]
     ELSE IF j \in S THEN [jobs[j] EXCEPT !.status = "cancelled"]
     ELSE jobs[j]]

\* The first claimable job is claimed; the ready rows before it that may no
\* longer run are cancelled on the way.
ClaimJob(w, now) ==
  /\ work[w].pc = "idle"
  /\ Cardinality(StillRunning(now)) < MaxRunning
  /\ \E j \in Claimable(now), o \in FreshOwners :
       /\ \A i \in Claimable(now) \ {j} : Precedes(j, i)
       /\ LET passed == {i \in Refused(now) : Precedes(i, j)} IN
            jobs' = [SweptJobs(now, passed) EXCEPT
                       ![j] = Claimed(jobs[j], o, now)]
       /\ work' = [work EXCEPT ![w] = [IdleWork EXCEPT !.pc = "claimed",
                                         !.job = j, !.owner = o,
                                         !.kind = KindOf(jobs[j].scope)]]
  /\ locks' = LiveLocks(now)
  /\ health' = SweptHealth(now)
  /\ UNCHANGED <<outside, cfg, nextId, budget, contacts>>

\* A poll that finds nothing to run still sweeps.
ClaimNothing(w, now) ==
  /\ work[w].pc = "idle"
  /\ \/ /\ Cardinality(StillRunning(now)) >= MaxRunning
        /\ jobs' = SweptJobs(now, {})
     \/ /\ Cardinality(StillRunning(now)) < MaxRunning
        /\ Claimable(now) = {}
        /\ jobs' = SweptJobs(now, Refused(now))
  /\ locks' = LiveLocks(now)
  /\ health' = SweptHealth(now)
  /\ UNCHANGED <<outside, cfg, nextId, budget, contacts, work>>

-----------------------------------------------------------------------------
(* Executing a claimed job.                                                *)

ScopeOfWork(w) == jobs[work[w].job].scope

\* execute_job returns at once when the claim has been lost.
LostClaim(w) ==
  /\ work[w].pc = "claimed"
  /\ ~Owned(w, clock)
  /\ Go(w, "release")
  /\ UNCHANGED <<outside, rows, shared>>

\* It also returns when the process is stopping, and gives up when
\* finish_error raises in its turn (a database that stays locked); the job
\* keeps its lease until a claim sweeps it.
GiveUp(w) ==
  /\ \/ work[w].pc \in {"claimed", "fail"}
     \/ work[w].pc = "finish" /\ work[w].kind = "monitor"
  /\ Go(w, "release")
  /\ UNCHANGED <<outside, rows, shared>>

BeginMonitor(w) ==
  /\ work[w].pc = "claimed"
  /\ Owned(w, clock)
  /\ \/ /\ ScopeOfWork(w) \in HostMonitors
        /\ Go(w, "charge")
     \/ /\ ScopeOfWork(w) \in Monitors \ HostMonitors
        /\ work' = [work EXCEPT ![w].pc = "reserve",
                                ![w].addrs = {MonitorTarget[ScopeOfWork(w)]}]
  /\ UNCHANGED <<outside, rows, shared>>

Count(p) == Len(Targets[p])
TargetAt(p, i) == Targets[p][(i % Count(p)) + 1]

\* The chunk is the longest one within the size limits whose targets are of
\* one address family.
AtMost(n, m) == IF n <= m THEN n ELSE m
AtLeast(n, m) == IF n >= m THEN n ELSE m
ChunkLimit(job) ==
  AtMost(ChunkSize,
         AtMost(Count(job.scope) - job.processed,
                AtLeast(1, Rate["discovery"] \div AtLeast(1, Ports))))
OneFamily(job, n) ==
  \A i \in 0..(n - 1) : (TargetAt(job.scope, job.cursor + i) \in SixFamily)
                          <=> (TargetAt(job.scope, job.cursor) \in SixFamily)
IsChunkLength(job, n) ==
  /\ OneFamily(job, n)
  /\ n = ChunkLimit(job) \/ ~OneFamily(job, n + 1)
Chunk(job, n) == {TargetAt(job.scope, job.cursor + i) : i \in 0..(n - 1)}

RunOver(job) ==
  clock >= job.started + RunLimit \/ job.processed >= Count(job.scope)

BeginDiscovery(w) ==
  /\ work[w].pc = "claimed"
  /\ Owned(w, clock)
  /\ work[w].kind = "discovery"
  /\ LET job == jobs[work[w].job] IN
       \/ /\ RunOver(job)
          /\ Go(w, "finish")
       \/ /\ ~RunOver(job)
          /\ \E n \in 1..ChunkLimit(job) :
               /\ IsChunkLength(job, n)
               /\ work' = [work EXCEPT ![w].pc = "reserve", ![w].size = n,
                                       ![w].addrs = Chunk(job, n)]
  /\ UNCHANGED <<outside, rows, shared>>

\* reserve(job, addresses, cost) is called with no address and cost 1 before a
\* name is resolved, with the resolved address and cost 0 after, and otherwise
\* with the targets and their full cost.
\* Variant: a monitor of a name is never charged.
CostOfNumbers(w) ==
  CASE work[w].pc \in {"charge", "pin"} -> 0
    [] work[w].pc = "reserve" -> IF work[w].kind = "monitor" THEN 1
                                 ELSE work[w].size * Ports

Cost(w) ==
  CASE work[w].pc = "charge" -> 1
    [] work[w].pc = "pin" -> 0
    [] work[w].pc = "reserve" -> IF work[w].kind = "monitor" THEN 1
                                 ELSE work[w].size * Ports
Free(w, now) == work[w].addrs \cap DOMAIN LiveLocks(now) = {}
Affordable(k, now, cost) == budget[k][Window(now)] + cost <= Rate[k]
Counted(counts, k, n, cost) == [counts EXCEPT ![k][n] = @ + cost]

Locked(w, now) ==
  [a \in DOMAIN LiveLocks(now) \cup work[w].addrs |->
     IF a \in work[w].addrs
     THEN [owner |-> work[w].owner, expires |-> now + LeaseTTL]
     ELSE locks[a]]

Reserve(w, now) ==
  /\ work[w].pc \in {"charge", "pin", "reserve"}
  /\ Owned(w, now)
  /\ Free(w, now)
  /\ Affordable(work[w].kind, now, Cost(w))
  /\ budget' = Counted(budget, work[w].kind, Window(now), Cost(w))
  /\ locks' = Locked(w, now)
  /\ \/ /\ work[w].pc = "charge"
        /\ Go(w, "dns")
        /\ UNCHANGED contacts
     \/ /\ work[w].pc # "charge"
        /\ work' = [work EXCEPT ![w].pc = "probe",
                                ![w].until = clock + MaxProbe]
        /\ contacts' = Counted(contacts, work[w].kind, Window(clock),
                               AtLeast(1, Cost(w)))
  /\ UNCHANGED <<outside, rows>>

\* A refusal for lack of budget names the window to wait for.
Deferred(w, now, overspent) ==
  work' = [work EXCEPT ![w].pc = "defer",
             ![w].notBefore = IF overspent
                              THEN (Window(now) + 1) * WindowLength ELSE @]

ReserveRefused(w, now) ==
  /\ work[w].pc \in {"charge", "pin", "reserve"}
  /\ \/ /\ ~Owned(w, now)
        /\ Deferred(w, now, FALSE)
        /\ UNCHANGED locks
     \/ /\ Owned(w, now)
        /\ ~Free(w, now)
        /\ Deferred(w, now, FALSE)
        /\ locks' = LiveLocks(now)
     \/ /\ Owned(w, now)
        /\ Free(w, now)
        /\ ~Affordable(work[w].kind, now, Cost(w))
        /\ Deferred(w, now, TRUE)
        /\ locks' = LiveLocks(now)
  /\ UNCHANGED <<outside, rows, budget, contacts>>

SpendDns(now, cost) == budget' = Counted(budget, "dns", Window(now), cost)

ReserveDns(w, now) ==
  /\ work[w].pc = "dns"
  /\ \/ /\ Owned(w, now)
        /\ Affordable("dns", now, 1)
        /\ SpendDns(now, 1)
        /\ Go(w, "resolve")
     \/ /\ ~Owned(w, now) \/ ~Affordable("dns", now, 1)
        /\ Deferred(w, now, Owned(w, now))
        /\ UNCHANGED budget
  /\ UNCHANGED <<outside, rows, locks, contacts>>

\* The resolver answers with an address the policy approves.
Resolve(w, a) ==
  /\ work[w].pc = "resolve"
  /\ work' = [work EXCEPT ![w].pc = "pin", ![w].addrs = {a}]
  /\ UNCHANGED <<outside, rows, shared>>

ProbeMonitor(w, outcome) ==
  /\ work[w].pc = "probe"
  /\ work[w].kind = "monitor"
  /\ work' = [work EXCEPT ![w].pc = "finish", ![w].outcome = outcome]
  /\ UNCHANGED <<outside, rows, shared>>

\* The scanner reports responding hosts; each may be looked up by name.
ProbeDiscovery(w, responding) ==
  /\ work[w].pc = "probe"
  /\ work[w].kind = "discovery"
  /\ responding <= work[w].size
  /\ LET names == IF ResolveNames THEN responding ELSE 0 IN
       work' = [work EXCEPT ![w].pc = IF names = 0 THEN "finish" ELSE "naming",
                            ![w].todo = names]
  /\ UNCHANGED <<outside, rows, shared>>

\* A name is looked up if the resolver budget allows it; otherwise, or past
\* the chunk's deadline, the host is recorded without a name.
NameHost(w, now) ==
  /\ work[w].pc = "naming"
  /\ work[w].todo > 0
  /\ \/ /\ Owned(w, now)
        /\ Affordable("dns", now, DnsCost)
        /\ SpendDns(now, DnsCost)
     \/ UNCHANGED budget
  /\ work' = [work EXCEPT ![w].todo = @ - 1,
                ![w].pc = IF work[w].todo = 1 THEN "finish" ELSE "naming"]
  /\ UNCHANGED <<outside, rows, locks, contacts>>

\* ProbePolicyError, ProbeFailure, HTTPException (candidate staging is full)
\* or any other exception, a locked database included; a transaction that
\* raises is rolled back.  For a monitor, finish_error is finish_monitor with
\* an Unknown result.
Fail(w) ==
  /\ work[w].pc \in {"claimed", "charge", "dns", "resolve", "pin", "reserve",
                     "probe", "naming", "finish", "defer"}
  /\ work' = [work EXCEPT ![w].outcome = "unknown",
                ![w].pc = IF work[w].kind = "monitor" THEN "finish"
                                                      ELSE "fail"]
  /\ UNCHANGED <<outside, rows, shared>>

-----------------------------------------------------------------------------
(* Recording results.                                                      *)

FinishMonitor(w, now) ==
  /\ work[w].pc = "finish"
  /\ Owned(w, now)
  /\ work[w].kind = "monitor"
  /\ LET m == ScopeOfWork(w) IN
       health' = [health EXCEPT ![m] =
                    StateAfter(@, work[w].outcome, cfg[m].threshold,
                               jobs[work[w].job].gen)]
  /\ jobs' = [jobs EXCEPT ![work[w].job].status = "completed",
                          ![work[w].job].processed = 1]
  /\ Go(w, "release")
  /\ UNCHANGED <<outside, shared, cfg, nextId>>

\* Variant: a chunk is taken to be as long as it may be.
AdvancedByLimit(job, n, now) ==
  LET done == job.processed + ChunkLimit(job)
      total == Count(job.scope)
      status == IF done >= total THEN "completed"
                ELSE IF now >= job.started + RunLimit THEN "partial"
                ELSE "queued"
  IN [job EXCEPT !.status = status, !.owner = NoOwner, !.lease = NoTime,
                 !.avail = now + 1, !.processed = done,
                 !.cursor = (@ + n) % AtLeast(1, total),
                 !.scanned = @ \cup {(job.cursor + i) % AtLeast(1, total) :
                                       i \in 0..(n - 1)}]

\* The row of a discovery run after n more of its targets were recorded.
Advanced(job, n, now) ==
  LET done == job.processed + n
      total == Count(job.scope)
      status == IF done >= total THEN "completed"
                ELSE IF now >= job.started + RunLimit THEN "partial"
                ELSE "queued"
  IN [job EXCEPT !.status = status, !.owner = NoOwner, !.lease = NoTime,
                 !.avail = now + 1, !.processed = done,
                 !.cursor = (@ + n) % AtLeast(1, total),
                 !.scanned = @ \cup {(job.cursor + i) % AtLeast(1, total) :
                                       i \in 0..(n - 1)}]

FinishDiscovery(w, now) ==
  /\ work[w].pc = "finish"
  /\ Owned(w, now)
  /\ work[w].kind = "discovery"
  /\ LET job == Advanced(jobs[work[w].job], work[w].size, now) IN
       /\ jobs' = [jobs EXCEPT ![work[w].job] = job]
       /\ cfg' = [cfg EXCEPT ![job.scope].cursor = job.cursor]
  /\ Go(w, "release")
  /\ UNCHANGED <<outside, shared, health, nextId>>

\* A result that arrives after the claim was lost is dropped.
FinishLost(w, now) ==
  /\ work[w].pc = "finish"
  /\ ~Owned(w, now)
  /\ Go(w, "release")
  /\ UNCHANGED <<outside, rows, shared>>

FinishError(w) ==
  /\ work[w].pc = "fail"
  /\ jobs' = IF Owned(w, clock) THEN WithStatus({work[w].job}, "error")
                                ELSE jobs
  /\ Go(w, "release")
  /\ UNCHANGED <<outside, shared, cfg, health, nextId>>

Defer(w, now) ==
  /\ work[w].pc = "defer"
  /\ LET mine == {j \in JobsOf({"running"}) :
                    j = work[w].job /\ jobs[j].owner = work[w].owner} IN
       jobs' = [j \in DOMAIN jobs |->
                  IF j \in mine
                  THEN [jobs[j] EXCEPT !.status = "queued", !.owner = NoOwner,
                          !.lease = NoTime,
                          !.avail = AtLeast(now + DeferDelay,
                                            work[w].notBefore)]
                  ELSE jobs[j]]
  /\ Go(w, "release")
  /\ UNCHANGED <<outside, shared, cfg, health, nextId>>

\* Variant: locks are released by address, not by owner.
TargetLocks(w) == DOMAIN locks \cap work[w].addrs
OwnLocks(w) == {a \in DOMAIN locks : locks[a].owner = work[w].owner}

\* The finally block: a transaction of its own, whatever happened before.
Release(w) ==
  /\ work[w].pc = "release"
  /\ locks' = Restrict(locks, DOMAIN locks \ OwnLocks(w))
  /\ work' = [work EXCEPT ![w] = IdleWork]
  /\ UNCHANGED <<outside, rows, budget, contacts>>

-----------------------------------------------------------------------------
(* Failures and time.                                                      *)

\* The process dies.  A probe runs in a session of its own: it lives on until
\* its own time limit.
Crash(w) ==
  /\ work[w].pc \notin {"idle", "orphan"}
  /\ work' = [work EXCEPT ![w] =
                IF @.pc = "probe" THEN [@ EXCEPT !.pc = "orphan"]
                                  ELSE IdleWork]
  /\ UNCHANGED <<outside, rows, shared>>

OrphanEnds(w) ==
  /\ work[w].pc = "orphan"
  /\ work' = [work EXCEPT ![w] = IdleWork]
  /\ UNCHANGED <<outside, rows, shared>>

Contacting(w) == work[w].pc \in {"probe", "orphan"}

Tick ==
  /\ clock < MaxClock
  /\ \A w \in Workers : Contacting(w) => clock < work[w].until
  /\ clock' = clock + 1
  /\ UNCHANGED <<rows, shared, policy, authorized, archived, work>>

=============================================================================
